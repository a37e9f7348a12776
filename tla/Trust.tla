------------------------------- MODULE Trust -------------------------------
(***************************************************************************)
(* Who is on the other end: the TLS configurations that startup builds     *)
(* from the policy (startup/tls.rs, tls/certs.rs), what their handshakes   *)
(* let through, the identity taken from a certificate (tls/identity.rs),   *)
(* the gates that use it (proxy/handler.rs, proxy/raw_authz.rs,            *)
(* tunnel/listener/registration.rs), and the keys that the denylist and    *)
(* the raw relays' allowlist name in hexadecimal (tunnel/revocation.rs).   *)
(*                                                                         *)
(* Like Rules, whose variable it shares, it asks one question at a time.   *)
(***************************************************************************)
EXTENDS Rules

CONSTANT SpkiLen    \* SPKI_SHA256_LEN: bytes of a key's hash

ASSUME TrustAssumption == SpkiLen \in Nat \ {0}

-----------------------------------------------------------------------------
(* ClientAuthPolicy.                                                       *)

builds_verifier(policy) == policy # "disabled"
is_mandatory(policy) == policy = "required"
allows_anonymous(policy) == policy # "required"

-----------------------------------------------------------------------------
(* The configurations of a deployment d.  The TCP and the QUIC listener    *)
(* and the tunnel's share the server's.                                    *)

TRAFFIC_ALPN == {"h2", "http/1.1"}
ACME_TLS_ALPN == "acme-tls/1"

build_server_config_for_policy(d) ==
    [asks |-> builds_verifier(d.policy), mandatory |-> is_mandatory(d.policy),
     crl |-> builds_verifier(d.policy) /\ d.crl]
\* There is no CRL under ACME.
build_acme_server_config_for_policy(d) ==
    [asks |-> builds_verifier(d.policy), mandatory |-> is_mandatory(d.policy), crl |-> FALSE]
build_server_tls(d) ==
    IF d.server = "manual" THEN build_server_config_for_policy(d) ELSE build_acme_server_config_for_policy(d)
\* The second configuration of ACME, for the TCP listener alone, asks nobody
\* for a certificate.
has_challenge_config(d) == d.server = "acme" /\ d.door = "tcp"

\* The files that the trust watcher follows; none without a verifier.
build_server_trust_watcher(d) ==
    IF ~ build_server_tls(d).asks THEN {} ELSE {"ca"} \cup (IF build_server_tls(d).crl THEN {"crl"} ELSE {})

\* Towards the backends: an identity and the CA's roots if some backend needs
\* them, else a configuration that trusts nobody.
build_client_tls(backends) ==
    [roots |-> IF \E b \in backends : needs_client_tls(b) THEN {"ca"} ELSE {}]

-----------------------------------------------------------------------------
(* Handshakes.  A certificate's name is "none" where there is none.        *)

NoCert == [by |-> "none", cn |-> "none", key |-> 0, crl |-> FALSE]

\* The delegate of ReloadingClientVerifier.
verify_client_cert(cfg, cert) == cert.by = "ca" /\ ~ (cfg.crl /\ cert.crl)
\* The delegate of ReloadingServerVerifier.
verify_server_cert(cfg, cert, host) == cert.by \in cfg.roots /\ cert.cn = host

is_acme_probe(d, peer) == has_challenge_config(d) /\ ACME_TLS_ALPN \in peer.alpn

\* rustls: a common protocol, and a certificate as the configuration has it.
into_stream(cfg, peer) ==
    /\ peer.alpn \cap TRAFFIC_ALPN # {}
    /\ cfg.asks => IF peer.cert = NoCert THEN ~ cfg.mandatory ELSE verify_client_cert(cfg, peer.cert)

\* handshake_connection, establish_connection: is there a connection to serve?
handshake_connection(d, peer) == ~ is_acme_probe(d, peer) /\ into_stream(build_server_tls(d), peer)

\* PeerIdentity::from_leaf_der of the certificate that was asked for; a name
\* that is missing or too long gives no identity.
NoIdentity == [cn |-> "none", key |-> 0]
from_leaf_der(cert) ==
    IF cert.cn \in {"none", "missing", "long"} THEN NoIdentity ELSE [cn |-> cert.cn, key |-> cert.key]
connect_addr(d, peer) == IF build_server_tls(d).asks THEN from_leaf_der(peer.cert) ELSE NoIdentity

-----------------------------------------------------------------------------
(* Keys.  A hash is a sequence of bytes; a text a sequence of characters.  *)

HEX_ALPHABET == <<"0", "1", "2", "3", "4", "5", "6", "7", "8", "9", "a", "b", "c", "d", "e", "f">>
UPPER == <<"0", "1", "2", "3", "4", "5", "6", "7", "8", "9", "A", "B", "C", "D", "E", "F">>
IsHex(c) == \E v \in 1 .. 16 : c \in {HEX_ALPHABET[v], UPPER[v]}
hex_nibble(c) == (CHOOSE v \in 1 .. 16 : c \in {HEX_ALPHABET[v], UPPER[v]}) - 1

spki_hex(key) ==
    [i \in 1 .. 2 * SpkiLen |->
        LET byte == key[(i + 1) \div 2]
        IN  HEX_ALPHABET[1 + (IF i % 2 = 1 THEN byte \div 16 ELSE byte % 16)]]

\* Both files refuse a text of another length and one with other characters.
WellFormed(text) == Len(text) = 2 * SpkiLen /\ \A i \in 1 .. Len(text) : IsHex(text[i])

\* RevocationSet::parse: the bytes.
decode_spki_hex(text) == [i \in 1 .. SpkiLen |-> hex_nibble(text[2 * i - 1]) * 16 + hex_nibble(text[2 * i])]
\* RawRelayAuthz::new: the text in lower case.
normalize_spki_hex(text) == [i \in 1 .. Len(text) |-> HEX_ALPHABET[hex_nibble(text[i]) + 1]]

\* An entry has a key's text, or <<>>, and a device's name, or "none".
parse_accepts(e) ==
    /\ e.spki # <<>> \/ e.backend_id # "none"
    /\ e.spki # <<>> => WellFormed(e.spki)
    /\ e.backend_id # "overlong"
parse_revokes(e, key, cn) == (e.spki # <<>> /\ decode_spki_hex(e.spki) = key) \/ e.backend_id = cn

\* RawRelayAuthz::new and is_allowed for one backend; no policy, no access.
RawRelayAuthz_accepts(p) ==
    p.backend_id \in p.known /\ (p.cns # {} \/ p.spkis # {}) /\ \A t \in p.spkis : WellFormed(t)
is_allowed(policies, backend, key, cn) ==
    \E p \in policies : /\ p.backend_id = backend
                        /\ cn \in p.cns \/ spki_hex(key) \in {normalize_spki_hex(t) : t \in p.spkis}

-----------------------------------------------------------------------------
(* The gates.                                                              *)

Denied(d, who) == who # NoIdentity /\ (who.key \in d.revoked_keys \/ who.cn \in d.revoked_names)

\* reject_before_routing; admit_client refuses before it while draining.
reject_before_routing(d, who) ==
    \/ ~ d.acl \/ d.limited
    \/ who = NoIdentity /\ ~ allows_anonymous(d.policy)
    \/ Denied(d, who)
admit_client(d, who) == ~ d.draining /\ ~ reject_before_routing(d, who)

\* accept_registration_stream and admit_registration: a tunnel always has a name.
tunnel_admits(d, who) == who # NoIdentity /\ ~ Denied(d, who)

Served(d, peer) ==
    /\ handshake_connection(d, peer)
    /\ IF d.door = "tunnel" THEN tunnel_admits(d, connect_addr(d, peer)) ELSE admit_client(d, connect_addr(d, peer))

-----------------------------------------------------------------------------
(* The questions.                                                          *)

Certs == {NoCert} \cup
         [by : {"ca", "stranger"}, cn : {"d1", "missing", "long"}, key : {1, 2}, crl : BOOLEAN]
AskPeer ==
    \E policy \in {"required", "optional", "disabled"}, server \in {"manual", "acme"}, door \in {"tcp", "quic", "tunnel"},
       crl, acl, limited, draining \in BOOLEAN, keys \in {{}, {1}}, names \in {{}, {"d1"}},
       cert \in Certs, alpn \in SUBSET {"h2", ACME_TLS_ALPN} :
      /\ server = "acme" => ~ crl
      /\ Cardinality({x \in {<<acl, 1>>, <<~limited, 2>>, <<~draining, 3>>} : ~ x[1]}) <= 1
      /\ Ask([of |-> "peer", peer |-> [cert |-> cert, alpn |-> alpn],
              d |-> [policy |-> policy, server |-> server, door |-> door, crl |-> crl, acl |-> acl,
                     limited |-> limited, draining |-> draining, revoked_keys |-> keys, revoked_names |-> names]])

Characters == {"0", "9", "a", "f", "A", "g"}
KeyTexts == UNION {[1 .. n -> Characters] : n \in 0 .. 2 * SpkiLen + 1}
AskDenylist ==
    \E spki \in KeyTexts, id \in {"none", "d1", "overlong"} :
      Ask([of |-> "denylist", entry |-> [spki |-> spki, backend_id |-> id]])

AskHop ==
    \E started \in SUBSET {"http", "https"}, scheme \in {"http", "https"}, by \in {"ca", "stranger"}, cn \in {"b1", "other"} :
      Ask([of |-> "hop", started |-> {[transport |-> "tcp", scheme |-> s] : s \in started},
           backend |-> [transport |-> "tcp", scheme |-> scheme], cert |-> [by |-> by, cn |-> cn]])

TrustNext == question = NoQuestion /\ (AskPeer \/ AskDenylist \/ AskHop)

-----------------------------------------------------------------------------
\* Who is served is who the handshake proved: certs.rs promises that the
\* challenge configuration "never carries application traffic", the handler
\* that the gate "must match" the TLS layer.  A named peer holds a
\* certificate of the CA that neither the CRL nor the denylist names; without
\* a name nobody is served under "required", nor ever as a tunnel; and the
\* policy turns nobody else away.
PeerProven ==
    question.of = "peer" =>
      LET d == question.d
          cert == question.peer.cert
          who == connect_addr(d, question.peer)
      IN  /\ Served(d, question.peer) =>
               /\ who # NoIdentity =>
                    /\ cert.by = "ca" /\ who.cn = cert.cn
                    /\ ~ (d.server = "manual" /\ d.crl /\ cert.crl)
                    /\ cert.key \notin d.revoked_keys /\ cert.cn \notin d.revoked_names
               /\ who = NoIdentity => d.policy # "required" /\ d.door # "tunnel"
               /\ d.door = "tcp" /\ d.server = "acme" => ACME_TLS_ALPN \notin question.peer.alpn
          /\ d.acl /\ ~ d.limited /\ ~ d.draining /\ d.door # "tunnel" /\ question.peer.alpn = {"h2"} =>
               /\ cert = NoCert /\ d.policy # "required" => Served(d, question.peer)
               /\ cert.by = "ca" /\ cert.cn = "d1" /\ ~ cert.crl /\ ~ Denied(d, [cn |-> "d1", key |-> cert.key])
                    => Served(d, question.peer)
          \* What a handshake was judged by is followed when its file changes.
          /\ who # NoIdentity => "ca" \in build_server_trust_watcher(d)
          /\ build_server_tls(d).crl => "crl" \in build_server_trust_watcher(d)

\* An operator's text names one key, to the denylist and to the allowlist
\* alike and in either case of its letters, or is refused: it is never
\* dropped, cut short or taken for another key ("a truncated hash revokes the
\* wrong key").
SameKey ==
    question.of = "denylist" =>
      LET e == question.entry
          policy == [backend_id |-> "b1", known |-> {"b1"}, cns |-> {}, spkis |-> {e.spki}]
          Named == {k \in [1 .. SpkiLen -> 0 .. 255] : parse_revokes(e, k, "nobody")}
      IN  parse_accepts(e) /\ e.spki # <<>> =>
            /\ RawRelayAuthz_accepts(policy)
            /\ Cardinality(Named) = 1
            /\ \A k \in [1 .. SpkiLen -> 0 .. 255] : k \in Named <=> is_allowed({policy}, "b1", k, "nobody")
            /\ \A k \in Named : \A i \in 1 .. Len(e.spki) :
                 \/ e.spki[i] = spki_hex(k)[i]
                 \/ \E v \in 1 .. 16 : e.spki[i] = UPPER[v] /\ spki_hex(k)[i] = HEX_ALPHABET[v]

\* Nothing goes to a backend over TLS unless it proved its name under the
\* CA of tls.client; a process that started with cleartext backends only
\* refuses a TLS backend that a reload brings rather than trust it.
HopProven ==
    question.of = "hop" =>
      LET cfg == build_client_tls(question.started)
          up == verify_server_cert(cfg, question.cert, "b1")
      IN  /\ up => question.cert = [by |-> "ca", cn |-> "b1"] /\ \E b \in question.started : b.scheme = "https"
          /\ question.backend \in question.started /\ question.backend.scheme = "https" =>
               (up <=> question.cert = [by |-> "ca", cn |-> "b1"])

IdentityProven == PeerProven /\ SameKey /\ HopProven
=============================================================================
