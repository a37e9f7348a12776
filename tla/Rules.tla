------------------------------- MODULE Rules -------------------------------
(***************************************************************************)
(* The decisions that are computed and keep no state: access control and   *)
(* the key of the rate limiter (acl.rs, ratelimit.rs), routing             *)
(* (proxy/router.rs), rendezvous selection (balancer/), the headers of a   *)
(* forwarded request (proxy/handler/headers.rs), what may be cached        *)
(* (proxy/handler/policy.rs, cache_control.rs, cache.rs), the backoff      *)
(* (retry.rs) and the validation of a configuration (config/types.rs).     *)
(*                                                                         *)
(* A state is one question, an input of one of them; the properties say    *)
(* what the answers must be.                                               *)
(***************************************************************************)
EXTENDS Integers, Sequences, FiniteSets, SequencesExt

CONSTANTS
    V4Bits,     \* width of an IPv4 address
    BlockBits,  \* IPV4_MAPPED_PREFIX_BITS: the rest of an IPv6 address
    Word        \* width of u64

ASSUME RulesAssumption == {V4Bits, BlockBits, Word} \subseteq Nat \ {0}

VARIABLE question    \* [of |-> the decision, its input]

NoQuestion == [of |-> "none"]

\* Powers of two, as a recursive function so that they can be reasoned about.
Pow2[n \in Nat] == IF n = 0 THEN 1 ELSE 2 * Pow2[n - 1]

-----------------------------------------------------------------------------
(* Addresses.  ::ffff:0:0/96 is the block numbered 1.                      *)

Bits(family) == IF family = 4 THEN V4Bits ELSE BlockBits + V4Bits
Addresses(family) == [fam : {family}, addr : 0 .. Pow2[Bits(family)] - 1]
Mapped(family, addr) == family = 6 /\ addr \div Pow2[V4Bits] = 1

to_canonical(ip) ==
    IF Mapped(ip.fam, ip.addr) THEN [fam |-> 4, addr |-> ip.addr % Pow2[V4Bits]] ELSE ip

\* Peer of the ingress protocol: one slot for both families, and back.
from_socket_addr(ip) == IF ip.fam = 4 THEN Pow2[V4Bits] + ip.addr ELSE ip.addr
socket_addr(slot) == to_canonical([fam |-> 6, addr |-> slot])

Nets(family) == [fam : {family}, addr : 0 .. Pow2[Bits(family)] - 1, len : 0 .. Bits(family)]
NetContains(net, ip) ==
    LET host == Pow2[Bits(net.fam) - net.len]
    IN  net.fam = ip.fam /\ net.addr \div host = ip.addr \div host

\* Mutant: the prefix that covers the whole block is taken for a real IPv6 range.
canonicalize_narrow_net(net) ==
    IF Mapped(net.fam, net.addr) /\ net.len > BlockBits
    THEN [fam |-> 4, addr |-> net.addr % Pow2[V4Bits], len |-> net.len - BlockBits] ELSE net

canonicalize_net(net) ==
    IF Mapped(net.fam, net.addr) /\ net.len >= BlockBits
    THEN [fam |-> 4, addr |-> net.addr % Pow2[V4Bits], len |-> net.len - BlockBits] ELSE net

\* AccessControl::check over the folded lists; deny comes first.
check(acl, ip) ==
    LET Member(nets) == \E net \in nets : NetContains(canonicalize_net(net), to_canonical(ip))
    IN  ~ Member(acl.deny) /\ (acl.allow = {} \/ Member(acl.allow))

-----------------------------------------------------------------------------
(* Selection.  A backend's score for a client is -weight / ln(h).  Its     *)
(* distance is -ln(h): more than 0, or 0 for a hash so close to u64::MAX   *)
(* that h rounds to 1 (the score is then minus infinity).                  *)

\* HealthState::weight_factor in halves: 1 without a fresh report, 0 when offline,
\* otherwise what load and latency leave.
weight_factor(b) ==
    IF b.report = "none" THEN 2 ELSE IF b.report = "offline" THEN 0 ELSE b.left

\* base weight x health factor x (1 - pressure), the last two in halves.
scored_weight(b) == b.weight * weight_factor(b) * (2 - b.pressure)

\* rendezvous_score(b) > rendezvous_score(c)
Outscores(b, c) ==
    /\ b.distance # 0
    /\ c.distance # 0 => scored_weight(b) * c.distance > scored_weight(c) * b.distance

\* select_with_pressure_excluding: the index of the best backend so far, or 0;
\* a later one takes its place only with a higher score.
Scan(pool, excluded) ==
    LET best[n \in 0 .. Len(pool)] ==
          IF n = 0 THEN 0
          ELSE IF scored_weight(pool[n]) <= 0 \/ n \in excluded THEN best[n - 1]
          ELSE IF best[n - 1] = 0 \/ Outscores(pool[n], pool[best[n - 1]]) THEN n ELSE best[n - 1]
    IN  best
select_with_pressure_excluding(pool, excluded) == Scan(pool, excluded)[Len(pool)]

-----------------------------------------------------------------------------
(* Routes.  A path is a sequence of bytes.                                 *)

\* Router::new: a stable sort, longest prefix first.  Each route goes behind
\* those before it in the file whose prefix is not shorter.
Place(sorted, route) ==
    CHOOSE k \in 0 .. Len(sorted) :
      \A i \in 1 .. Len(sorted) : i <= k <=> Len(sorted[i].path_prefix) >= Len(route.path_prefix)
SortedUpTo(routes) ==
    LET sorted[n \in 0 .. Len(routes)] ==
          IF n = 0 THEN <<>>
          ELSE InsertAt(sorted[n - 1], Place(sorted[n - 1], routes[n]) + 1, routes[n])
    IN  sorted
sorted_routes(routes) == SortedUpTo(routes)[Len(routes)]

Covers(prefix, path) ==
    /\ IsPrefix(prefix, path)
    /\ \/ Len(path) = Len(prefix)
       \/ Last(prefix) = "/"
       \/ path[Len(prefix) + 1] = "/"

\* The first of the sorted routes that covers the path, if any.
match_route(routes, path) ==
    LET sorted == sorted_routes(routes)
        hits == {i \in 1 .. Len(sorted) : Covers(sorted[i].path_prefix, path)}
    IN  IF hits = {} THEN <<>> ELSE <<sorted[Min(hits)]>>

-----------------------------------------------------------------------------
(* Headers.  A header map is a function from names to values.              *)

HOP_BY_HOP == {"connection", "te"}
IDENTITY == {"x-client-id"}
FORWARDED == {"x-forwarded-for", "forwarded"}
Names == HOP_BY_HOP \cup IDENTITY \cup FORWARDED \cup {"host", "x-debug"}

Without(h, names) == [n \in DOMAIN h \ names |-> h[n]]
Insert(h, name, value) == [n \in DOMAIN h \cup {name} |-> IF n = name THEN value ELSE h[n]]

\* The names that Connection nominates are gathered before it is removed.
strip_hop_by_hop_headers(h, nominated) ==
    Without(h, HOP_BY_HOP \cup (IF "connection" \in DOMAIN h THEN nominated ELSE {}))
apply_forwarded_headers(h) == Insert(Without(h, FORWARDED), "x-forwarded-for", "peer")
apply_identity_headers(h, identity) ==
    IF identity = "none" THEN Without(h, IDENTITY) ELSE Insert(Without(h, IDENTITY), "x-client-id", identity)

\* Mutant: what belongs to the hop is stripped last.
forward_strips_last(h, nominated, identity) ==
    strip_hop_by_hop_headers(
        apply_identity_headers(apply_forwarded_headers(Insert(h, "host", "backend")), identity), nominated)

\* forward_request's order.
forward_request(h, nominated, identity) ==
    apply_identity_headers(
        apply_forwarded_headers(Insert(strip_hop_by_hop_headers(h, nominated), "host", "backend")), identity)

-----------------------------------------------------------------------------
(* The cache.  A backend's answer depends on some of the request; it says  *)
(* so in Vary (on the first line, the only one read), answers a range with *)
(* 206 if it supports ranges and encodes what the client lets it encode.   *)

Aspects == {"language", "encoding", "identity"}
Answer(b, q) ==
    [status |-> IF q.range /\ b.ranges THEN 206 ELSE 200,
     encoded |-> "encoding" \in b.depends /\ q.encoding,
     vary |-> b.depends,
     directives |-> b.directives,
     body |-> <<[a \in b.depends \ {"encoding"} |-> q[a]], q.cookie, q.range /\ b.ranges>>]

vary_permits_caching(r) == r.vary \subseteq {"encoding", "identity"}
response_permits_shared_caching(q, r) == ~ q.cookie /\ "public" \in r.directives

\* Mutant: every success is cacheable.
is_success_status(r) == r.status \in {200, 206}

is_cacheable_status(r) == r.status = 200
should_cache_response(q, r) ==
    /\ is_cacheable_status(r)
    /\ ~ r.encoded
    /\ vary_permits_caching(r)
    /\ response_permits_shared_caching(q, r)
\* ResponseCache::put's own refusals (a body too long and a TTL of 0 apart).
Put_stores(r) == r.directives \cap {"no-store", "private"} = {}

cache_lookup_applies(q) == ~ q.cookie /\ ~ q.range
maybe_compress(q, r) ==
    [r EXCEPT !.encoded = @ \/ (q.encoding /\ r.status # 206 /\ "no-transform" \notin r.directives)]

\* write_cache_key: the parts, each after its length.  Digits and ':' are
\* characters that a part may have as well.
Digit == <<"0", "1", "2">>
write_cache_key(key) ==
    LET Part(s) == <<Digit[Len(s) + 1], ":">> \o s
    IN  Part(key.method) \o Part(key.path) \o Part(key.identity)

-----------------------------------------------------------------------------
(* The backoff.                                                            *)

U64_MAX == Pow2[Word] - 1
Least(a, b) == IF a <= b THEN a ELSE b

\* 1.checked_shl(attempt), or u64::MAX; saturating_mul; min.
exp_delay_ms(attempt, r) ==
    Least(Least(r.base * (IF attempt < Word THEN Pow2[attempt] ELSE U64_MAX), U64_MAX), r.max)
\* The jitter is below jitter_ms; saturating_add.
backoff_delay(attempt, r) ==
    {Least(exp_delay_ms(attempt, r) + j, U64_MAX) : j \in 0 .. (IF r.jitter > 0 THEN r.jitter - 1 ELSE 0)}

-----------------------------------------------------------------------------
(* Validation.  A listener's address is a number, 0 if it is not enabled.  *)

needs_client_tls(b) == b.transport = "quic" \/ b.scheme = "https"

validate_no_duplicate_backend_ids(c) ==
    \A i, j \in 1 .. Len(c.backends) : c.backends[i].id = c.backends[j].id => i = j
\* Mutant: two routes may have the same prefix.
validate_routes_loosely(c) ==
    \A i \in 1 .. Len(c.routes) :
      /\ Head(c.routes[i].path_prefix) = "/"
      /\ \E k \in 1 .. Len(c.backends) : c.backends[k].pool = c.routes[i].backend_id

validate_routes(c) ==
    \A i \in 1 .. Len(c.routes) :
      /\ Head(c.routes[i].path_prefix) = "/"
      /\ \A j \in 1 .. i - 1 : c.routes[j].path_prefix # c.routes[i].path_prefix
      /\ \E k \in 1 .. Len(c.backends) : c.backends[k].pool = c.routes[i].backend_id
validate_retry_backoff(c) == c.retry.base <= c.retry.max
validate_ingress(c) ==
    /\ \A g \in c.ingress :
         /\ g.backend_ids # {}
         /\ \A id \in g.backend_ids :
              \E k \in 1 .. Len(c.backends) : c.backends[k].id = id /\ c.backends[k].transport = "quic"
         /\ ~ g.private => c.allow # {}
    /\ \A g, h \in c.ingress : g.listen = h.listen => g = h
validate_backend_schemes(c) ==
    \A k \in 1 .. Len(c.backends) : c.backends[k].scheme = "http" => c.backends[k].transport = "tcp"
validate_client_identity(c) ==
    c.client \/ \A k \in 1 .. Len(c.backends) : ~ needs_client_tls(c.backends[k])
validate_acme_inbound_ca(c) == c.acme /\ c.client_auth # "disabled" => c.ca
validate_acme_barrel_state(c) == c.acme => c.persist_command # "empty"
validate_http_redirect(c) == c.redirect # 0 => c.to_host = "bare" /\ c.redirect # c.listen
validate_health_endpoint(c) == c.health # 0 => c.health # c.listen /\ c.health # c.redirect

validate(c) ==
    /\ validate_no_duplicate_backend_ids(c) /\ validate_routes(c) /\ validate_retry_backoff(c)
    /\ validate_ingress(c) /\ validate_backend_schemes(c) /\ validate_client_identity(c)
    /\ validate_acme_inbound_ca(c) /\ validate_http_redirect(c) /\ validate_health_endpoint(c)
    /\ validate_acme_barrel_state(c)

-----------------------------------------------------------------------------
(* The questions.                                                          *)

Ask(q) == question' = q

Lists == {{}} \cup {{net} : net \in Nets(4) \cup Nets(6)}
AskAccess == \E allow, deny \in Lists : Ask([of |-> "access", acl |-> [allow |-> allow, deny |-> deny]])

Candidates ==
    [weight : {1, 2}, report : {"none", "offline", "fresh"}, left : {1}, pressure : {0, 2}, distance : {0, 1, 2}]
AskSelect == \E pool \in [1 .. 2 -> Candidates], last \in {c \in Candidates : c.weight = 1 /\ c.pressure = 0} :
               Ask([of |-> "select", pool |-> Append(pool, last)])

AskHeaders ==
    \E sent \in SUBSET Names, nominated \in SUBSET {"x-client-id", "x-forwarded-for", "host", "x-debug"}, identity \in {"none", "device"} :
      Ask([of |-> "headers", sent |-> sent, nominated |-> nominated, identity |-> identity])

Requested ==
    [language : {"en", "fr"}, encoding : BOOLEAN, identity : {"d1", "d2"}, cookie : BOOLEAN, range : BOOLEAN]
Origins ==
    [depends : SUBSET Aspects, ranges : BOOLEAN,
     directives : SUBSET {"public", "private", "no-store", "no-transform"}]
AskCache == \E q \in Requested, b \in Origins : Ask([of |-> "cache", request |-> q, origin |-> b])

Texts == UNION {[1 .. n -> {"1", ":"}] : n \in 0 .. 2}
Keys == [method : Texts, path : Texts, identity : Texts]
AskKey == \E k \in Keys : Ask([of |-> "key", key |-> k])

\* A configuration that validates, to be changed in one respect at a time.
Backend(id, pool, transport, scheme) == [id |-> id, pool |-> pool, transport |-> transport, scheme |-> scheme]
Base ==
    [backends |-> <<Backend(1, "p", "quic", "https"), Backend(2, "q", "tcp", "http")>>,
     routes |-> <<>>, retry |-> [base |-> 1, max |-> 4, jitter |-> 0],
     ingress |-> {}, allow |-> {}, client |-> TRUE,
     acme |-> FALSE, client_auth |-> "required", ca |-> TRUE, persist_command |-> "none",
     listen |-> 1, redirect |-> 0, to_host |-> "bare", health |-> 0]

Bytes == {"/", "a", "b"}
PathsUpTo(n) == UNION {[1 .. k -> Bytes] : k \in 1 .. n}
RoutePrefixes == {<<"/">>, <<"/", "a">>, <<"/", "a", "/">>, <<"/", "a", "b">>, <<"a">>}
Routed == [path_prefix : RoutePrefixes, backend_id : {"p", "q", "r"}]
AskRoutes == \E routes \in UNION {[1 .. n -> Routed] : n \in 1 .. 3} :
               Ask([of |-> "config", config |-> [Base EXCEPT !.routes = routes]])
AskRetry == \E retry \in [base : 0 .. U64_MAX, max : 0 .. U64_MAX, jitter : 0 .. 2] :
              Ask([of |-> "config", config |-> [Base EXCEPT !.retry = retry]])
AskBackends ==
    \E b \in [id : {1, 2}, pool : {"p", "q"}, transport : {"tcp", "quic"}, scheme : {"http", "https"}],
       ids \in SUBSET {1, 2, 3}, listens \in SUBSET {5, 6}, private, client \in BOOLEAN, allow \in {{}, {"net"}} :
      Ask([of |-> "config",
           config |-> [Base EXCEPT !.backends = <<@[2], b>>, !.client = client, !.allow = allow,
             !.ingress = {[listen |-> l, backend_ids |-> ids, private |-> private] : l \in listens}]])
AskListeners ==
    \E redirect, health \in 0 .. 2, host \in {"bare", "empty", "url"}, acme, ca \in BOOLEAN,
       auth \in {"required", "optional", "disabled"}, command \in {"none", "empty", "given"} :
      Ask([of |-> "config",
           config |-> [Base EXCEPT !.redirect = redirect, !.health = health, !.to_host = host,
                                   !.acme = acme, !.ca = ca, !.client_auth = auth,
                                   !.persist_command = command]])

Forget == question # NoQuestion /\ question' = NoQuestion

RulesInit == question = NoQuestion
RulesNext ==
    \/ /\ question = NoQuestion
       /\ \/ AskAccess \/ AskSelect \/ AskHeaders \/ AskCache \/ AskKey
          \/ AskRoutes \/ AskRetry \/ AskBackends \/ AskListeners
    \/ Forget

-----------------------------------------------------------------------------
(* Properties.                                                             *)

Twin(x) == [fam |-> 6, addr |-> Pow2[V4Bits] + x.addr]
Denotes(net, x) == NetContains(net, x) \/ (net.fam = 6 /\ net.len >= BlockBits /\ NetContains(net, Twin(x)))

\* acl.rs: without the folding "deny would fail open and allow would reject
\* everyone".  An IPv4 host is admitted or not, and is one client to the rate
\* limiter, the balancer and the consumer of an ingress, whichever listener it
\* comes through and whichever notation a rule is written in.
OneHost ==
    question.of = "access" =>
      \A x \in Addresses(4) :
        LET In(nets) == \E net \in nets : Denotes(net, x)
        IN  /\ check(question.acl, x) <=> ~ In(question.acl.deny) /\ (question.acl.allow = {} \/ In(question.acl.allow))
            /\ check(question.acl, Twin(x)) <=> check(question.acl, x)
            /\ to_canonical(Twin(x)) = x
            /\ \A y \in {x, Twin(x)} : socket_addr(from_socket_addr(y)) = x

\* A client has a backend as long as there is an eligible one, and moves only
\* when its own goes: another member that fails, fills up or is excluded by a
\* retry does not move it.
FailoverIsLocal ==
    question.of = "select" =>
      \A excluded \in SUBSET (1 .. 3) :
        LET eligible == {i \in 1 .. 3 : scored_weight(question.pool[i]) > 0} \ excluded
            chosen == select_with_pressure_excluding(question.pool, excluded)
        IN  /\ chosen \in eligible \/ (eligible = {} /\ chosen = 0)
            /\ \A i \in 1 .. 3 \ {chosen} :
                 /\ select_with_pressure_excluding(question.pool, excluded \cup {i}) = chosen
                 /\ select_with_pressure_excluding([question.pool EXCEPT ![i].report = "offline"], excluded) = chosen

\* Where a client goes depends on who it is and on nothing else.
Placement == OneHost /\ FailoverIsLocal

\* headers.rs, "anti-spoof, unconditional so a forgery never survives": the
\* backend sees the proven identity and the peer's address, and not what the
\* client put there or nominated in Connection to have removed; what is
\* neither of the hop nor nominated comes through.
HeadersProven ==
    question.of = "headers" =>
      LET nominated == IF "connection" \in question.sent THEN question.nominated ELSE {}
          h == forward_request([n \in question.sent |-> "client"], question.nominated, question.identity)
          Value(n) == IF n \in DOMAIN h THEN h[n] ELSE "none"
      IN  /\ Value("x-client-id") = question.identity
          /\ Value("x-forwarded-for") = "peer" /\ Value("host") = "backend"
          /\ DOMAIN h \cap (HOP_BY_HOP \cup {"forwarded"}) = {}
          /\ "x-debug" \in DOMAIN h <=> "x-debug" \in question.sent \ nominated

\* A hit is what the origin would have answered this client, in an encoding
\* that it accepts, although the cache's key has neither cookies, ranges nor
\* languages; and no two keys are written alike.
HitIsAnswer ==
    /\ question.of = "cache" =>
         LET r == Answer(question.origin, question.request)
         IN  should_cache_response(question.request, r) /\ Put_stores(r) =>
               \A q \in Requested :
                 cache_lookup_applies(q) /\ q.identity = question.request.identity =>
                   /\ Answer(question.origin, q).body = r.body
                   /\ maybe_compress(q, r).encoded => q.encoding
    /\ question.of = "key" =>
         \A k \in Keys : write_cache_key(k) = write_cache_key(question.key) => k = question.key

\* The route of a path is the longest that covers it, whatever the order of
\* the file, and its pool has a member.
RoutedRight(c) ==
    \A p \in PathsUpTo(4) :
      LET m == match_route(c.routes, p)
      IN  /\ m # <<>> <=> \E r \in Range(c.routes) : Covers(r.path_prefix, p)
          /\ m # <<>> =>
               /\ \A r \in Range(c.routes) :
                    Covers(r.path_prefix, p) => Len(r.path_prefix) <= Len(m[1].path_prefix)
               /\ match_route(Reverse(c.routes), p)[1] = m[1]
               /\ \E b \in Range(c.backends) : b.pool = m[1].backend_id

\* The delays start at the base, never shrink and stay below the cap and its
\* jitter, past the width of the shift too.
BackoffGrows(r) ==
    \A a \in 0 .. Word + 1 :
      /\ exp_delay_ms(0, r) = r.base
      /\ exp_delay_ms(a, r) <= exp_delay_ms(a + 1, r)
      /\ \A d \in backoff_delay(a, r) : d \in exp_delay_ms(a, r) .. r.max + r.jitter

\* A configuration that validate lets through does not "start fine, fail
\* later": its routes are unambiguous, its retries back off, each handshake
\* has its identity or its CA, renewed secrets have somewhere to go, an ingress has QUIC backends to dial, and the
\* HTTP listeners have a socket each.
ValidatedConfig ==
    question.of = "config" /\ validate(question.config) =>
      LET c == question.config
      IN  /\ RoutedRight(c) /\ BackoffGrows(c.retry)
          /\ \A b \in Range(c.backends) : b.transport = "quic" => c.client /\ b.scheme = "https"
          /\ \A g \in c.ingress : \A id \in g.backend_ids :
               Cardinality({i \in 1 .. Len(c.backends) : c.backends[i].id = id /\ c.backends[i].transport = "quic"}) = 1
          /\ c.acme => c.persist_command # "empty" /\ (c.client_auth \in {"required", "optional"} => c.ca)
          /\ \A x, y \in {"listen", "redirect", "health"} : x # y /\ c[x] # 0 => c[x] # c[y]
=============================================================================
