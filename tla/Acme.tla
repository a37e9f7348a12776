-------------------------------- MODULE Acme --------------------------------
(***************************************************************************)
(* The ACME client of tls/acme.rs with its secret state (secret_state.rs): *)
(* the first certificate at startup, the renewal loop, an order with its   *)
(* tls-alpn-01 challenges, the store and what survives a restart.          *)
(*                                                                         *)
(* A certificate is the state of its validity: "fresh", "due" (within the  *)
(* 30 days of the renewal buffer) or "expired".  Every call to the CA or   *)
(* to the store may fail.  The CA validates a domain by connecting to the  *)
(* process: that needs a listener and the domain's challenge certificate.  *)
(***************************************************************************)
EXTENDS Naturals, FiniteSets

CONSTANTS
    Domains,      \* the configured domains
    Custodies,    \* the kinds of store to look at
    MaxFailures   \* where the model stops counting failures (the code saturates)

ASSUME AcmeAssumption ==
    /\ Domains # {} /\ IsFiniteSet(Domains)
    /\ Custodies \subseteq {"file", "barrel"} /\ MaxFailures \in Nat \ {0}

VARIABLES
    custody,    \* from_acme_config: "file", the cache directory, or "barrel", env in, command out
    phase,      \* the process: "down", "starting", "serving" or "stopping"
    pc,         \* where its ACME task stands
    store,      \* the persisted state: an account and a certificate, or neither
    env,        \* the state that was injected when the process was launched
    state,      \* the copy that provision_cert threads through an order
    cached,     \* the certificate that the start found in the store
    cert,       \* the resolver's certificate
    challenges, \* domains with a challenge certificate in the resolver
    asked,      \* domains of the order whose authorization was handled
    pending,    \* domains that the CA has still to validate
    failures    \* consecutive_failures

acmeVars == <<custody, phase, pc, store, env, state, cached, cert, challenges, asked, pending, failures>>
orderVars == <<challenges, asked, pending>>

Certs == {"none", "fresh", "due", "expired"}
Blobs == [account : BOOLEAN, cert : Certs]
Empty == [account |-> FALSE, cert |-> "none"]

AcmeTypeOK ==
    /\ custody \in Custodies
    /\ phase \in {"down", "starting", "serving", "stopping"}
    /\ pc \in {"none", "failed", "account", "order", "authorize", "poll", "finalize", "persist", "sleep"}
    /\ store \in Blobs /\ env \in Blobs /\ state \in Blobs
    /\ cached \in Certs /\ cert \in Certs
    /\ challenges \subseteq Domains /\ asked \subseteq Domains /\ pending \subseteq asked
    /\ failures \in 0 .. MaxFailures

AcmeInit ==
    /\ custody \in Custodies
    /\ phase = "down" /\ pc = "none"
    /\ store = Empty /\ env = Empty /\ state = Empty
    /\ cached = "none" /\ cert = "none"
    /\ challenges = {} /\ asked = {} /\ pending = {}
    /\ failures = 0

-----------------------------------------------------------------------------
(* Time and the process.                                                   *)

Older(c) == CASE c = "fresh" -> "due" [] c = "due" -> "expired" [] OTHER -> c

\* Weeks pass.  An order takes minutes.
Age ==
    /\ pc \in {"none", "failed", "sleep"}
    /\ store' = [store EXCEPT !.cert = Older(@)] /\ env' = [env EXCEPT !.cert = Older(@)]
    /\ cert' = Older(cert) /\ cached' = Older(cached)
    /\ UNCHANGED <<phase, pc, state, orderVars, failures>>

\* Remaining validity, without and with the renewal buffer.
time_until_expiry(c) == c \in {"fresh", "due"}
time_until_renewal(c) == c = "fresh"

\* The cached certificate at launch; a store that cannot be read, and a key that
\* is not the certificate's, count as no cache.
load_cached_cert == {store.cert, "none"}

\* A launch: the vault's state is injected into the environment, and
\* provision_initial_cert looks at the cached certificate.
Launch ==
    /\ phase = "down"
    /\ phase' = "starting"
    /\ env' = store
    /\ challenges' = {} /\ asked' = {} /\ pending' = {} /\ failures' = 0
    /\ \E c \in load_cached_cert :
          /\ cached' = c
          /\ IF time_until_renewal(c)
             THEN cert' = c /\ pc' = "sleep"
             ELSE cert' = "none" /\ pc' = "account"
    /\ UNCHANGED <<store, state>>

\* serve_transport binds the listener once startup is through.
Listen ==
    /\ phase = "starting" /\ cert # "none"
    /\ phase' = "serving"
    /\ UNCHANGED <<pc, store, env, state, cached, cert, orderVars, failures>>

\* Shutdown: the task looks at its channel only while it sleeps.
Shutdown ==
    /\ phase = "serving"
    /\ phase' = "stopping"
    /\ UNCHANGED <<pc, store, env, state, cached, cert, orderVars, failures>>

\* The process ends, after its shutdown or by a crash.
Exit ==
    /\ phase # "down"
    /\ phase' = "down" /\ pc' = "none"
    /\ cert' = "none" /\ challenges' = {} /\ asked' = {} /\ pending' = {}
    /\ UNCHANGED <<store, env, state, cached, failures>>

-----------------------------------------------------------------------------
(* How an attempt to provision ends.                                       *)

Initial == phase = "starting" /\ cert = "none"

\* A failed start serves the cached certificate if it has not expired; the
\* renewal loop begins to count failures at 0.
serve_stale_or_fail ==
    /\ failures' = failures
    /\ IF time_until_expiry(cached)
       THEN cert' = cached /\ phase' = phase /\ pc' = "sleep"
       ELSE cert' = "none" /\ phase' = "down" /\ pc' = "failed"

\* provision_cert returns an error.
Fails ==
    \/ Initial /\ serve_stale_or_fail
    \/ /\ ~Initial
       /\ failures' = IF failures = MaxFailures THEN failures ELSE failures + 1
       /\ pc' = "sleep"
       /\ UNCHANGED <<cert, phase>>

\* The same, from a place that leaves the challenge certificates installed.
EarlyReturn == Fails /\ UNCHANGED <<store, env, state, cached, challenges, asked, pending>>

\* The same, after clear_challenge_certs.
FailCleared ==
    /\ Fails /\ challenges' = {}
    /\ UNCHANGED <<store, env, state, cached, asked, pending>>

-----------------------------------------------------------------------------
(* One order.                                                              *)

\* SecretStore::load: the file, or the variable as it was at launch.
Load == IF custody = "file" THEN store ELSE env

\* Mutant: the loop gives up after too many failures.
WakeGivesUp ==
    /\ pc = "sleep" /\ phase # "stopping"
    /\ ~time_until_renewal(cert) /\ failures < MaxFailures
    /\ pc' = "account"
    /\ UNCHANGED <<phase, store, env, state, cached, cert, orderVars, failures>>

\* The loop sleeps for the renewal window and at least the failure backoff.
Wake ==
    /\ pc = "sleep" /\ phase # "stopping"
    /\ ~time_until_renewal(cert)
    /\ pc' = "account"
    /\ UNCHANGED <<phase, store, env, state, cached, cert, orderVars, failures>>

\* get_or_create_account: stored credentials are restored,
Restore ==
    /\ pc = "account" /\ Load.account
    /\ state' = Load
    /\ pc' = "order"
    /\ UNCHANGED <<phase, store, env, cached, cert, orderVars, failures>>

\* otherwise an account is created and the whole state persisted before the order.
Create ==
    /\ pc = "account" /\ ~Load.account
    /\ state' = [Load EXCEPT !.account = TRUE]
    /\ store' = state'
    /\ pc' = "order"
    /\ UNCHANGED <<phase, env, cached, cert, orderVars, failures>>

AccountFails == pc = "account" /\ EarlyReturn

new_order ==
    /\ pc = "order"
    /\ asked' = {} /\ pending' = {}
    /\ pc' = "authorize"
    /\ UNCHANGED <<phase, store, env, state, cached, cert, challenges, failures>>

OrderFails == pc = "order" /\ EarlyReturn

\* An authorization that the CA holds valid already.
AlreadyValid(d) ==
    /\ pc = "authorize" /\ d \notin asked
    /\ asked' = asked \cup {d}
    /\ UNCHANGED <<phase, pc, store, env, state, cached, cert, challenges, pending, failures>>

\* A pending one: its challenge certificate is installed and the CA told.
Challenge(d) ==
    /\ pc = "authorize" /\ d \notin asked
    /\ challenges' = challenges \cup {d}
    /\ asked' = asked \cup {d} /\ pending' = pending \cup {d}
    /\ UNCHANGED <<phase, pc, store, env, state, cached, cert, failures>>

\* set_ready fails: the certificate just installed stays.
ReadyFails(d) ==
    /\ pc = "authorize" /\ d \notin asked
    /\ Fails
    /\ challenges' = challenges \cup {d}
    /\ UNCHANGED <<store, env, state, cached, asked, pending>>

\* The authorization cannot be fetched, or offers no tls-alpn-01 challenge.
AuthorizationFails == pc = "authorize" /\ asked # Domains /\ EarlyReturn

\* It has another status, or names no DNS identifier.
AuthorizationRefused == pc = "authorize" /\ asked # Domains /\ FailCleared

AllAsked ==
    /\ pc = "authorize" /\ asked = Domains
    /\ pc' = "poll"
    /\ UNCHANGED <<phase, store, env, state, cached, cert, orderVars, failures>>

\* The CA connects for one domain and finds its challenge certificate.
Validate(d) ==
    /\ pc = "poll" /\ d \in pending
    /\ phase \in {"serving", "stopping"} /\ d \in challenges
    /\ pending' = pending \ {d}
    /\ UNCHANGED <<phase, pc, store, env, state, cached, cert, challenges, asked, failures>>

\* poll_ready sees the order ready; the challenge certificates are dropped.
PollReady ==
    /\ pc = "poll" /\ pending = {}
    /\ challenges' = {}
    /\ pc' = "finalize"
    /\ UNCHANGED <<phase, store, env, state, cached, cert, asked, pending, failures>>

\* Polling times out with a domain not validated.
PollFails == pc = "poll" /\ pending # {} /\ FailCleared

\* The order is not ready although every domain is valid.
PollRefused == pc = "poll" /\ pending = {} /\ FailCleared

\* finalize_and_cache: CSR, download, and the certificate into the state.
Download ==
    /\ pc = "finalize"
    /\ state' = [state EXCEPT !.cert = "fresh"]
    /\ pc' = "persist"
    /\ UNCHANGED <<phase, store, env, cached, cert, orderVars, failures>>

FinalizeFails == pc = "finalize" /\ EarlyReturn

\* The whole state is persisted, and the certificate served.
Persist ==
    /\ pc = "persist"
    /\ store' = state
    /\ cert' = "fresh"
    /\ failures' = 0 /\ pc' = "sleep"
    /\ UNCHANGED <<phase, env, state, cached, orderVars>>

\* It is persisted, but build_certified_key_from_pem refuses what was issued.
Unusable ==
    /\ pc = "persist" /\ Fails
    /\ store' = state
    /\ UNCHANGED <<env, state, cached, orderVars>>

\* Mutant: the store is not written atomically, and a failed write leaves none.
PersistFailsTorn ==
    /\ pc = "persist" /\ Fails
    /\ store' = Empty
    /\ UNCHANGED <<env, state, cached, orderVars>>

\* The store fails, and holds what it held; the issued certificate is given up.
PersistFails == pc = "persist" /\ EarlyReturn

-----------------------------------------------------------------------------
Task ==
    \/ Wake \/ Restore \/ Create \/ AccountFails \/ new_order \/ OrderFails
    \/ \E d \in Domains : AlreadyValid(d) \/ Challenge(d) \/ ReadyFails(d)
    \/ AuthorizationFails \/ AuthorizationRefused \/ AllAsked
    \/ \E d \in Domains : Validate(d)
    \/ PollReady \/ PollFails \/ PollRefused \/ Download \/ FinalizeFails \/ Persist \/ Unusable \/ PersistFails

AcmeNext == UNCHANGED custody /\ (Age \/ Launch \/ Listen \/ Shutdown \/ Exit \/ Task)

\* The process is started again when it is down, and its steps go on: a call to
\* the CA or to the store returns, with a success or an error, and polling ends.
AcmeProgress == UNCHANGED custody /\ (Launch \/ Listen \/ Task)

AcmeSpec == AcmeInit /\ [][AcmeNext]_acmeVars /\ WF_acmeVars(AcmeProgress)

-----------------------------------------------------------------------------
(* Properties.                                                             *)

\* provision_cert: "load the current opaque state once (account creds + any
\* cached cert/key), then thread it through [...] so each persist writes the
\* whole blob": once a certificate is persisted the store never goes back to
\* holding none.
RenewalKeepsCert == [][store.cert # "none" => store'.cert # "none"]_store

\* What is true of both custodies.  An account is never lost.  A certificate is
\* lost only to an account that is created again, in a process that was launched
\* by the barrel before there was one: no other write, and no failure of a call
\* to the CA or to the store at any step, with any restarts, takes it away.
StoreKeepsCert ==
    [][/\ store.account => store'.account
       /\ store.cert # "none" /\ store'.cert = "none"
            => custody = "barrel" /\ ~env.account /\ pc = "account"]_store

\* acme.rs: the challenge certificates are dropped "once the order is ready (or on
\* failure)": while no order is under way there is none in the resolver.
ChallengesDropped == pc = "sleep" => challenges = {}

\* What the code cannot rule out: errors of the CA and of the store.
Errors ==
    \/ AccountFails \/ OrderFails \/ AuthorizationFails \/ AuthorizationRefused
    \/ \E d \in Domains : ReadyFails(d)
    \/ PollRefused \/ FinalizeFails \/ Unusable \/ PersistFails

\* If errors and timeouts end some day, a proxy that goes on serving replaces a
\* certificate that is due: however many orders failed before, and wherever they
\* did, the loop makes another (run, next_renewal_sleep).
Renewed ==
    <>[][~(Errors \/ PollFails)]_acmeVars =>
        ((phase = "serving" /\ cert # "fresh") ~> (cert = "fresh" \/ phase # "serving"))

\* The documentation's first start: without errors and crashes the CA validates
\* the domains and the proxy serves.  But nothing listens before the first
\* certificate is there.
FirstStart ==
    <>[][~(Errors \/ Exit)]_acmeVars => <>(phase = "serving")
=============================================================================
