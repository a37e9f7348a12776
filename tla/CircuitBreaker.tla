--------------------------- MODULE CircuitBreaker ---------------------------
(***************************************************************************)
(* One backend's circuit breaker (src/src/circuit.rs) and the requests     *)
(* that use it: HTTP attempts, raw relays and ingress connections.  Each   *)
(* call of check, record_success, record_failure and each drop of a        *)
(* HalfOpenGuard is one step, which is what a runtime with one worker      *)
(* thread executes (the calls never await); BreakerThreads splits the      *)
(* calls into their atomic accesses.                                       *)
(***************************************************************************)
EXTENDS Integers, FiniteSets

CONSTANTS
    Requests,           \* concurrent users of the backend
    FailureThreshold,   \* failure_threshold, a NonZeroU32
    HalfOpenMax,        \* half_open_max_requests, a NonZeroU32
    Wrap                \* modulus of the AtomicU32 counters: 2^32 in the code

ASSUME BreakerAssumption ==
    /\ IsFiniteSet(Requests)
    /\ FailureThreshold \in Nat \ {0}
    /\ HalfOpenMax \in Nat \ {0}
    /\ Wrap \in Nat
    /\ Wrap > HalfOpenMax
    /\ Wrap > FailureThreshold

VARIABLES
    state,      \* AtomicU8: "closed", "open" or "half_open"
    failures,   \* consecutive_failures
    inflight,   \* half_open_inflight
    opened_at,  \* Mutex<Option<Instant>>: "none", "fresh" or, once
                \* recovery_timeout has passed since it was set, "elapsed"
    stage,      \* per request: "idle", "forward" (admitted, nothing recorded),
                \* "again" (recorded once, may record once more) or "done"
    guard,      \* per request, its HalfOpenGuard: "none", "held", or "orphan"
                \* when remove_backend detached the breaker it points to
    probing,    \* history: guards issued since the circuit last went half-open
    stray       \* history: some other guard was dropped since then

breaker == <<state, failures, inflight, opened_at>>
vars == <<state, failures, inflight, opened_at, stage, guard, probing, stray>>

TypeOK ==
    /\ state \in {"closed", "open", "half_open"}
    /\ failures \in 0 .. Wrap - 1
    /\ inflight \in 0 .. Wrap - 1
    /\ opened_at \in {"none", "fresh", "elapsed"}
    /\ stage \in [Requests -> {"idle", "forward", "again", "done"}]
    /\ guard \in [Requests -> {"none", "held", "orphan"}]
    /\ probing \subseteq Requests
    /\ stray \in BOOLEAN

\* BackendBreaker::new(), inserted on first use; an absent entry behaves as this one.
Fresh ==
    /\ state = "closed"
    /\ failures = 0
    /\ inflight = 0
    /\ opened_at = "none"

Init ==
    /\ Fresh
    /\ stage = [r \in Requests |-> "idle"]
    /\ guard = [r \in Requests |-> "none"]
    /\ probing = {}
    /\ stray = FALSE

-----------------------------------------------------------------------------
\* recovery_timeout passes since opened_at was set.
Elapse ==
    /\ opened_at = "fresh"
    /\ opened_at' = "elapsed"
    /\ UNCHANGED <<state, failures, inflight, stage, guard, probing, stray>>

\* check on a closed circuit admits without a guard.
CheckClosed(r) ==
    /\ stage[r] = "idle"
    /\ state = "closed"
    /\ stage' = [stage EXCEPT ![r] = "forward"]
    /\ UNCHANGED <<breaker, guard, probing, stray>>

\* check on an open circuit whose timeout has passed: r is the first probe.
\* Before that, check answers Open and changes nothing.
CheckOpen(r) ==
    /\ stage[r] = "idle"
    /\ state = "open"
    /\ opened_at = "elapsed"
    /\ inflight' = 1
    /\ state' = "half_open"
    /\ stage' = [stage EXCEPT ![r] = "forward"]
    /\ guard' = [guard EXCEPT ![r] = "held"]
    /\ probing' = {r}
    /\ stray' = FALSE
    /\ UNCHANGED <<failures, opened_at>>

\* Mutant of CheckHalfOpen: the limit admits one probe too many.
CheckHalfOpenOffByOne(r) ==
    /\ stage[r] = "idle"
    /\ state = "half_open"
    /\ inflight <= HalfOpenMax
    /\ inflight' = (inflight + 1) % Wrap
    /\ stage' = [stage EXCEPT ![r] = "forward"]
    /\ guard' = [guard EXCEPT ![r] = "held"]
    /\ probing' = probing \cup {r}
    /\ UNCHANGED <<state, failures, opened_at, stray>>

\* check on a half-open circuit with a free probe slot.  Without one, the
\* fetch_add is undone and check answers Open.
CheckHalfOpen(r) ==
    /\ stage[r] = "idle"
    /\ state = "half_open"
    /\ inflight < HalfOpenMax
    /\ inflight' = (inflight + 1) % Wrap
    /\ stage' = [stage EXCEPT ![r] = "forward"]
    /\ guard' = [guard EXCEPT ![r] = "held"]
    /\ probing' = probing \cup {r}
    /\ UNCHANGED <<state, failures, opened_at, stray>>

\* The call sites record up to two outcomes per admission: a retryable status
\* on the last attempt is recorded twice, and so are a UDP dial and its write.
Recorded(r) ==
    \/ /\ stage[r] = "forward"
       /\ \E s \in {"again", "done"} : stage' = [stage EXCEPT ![r] = s]
    \/ /\ stage[r] = "again"
       /\ stage' = [stage EXCEPT ![r] = "done"]

\* Mutant of record_success: a half-open probe's success keeps the failure count.
record_success_keeps_failures(r) ==
    /\ Recorded(r)
    /\ \/ /\ state = "half_open"
          /\ inflight' = 0
          /\ state' = "closed"
          /\ opened_at' = "none"
          /\ probing' = {}
          /\ stray' = FALSE
          /\ UNCHANGED failures
       \/ /\ state = "closed"
          /\ failures' = 0
          /\ UNCHANGED <<state, inflight, opened_at, probing, stray>>
       \/ /\ state = "open"
          /\ UNCHANGED <<breaker, probing, stray>>
    /\ UNCHANGED guard

record_success(r) ==
    /\ Recorded(r)
    /\ \/ /\ state = "half_open"
          /\ failures' = 0
          /\ inflight' = 0
          /\ state' = "closed"
          /\ opened_at' = "none"
          /\ probing' = {}
          /\ stray' = FALSE
       \/ /\ state = "closed"
          /\ failures' = 0
          /\ UNCHANGED <<state, inflight, opened_at, probing, stray>>
       \/ /\ state = "open"
          /\ UNCHANGED <<breaker, probing, stray>>
    /\ UNCHANGED guard

\* Mutant of record_failure: opening a closed circuit does not start the timer.
record_failure_no_timer(r) ==
    /\ Recorded(r)
    /\ \/ /\ state = "closed"
          /\ failures' = (failures + 1) % Wrap
          /\ state' = IF failures' >= FailureThreshold THEN "open" ELSE "closed"
          /\ UNCHANGED <<inflight, opened_at, probing, stray>>
       \/ /\ state = "half_open"
          /\ inflight' = 0
          /\ state' = "open"
          /\ opened_at' = "fresh"
          /\ probing' = {}
          /\ stray' = FALSE
          /\ UNCHANGED failures
       \/ /\ state = "open"
          /\ UNCHANGED <<breaker, probing, stray>>
    /\ UNCHANGED guard

record_failure(r) ==
    /\ Recorded(r)
    /\ \/ /\ state = "closed"
          /\ failures' = (failures + 1) % Wrap
          /\ \/ /\ failures' >= FailureThreshold
                /\ state' = "open"
                /\ opened_at' = "fresh"
             \/ /\ failures' < FailureThreshold
                /\ UNCHANGED <<state, opened_at>>
          /\ UNCHANGED <<inflight, probing, stray>>
       \/ /\ state = "half_open"
          /\ inflight' = 0
          /\ state' = "open"
          /\ opened_at' = "fresh"
          /\ probing' = {}
          /\ stray' = FALSE
          /\ UNCHANGED failures
       \/ /\ state = "open"
          /\ UNCHANGED <<breaker, probing, stray>>
    /\ UNCHANGED guard

\* Mutant of Release: a probe cancelled before it records keeps its slot.
ReleaseLeaks(r) ==
    /\ stage[r] # "idle"
    /\ stage' = [stage EXCEPT ![r] = "idle"]
    /\ guard' = [guard EXCEPT ![r] = "none"]
    /\ probing' = probing \ {r}
    /\ UNCHANGED <<breaker, stray>>

\* The request ends (answered, cancelled, parked for a wake or its body fully
\* streamed): a HalfOpenGuard it holds is dropped, and gives a slot back if the
\* circuit is half-open now, whenever the slot was taken.
Release(r) ==
    /\ stage[r] # "idle"
    /\ stage' = [stage EXCEPT ![r] = "idle"]
    /\ guard' = [guard EXCEPT ![r] = "none"]
    /\ \/ /\ guard[r] = "held"
          /\ state = "half_open"
          /\ inflight' = (inflight - 1) % Wrap
          /\ probing' = probing \ {r}
          /\ stray' = (stray \/ r \notin probing)
       \/ /\ guard[r] # "held" \/ state # "half_open"
          /\ UNCHANGED <<inflight, probing, stray>>
    /\ UNCHANGED <<state, failures, opened_at>>

\* A config reload removes the backend: the next use inserts a new breaker,
\* while guards keep the old one alive.
remove_backend ==
    /\ state' = "closed"
    /\ failures' = 0
    /\ inflight' = 0
    /\ opened_at' = "none"
    /\ guard' = [r \in Requests |-> IF guard[r] = "held" THEN "orphan" ELSE guard[r]]
    /\ probing' = {}
    /\ stray' = FALSE
    /\ UNCHANGED stage

Check(r) == CheckClosed(r) \/ CheckOpen(r) \/ CheckHalfOpen(r)

Next ==
    \/ Elapse
    \/ remove_backend
    \/ \E r \in Requests :
        Check(r) \/ record_success(r) \/ record_failure(r) \/ Release(r)

Spec == Init /\ [][Next]_vars

\* Time passes; every admitted request ends (the upstream timeout, the body's
\* and the relay's idle timeouts end it); and traffic for the backend goes on:
\* a request slot that stays admissible is eventually used.
Fairness ==
    /\ WF_vars(Elapse)
    /\ \A r \in Requests : WF_vars(Release(r)) /\ WF_vars(Check(r))

FairSpec == Spec /\ Fairness

-----------------------------------------------------------------------------
\* The fields agree with the state: an open circuit has the timestamp check waits
\* on (opened_at.map(..).unwrap_or(false) is false for ever without one), a closed
\* one is below the failure threshold, and the probe counter is zero outside half-open.
FieldsAgree ==
    /\ state = "open" => opened_at # "none"
    /\ state = "closed" => failures < FailureThreshold
    /\ state # "half_open" => inflight = 0

\* Calls executed one at a time never leave the circuit where no later call can
\* move it, whatever order the successes, failures and drops of requests admitted
\* in earlier states of the circuit arrive in: the fields agree with the state,
\* and a half-open circuit whose guards are all gone has every probe slot free,
\* unless a guard of an earlier period was dropped in this one.  What becomes of
\* that exception is HalfOpenAdmits.
NeverWedged ==
    /\ FieldsAgree
    /\ state = "half_open" /\ ~stray /\ (\A r \in Requests : guard[r] # "held") =>
          inflight = 0

\* A half-open circuit with no request in flight lets a probe in: check refuses one
\* only while half_open_max_requests others are out.  A guard is said to decrement the
\* counter "unless the circuit has already transitioned out of HalfOpen"; it does
\* so also in a later half-open period, where the counter is not its own.
HalfOpenAdmits ==
    state = "half_open" /\ (\A r \in Requests : stage[r] = "idle") => inflight < HalfOpenMax

\* half_open_inflight counts the probes of the current half-open period, and so
\* half_open_max_requests bounds them, as long as no guard issued in an earlier
\* period has been dropped in this one.
ProbeBound ==
    state = "half_open" /\ ~stray =>
        /\ inflight = Cardinality(probing)
        /\ Cardinality(probing) <= HalfOpenMax

\* An open circuit is eventually probed, however often probing re-opens it.
OpenIsProbed == state = "open" ~> state # "open"

\* A half-open circuit does not run out of probe slots when probes end without
\* a verdict (a cancelled client, a wake, a full connection pool): it always
\* gets a new probe, unless a guard of an earlier period was dropped in this one.
HalfOpenKeepsProbing ==
    (state = "half_open" /\ ~stray) ~> (state # "half_open" \/ stray \/ probing # {})

=============================================================================
