--------------------------- MODULE BreakerThreads ---------------------------
(***************************************************************************)
(* src/src/circuit.rs at the granularity of its shared-memory accesses:    *)
(* every load, store or fetch of an atomic and every critical section of   *)
(* the opened_at mutex is a step, and calls made on different runtime      *)
(* threads interleave.  At most Workers calls are in progress at once: the *)
(* calls never await, so a runtime with one worker thread runs each to its *)
(* end, and then this module implements CircuitBreaker.                    *)
(***************************************************************************)
EXTENDS Integers, FiniteSets

CONSTANTS
    Requests, FailureThreshold, HalfOpenMax, Wrap,   \* as in CircuitBreaker
    Workers                                          \* runtime worker threads

ASSUME ThreadsAssumption ==
    /\ IsFiniteSet(Requests) /\ Workers \in Nat \ {0}
    /\ {FailureThreshold, HalfOpenMax} \subseteq Nat \ {0}
    /\ Wrap \in Nat /\ Wrap > HalfOpenMax /\ Wrap > FailureThreshold

VARIABLES
    state, failures, inflight, opened_at,   \* the breaker, as in CircuitBreaker
    stage, guard, probing, stray,           \* its users; these change when a call returns
    pc,     \* per request: "out", or the next access of the call it is making
    snap    \* history: the breaker when the call in progress began

vars == <<state, failures, inflight, opened_at, stage, guard, probing, stray, pc, snap>>
users == <<stage, guard, probing, stray>>

Live == [state |-> state, failures |-> failures,
         inflight |-> inflight, opened_at |-> opened_at]
NoCall == [state |-> "none"]

Busy == {r \in Requests : pc[r] # "out"}

\* With one worker, a call takes effect when it returns.
Shown == IF Busy = {} THEN Live ELSE snap

CB == INSTANCE CircuitBreaker
      WITH state <- Shown.state, failures <- Shown.failures,
           inflight <- Shown.inflight, opened_at <- Shown.opened_at

Accesses ==
    {"out", "open_time", "open_inflight", "open_state", "half_add", "half_undo",
     "ok_failures", "ok_inflight", "ok_state", "ok_time", "ok_reset",
     "err_count", "err_state", "err_time", "re_inflight", "drop_sub"}

TypeOK ==
    /\ state \in {"closed", "open", "half_open"}
    /\ failures \in 0 .. Wrap - 1
    /\ inflight \in 0 .. Wrap - 1
    /\ opened_at \in {"none", "fresh", "elapsed"}
    /\ stage \in [Requests -> {"idle", "forward", "again", "done"}]
    /\ guard \in [Requests -> {"none", "held"}]
    /\ probing \subseteq Requests
    /\ stray \in BOOLEAN
    /\ pc \in [Requests -> Accesses]
    /\ Cardinality(Busy) <= Workers

Init ==
    /\ state = "closed"
    /\ failures = 0
    /\ inflight = 0
    /\ opened_at = "none"
    /\ stage = [r \in Requests |-> "idle"]
    /\ guard = [r \in Requests |-> "none"]
    /\ probing = {}
    /\ stray = FALSE
    /\ pc = [r \in Requests |-> "out"]
    /\ snap = NoCall

-----------------------------------------------------------------------------
(* Control: a call starts on a free worker, moves on and returns.          *)

Ready(r) == pc[r] = "out" /\ Cardinality(Busy) < Workers

Enter(r, access) ==
    /\ Ready(r)
    /\ pc' = [pc EXCEPT ![r] = access]
    /\ snap' = Live
    /\ UNCHANGED users

Advance(r, from, to) ==
    /\ pc[r] = from
    /\ pc' = [pc EXCEPT ![r] = to]
    /\ UNCHANGED <<snap, users>>

Return(r, from) ==
    /\ pc[r] = from
    /\ pc' = [pc EXCEPT ![r] = "out"]
    /\ snap' = NoCall

\* check returns Closed or HalfOpen: the request is forwarded.
Admit(r, g) ==
    /\ stage' = [stage EXCEPT ![r] = "forward"]
    /\ guard' = [guard EXCEPT ![r] = g]

Elapse ==
    /\ opened_at = "fresh"
    /\ opened_at' = "elapsed"
    /\ snap' = IF snap = NoCall THEN snap ELSE [snap EXCEPT !.opened_at = "elapsed"]
    /\ UNCHANGED <<state, failures, inflight, users, pc>>

-----------------------------------------------------------------------------
(* check                                                                   *)

CheckLoad(r) ==
    /\ stage[r] = "idle"
    /\ \/ /\ state = "closed"
          /\ Ready(r)
          /\ Admit(r, "none")
          /\ UNCHANGED <<probing, stray, pc, snap>>
       \/ state = "open" /\ Enter(r, "open_time")
       \/ state = "half_open" /\ Enter(r, "half_add")
    /\ UNCHANGED <<state, failures, inflight, opened_at>>

\* The mutex is held for the comparison only; the stores come after the unlock.
CheckTime(r) ==
    /\ \/ /\ opened_at = "elapsed"
          /\ Advance(r, "open_time", "open_inflight")
       \/ /\ opened_at # "elapsed"
          /\ Return(r, "open_time")
          /\ UNCHANGED users
    /\ UNCHANGED <<state, failures, inflight, opened_at>>

CheckStoreInflight(r) ==
    /\ Advance(r, "open_inflight", "open_state")
    /\ inflight' = 1
    /\ UNCHANGED <<state, failures, opened_at>>

CheckStoreState(r) ==
    /\ Return(r, "open_state")
    /\ state' = "half_open"
    /\ Admit(r, "held")
    /\ probing' = {r}
    /\ stray' = FALSE
    /\ UNCHANGED <<failures, inflight, opened_at>>

CheckAdd(r) ==
    /\ \/ /\ inflight >= HalfOpenMax
          /\ Advance(r, "half_add", "half_undo")
       \/ /\ inflight < HalfOpenMax
          /\ Return(r, "half_add")
          /\ Admit(r, "held")
          /\ probing' = probing \cup {r}
          /\ UNCHANGED stray
    /\ inflight' = (inflight + 1) % Wrap
    /\ UNCHANGED <<state, failures, opened_at>>

\* Mutant of CheckUndo: a refused probe keeps the slot it added.
CheckUndoMissing(r) ==
    /\ Return(r, "half_undo")
    /\ UNCHANGED <<state, failures, inflight, opened_at, users>>

CheckUndo(r) ==
    /\ Return(r, "half_undo")
    /\ inflight' = (inflight - 1) % Wrap
    /\ UNCHANGED <<state, failures, opened_at, users>>

-----------------------------------------------------------------------------
(* record_success                                                          *)

SuccessLoad(r) ==
    /\ stage[r] \in {"forward", "again"}
    /\ \/ state = "half_open" /\ Enter(r, "ok_failures")
       \/ state = "closed" /\ Enter(r, "ok_reset")
       \/ /\ state = "open"
          /\ Ready(r)
          /\ CB!Recorded(r)
          /\ UNCHANGED <<guard, probing, stray, pc, snap>>
    /\ UNCHANGED <<state, failures, inflight, opened_at>>

SuccessStoreFailures(r) ==
    /\ \/ Advance(r, "ok_failures", "ok_inflight")
       \/ /\ Return(r, "ok_reset")
          /\ CB!Recorded(r)
          /\ UNCHANGED <<guard, probing, stray>>
    /\ failures' = 0
    /\ UNCHANGED <<state, inflight, opened_at>>

SuccessStoreInflight(r) ==
    /\ Advance(r, "ok_inflight", "ok_state")
    /\ inflight' = 0
    /\ UNCHANGED <<state, failures, opened_at>>

SuccessStoreState(r) ==
    /\ Advance(r, "ok_state", "ok_time")
    /\ state' = "closed"
    /\ UNCHANGED <<failures, inflight, opened_at>>

SuccessClearTime(r) ==
    /\ Return(r, "ok_time")
    /\ opened_at' = "none"
    /\ CB!Recorded(r)
    /\ probing' = {}
    /\ stray' = FALSE
    /\ UNCHANGED <<state, failures, inflight, guard>>

-----------------------------------------------------------------------------
(* record_failure: the half-open branch clears inflight, then both         *)
(* branches store the state and set the timestamp.                         *)

FailureLoad(r) ==
    /\ stage[r] \in {"forward", "again"}
    /\ \/ state = "closed" /\ Enter(r, "err_count")
       \/ state = "half_open" /\ Enter(r, "re_inflight")
       \/ /\ state = "open"
          /\ Ready(r)
          /\ CB!Recorded(r)
          /\ UNCHANGED <<guard, probing, stray, pc, snap>>
    /\ UNCHANGED <<state, failures, inflight, opened_at>>

FailureCount(r) ==
    /\ failures' = (failures + 1) % Wrap
    /\ \/ /\ failures' >= FailureThreshold
          /\ Advance(r, "err_count", "err_state")
       \/ /\ failures' < FailureThreshold
          /\ Return(r, "err_count")
          /\ CB!Recorded(r)
          /\ UNCHANGED <<guard, probing, stray>>
    /\ UNCHANGED <<state, inflight, opened_at>>

FailureStoreInflight(r) ==
    /\ Advance(r, "re_inflight", "err_state")
    /\ inflight' = 0
    /\ UNCHANGED <<state, failures, opened_at>>

FailureStoreState(r) ==
    /\ Advance(r, "err_state", "err_time")
    /\ state' = "open"
    /\ UNCHANGED <<failures, inflight, opened_at>>

\* Opening from closed finds no probes: the history of the last half-open
\* period was cleared when it ended.
FailureSetTime(r) ==
    /\ Return(r, "err_time")
    /\ opened_at' = "fresh"
    /\ CB!Recorded(r)
    /\ probing' = {}
    /\ stray' = FALSE
    /\ UNCHANGED <<state, failures, inflight, guard>>

-----------------------------------------------------------------------------
(* Drop for HalfOpenGuard                                                  *)

Ended(r) ==
    /\ stage' = [stage EXCEPT ![r] = "idle"]
    /\ guard' = [guard EXCEPT ![r] = "none"]

DropLoad(r) ==
    /\ stage[r] # "idle"
    /\ \/ /\ guard[r] = "held"
          /\ state = "half_open"
          /\ Enter(r, "drop_sub")
       \/ /\ guard[r] # "held" \/ state # "half_open"
          /\ Ready(r)
          /\ Ended(r)
          /\ UNCHANGED <<probing, stray, pc, snap>>
    /\ UNCHANGED <<state, failures, inflight, opened_at>>

DropSub(r) ==
    /\ Return(r, "drop_sub")
    /\ inflight' = (inflight - 1) % Wrap
    /\ Ended(r)
    /\ probing' = probing \ {r}
    /\ stray' = (stray \/ r \notin probing)
    /\ UNCHANGED <<state, failures, opened_at>>

-----------------------------------------------------------------------------
CheckCall(r) ==
    \/ CheckLoad(r) \/ CheckTime(r) \/ CheckStoreInflight(r)
    \/ CheckStoreState(r) \/ CheckAdd(r) \/ CheckUndo(r)

SuccessCall(r) ==
    \/ SuccessLoad(r) \/ SuccessStoreFailures(r) \/ SuccessStoreInflight(r)
    \/ SuccessStoreState(r) \/ SuccessClearTime(r)

FailureCall(r) ==
    \/ FailureLoad(r) \/ FailureCount(r) \/ FailureStoreInflight(r)
    \/ FailureStoreState(r) \/ FailureSetTime(r)

DropCall(r) == DropLoad(r) \/ DropSub(r)

Next ==
    \/ Elapse
    \/ \E r \in Requests :
        CheckCall(r) \/ SuccessCall(r) \/ FailureCall(r) \/ DropCall(r)

Spec == Init /\ [][Next]_vars

-----------------------------------------------------------------------------
\* With one worker thread the sequence of accesses each call makes has the
\* effect CircuitBreaker gives the call as a whole: nothing is read twice with
\* a different answer or stored in an order that shows.
ImplementsCircuitBreaker == CB!Spec

\* docs/configuration.md:204, recovery_timeout_secs: "How long a circuit stays
\* open before probing".  An open circuit that no call is working on carries
\* the timestamp the timeout is measured from; without it check answers Open
\* for ever.
OpenHasTimestamp == state = "open" /\ Busy = {} => opened_at # "none"

=============================================================================
