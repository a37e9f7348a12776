------------------------ MODULE BreakerThreadsProofs ------------------------
(***************************************************************************)
(* As long as calls do not overlap, the accesses of circuit.rs implement   *)
(* the breaker whose calls are single steps: BreakerThreads refines        *)
(* CircuitBreaker, for every number of workers and requests, threshold,    *)
(* probe limit and counter width.                                          *)
(***************************************************************************)
EXTENDS BreakerThreads, FiniteSetTheorems, TLAPS

\* Arithmetic of the counters.
LEMMA Counters ==
  /\ \A n \in Int : n % Wrap \in 0 .. Wrap - 1
  /\ \A n \in 0 .. Wrap - 1 : (((n + 1) % Wrap) - 1) % Wrap = n
  /\ 0 \in 0 .. Wrap - 1 /\ 1 \in 0 .. Wrap - 1
<1>1. Wrap \in Nat /\ Wrap > 1
  BY ThreadsAssumption
<1>2. \A n \in Int : n % Wrap \in 0 .. Wrap - 1
  BY <1>1
<1>3. \A n \in 0 .. Wrap - 1 : n % Wrap = n
  BY <1>1
<1>4. Wrap % Wrap = 0 /\ (0 - 1) % Wrap = Wrap - 1
  BY <1>1
<1>5. ASSUME NEW n \in 0 .. Wrap - 1 PROVE (((n + 1) % Wrap) - 1) % Wrap = n
  <2>1. CASE n + 1 = Wrap
    BY <1>1, <1>4, <2>1
  <2>2. CASE n + 1 # Wrap
    <3>1. n + 1 \in 0 .. Wrap - 1 /\ (n + 1) - 1 = n
      BY <1>1, <2>2
    <3>2. QED
      BY <1>3, <3>1
  <2>3. QED
    BY <2>1, <2>2
<1>6. QED
  BY <1>1, <1>2, <1>5

-----------------------------------------------------------------------------
(* The invariant: where a call is, and what it has changed since it began. *)

Breakers ==
    [state : {"closed", "open", "half_open"}, failures : 0 .. Wrap - 1, inflight : 0 .. Wrap - 1,
     opened_at : {"none", "fresh", "elapsed"}]

ThreadTypes ==
    /\ Live \in Breakers /\ stage \in [Requests -> {"idle", "forward", "again", "done"}]
    /\ guard \in [Requests -> {"none", "held"}] /\ pc \in [Requests -> Accesses]
    /\ \A r \in Requests : stage[r] = "idle" => guard[r] = "none"

\* One call at a time.
OneCall == \A r, q \in Busy : r = q

\* The counters and the state are those that the call found.
AtStart == state = snap.state /\ failures = snap.failures /\ inflight = snap.inflight

\* The first check after recovery_timeout, and one of a half-open circuit.
InCheck(r) ==
    /\ pc[r] \in {"open_time", "open_inflight", "open_state", "half_add", "half_undo"} => stage[r] = "idle"
    /\ pc[r] \in {"open_time", "open_inflight"} => AtStart /\ snap.state = "open"
    /\ pc[r] = "open_state" => state = "open" /\ snap.state = "open" /\ failures = snap.failures /\ inflight = 1
    /\ pc[r] \in {"open_inflight", "open_state"} => opened_at = "elapsed"
    /\ pc[r] = "half_add" => AtStart /\ snap.state = "half_open"
    /\ pc[r] = "half_undo" =>
         state = "half_open" /\ snap.state = "half_open" /\ failures = snap.failures /\ inflight = (snap.inflight + 1) % Wrap

\* record_success.
InSuccess(r) ==
    /\ pc[r] \in {"ok_failures", "ok_inflight", "ok_state", "ok_time", "ok_reset"} => stage[r] \in {"forward", "again"}
    /\ pc[r] = "ok_failures" => AtStart
    /\ pc[r] = "ok_inflight" => state = "half_open" /\ failures = 0 /\ inflight = snap.inflight
    /\ pc[r] = "ok_state" => state = "half_open" /\ failures = 0 /\ inflight = 0
    /\ pc[r] = "ok_time" => state = "closed" /\ failures = 0 /\ inflight = 0
    /\ pc[r] \in {"ok_failures", "ok_inflight", "ok_state", "ok_time"} => snap.state = "half_open"
    /\ pc[r] = "ok_reset" => AtStart /\ snap.state = "closed"

\* record_failure: what both branches have come to when they store the state.
Counted ==
    \/ /\ snap.state = "closed" /\ failures = (snap.failures + 1) % Wrap /\ failures >= FailureThreshold
       /\ inflight = snap.inflight
    \/ snap.state = "half_open" /\ failures = snap.failures /\ inflight = 0
InFailure(r) ==
    /\ pc[r] \in {"err_count", "re_inflight", "err_state", "err_time"} => stage[r] \in {"forward", "again"}
    /\ pc[r] = "err_count" => AtStart /\ snap.state = "closed"
    /\ pc[r] = "re_inflight" => AtStart /\ snap.state = "half_open"
    /\ pc[r] = "err_state" => Counted /\ state = snap.state
    /\ pc[r] = "err_time" => Counted /\ state = "open"

\* The drop of a guard.
InDrop(r) == pc[r] = "drop_sub" => AtStart /\ snap.state = "half_open" /\ stage[r] # "idle" /\ guard[r] = "held"

Calls ==
    \A r \in Busy : /\ snap \in Breakers /\ opened_at = snap.opened_at
                    /\ InCheck(r) /\ InSuccess(r) /\ InFailure(r) /\ InDrop(r)

\* The history is that of a half-open period; an open circuit has its time.
ShownInv ==
    /\ Shown.state # "half_open" => probing = {} /\ stray = FALSE
    /\ Shown.state = "open" => Shown.opened_at # "none"

ThreadInv == ThreadTypes /\ OneCall /\ Calls /\ ShownInv /\ (Busy = {} => snap = NoCall)

-----------------------------------------------------------------------------
(* What a call's beginning, middle and end do to what is shown.            *)

\* Whoever is ready while nobody else is in a call is alone.
LEMMA Alone ==
  ASSUME NEW r \in Requests, Busy \subseteq {r}, Ready(r)
  PROVE  Busy = {} /\ Shown = Live
<1>1. Busy = {}
  BY DEF Ready, Busy
<1>2. QED
  BY <1>1 DEF Shown

\* A call that begins is alone and shows the breaker as it found it.
LEMMA Entering ==
  ASSUME ThreadInv, NEW r \in Requests, Busy \subseteq {r}, NEW a \in Accesses \ {"out"}, Enter(r, a),
         UNCHANGED <<state, failures, inflight, opened_at>>
  PROVE  Busy = {} /\ Busy' = {r} /\ Shown = Live /\ Shown' = Live /\ snap' = Live /\ pc' = [pc EXCEPT ![r] = a] /\ UNCHANGED users
<1>1. Busy = {} /\ Shown = Live
  BY Alone DEF Enter
<1>2. Busy' = {r}
  BY <1>1 DEF Enter, Busy, ThreadInv, ThreadTypes
<1>3. QED
  BY <1>1, <1>2 DEF Enter, Shown

\* A call that goes on to its next access shows what it found.
LEMMA Advancing ==
  ASSUME ThreadInv, NEW r \in Requests, NEW a \in Accesses \ {"out"}, NEW b \in Accesses \ {"out"}, Advance(r, a, b)
  PROVE  Busy = {r} /\ Busy' = {r} /\ Shown = snap /\ Shown' = snap /\ snap' = snap /\ pc[r] = a /\ pc' = [pc EXCEPT ![r] = b] /\ UNCHANGED users
<1>1. Busy = {r}
  BY DEF Advance, Busy, ThreadInv, OneCall
<1>2. Busy' = {r}
  BY <1>1 DEF Advance, Busy, ThreadInv, ThreadTypes
<1>3. QED
  BY <1>1, <1>2 DEF Advance, Shown

\* A call that ends shows, from then on, what it has made of the breaker.
LEMMA Returning ==
  ASSUME ThreadInv, NEW r \in Requests, NEW a \in Accesses \ {"out"}, Return(r, a)
  PROVE  Busy = {r} /\ Busy' = {} /\ Shown = snap /\ Shown' = Live' /\ pc[r] = a /\ pc' = [pc EXCEPT ![r] = "out"] /\ snap' = NoCall
<1>1. Busy = {r}
  BY DEF Return, Busy, ThreadInv, OneCall
<1>2. Busy' = {}
  BY <1>1 DEF Return, Busy, ThreadInv, ThreadTypes
<1>3. QED
  BY <1>1, <1>2 DEF Return, Shown

\* A call of one access begins and ends in the same step.
LEMMA Immediately ==
  ASSUME ThreadInv, NEW r \in Requests, Busy \subseteq {r}, Ready(r), UNCHANGED <<pc, snap>>
  PROVE  Busy = {} /\ Busy' = {} /\ Shown = Live /\ Shown' = Live' /\ snap' = NoCall
<1>1. Busy = {} /\ Shown = Live
  BY Alone
<1>2. Busy' = {}
  BY <1>1 DEF Busy
<1>3. QED
  BY <1>1, <1>2 DEF Shown, ThreadInv

\* What is known wherever request r stands in a call.
Position(r) == InCheck(r) /\ InSuccess(r) /\ InFailure(r) /\ InDrop(r)

\* A call that begins shows nothing.
LEMMA EnterKeeps ==
  ASSUME ThreadInv, NEW r \in Requests, Busy \subseteq {r}, NEW a \in Accesses \ {"out"}, Enter(r, a),
         UNCHANGED <<state, failures, inflight, opened_at>>, Position(r)'
  PROVE  ThreadInv' /\ UNCHANGED CB!vars
<1>1. Busy = {} /\ Busy' = {r} /\ Shown = Live /\ Shown' = Live /\ snap' = Live /\ pc' = [pc EXCEPT ![r] = a] /\ UNCHANGED users
  BY Entering
<1>2. Live' = Live /\ Live \in Breakers
  BY DEF Live, ThreadInv, ThreadTypes
<1>3. ThreadTypes'
  BY <1>1, <1>2 DEF ThreadInv, ThreadTypes, users
<1>4. OneCall'
  BY <1>1 DEF OneCall
<1>5. Calls'
  <2>1. snap'.opened_at = opened_at'
    BY <1>1 DEF Live
  <2>2. QED
    BY <1>1, <1>2, <2>1 DEF Calls, Position
<1>6. UNCHANGED CB!vars
  BY <1>1 DEF CB!vars, users
<1>7. ShownInv'
  BY <1>1 DEF ThreadInv, ShownInv, users
<1>8. QED
  BY <1>1, <1>3, <1>4, <1>5, <1>6, <1>7 DEF ThreadInv

\* Nor does a call on its way.
LEMMA AdvanceKeeps ==
  ASSUME ThreadInv, NEW r \in Requests, NEW a \in Accesses \ {"out"}, NEW b \in Accesses \ {"out"}, Advance(r, a, b),
         Live' \in Breakers, opened_at' = opened_at, Position(r)'
  PROVE  ThreadInv' /\ UNCHANGED CB!vars
<1>1. Busy = {r} /\ Busy' = {r} /\ Shown = snap /\ Shown' = snap /\ snap' = snap /\ pc[r] = a /\ pc' = [pc EXCEPT ![r] = b] /\ UNCHANGED users
  BY Advancing
<1>2. ThreadTypes'
  BY <1>1 DEF ThreadInv, ThreadTypes, users
<1>3. OneCall'
  BY <1>1 DEF OneCall
<1>4. Calls'
  BY <1>1 DEF ThreadInv, Calls, Position
<1>5. UNCHANGED CB!vars
  BY <1>1 DEF CB!vars, users
<1>6. ShownInv'
  BY <1>1 DEF ThreadInv, ShownInv, users
<1>7. QED
  BY <1>1, <1>2, <1>3, <1>4, <1>5, <1>6 DEF ThreadInv

\* After a call nobody is in one.
LEMMA EndKeeps ==
  ASSUME ThreadInv, Busy' = {}, snap' = NoCall, pc' \in [Requests -> Accesses], Live' \in Breakers,
         stage' \in [Requests -> {"idle", "forward", "again", "done"}], guard' \in [Requests -> {"none", "held"}],
         \A r \in Requests : stage'[r] = "idle" => guard'[r] = "none",
         state' # "half_open" => probing' = {} /\ stray' = FALSE,
         state' = "open" => opened_at' # "none"
  PROVE  ThreadInv'
<1>1. Shown' = Live'
  BY DEF Shown
<1>2. ShownInv'
  BY <1>1 DEF ShownInv, Live
<1>3. QED
  BY <1>2 DEF ThreadInv, ThreadTypes, OneCall, Calls

\* The record and its fields.
LEMMA LiveFields ==
  /\ Live.state = state /\ Live.failures = failures /\ Live.inflight = inflight /\ Live.opened_at = opened_at
  /\ Live \in Breakers <=> /\ state \in {"closed", "open", "half_open"} /\ failures \in 0 .. Wrap - 1
                           /\ inflight \in 0 .. Wrap - 1 /\ opened_at \in {"none", "fresh", "elapsed"}
BY DEF Live, Breakers

-----------------------------------------------------------------------------
(* The steps of each call.                                                 *)

\* A call that is shown keeps the invariant and is a step of CircuitBreaker.
Refines == ThreadInv' /\ [CB!Next]_(CB!vars)

\* recovery_timeout passes, for the call in progress too.
LEMMA ElapseRefines == ThreadInv /\ Elapse => Refines
<1> SUFFICES ASSUME ThreadInv, Elapse PROVE Refines
  OBVIOUS
<1>0. Busy' = Busy /\ UNCHANGED <<state, failures, inflight, stage, guard, probing, stray, pc>>
      /\ opened_at = "fresh" /\ opened_at' = "elapsed"
  BY DEF Elapse, Busy, users
<1>1. CASE Busy = {}
  <2>1. snap' = NoCall /\ Shown = Live /\ Shown' = Live'
    BY <1>0, <1>1 DEF Elapse, ThreadInv, Shown
  <2>2. Live' \in Breakers
    BY <1>0 DEF Live, Breakers, ThreadInv, ThreadTypes
  <2>3. Shown.state # "half_open" => probing = {} /\ stray = FALSE
    BY DEF ThreadInv, ShownInv
  <2>4. ThreadInv'
    BY <1>0, <1>1, <2>1, <2>2, <2>3, EndKeeps, LiveFields DEF ThreadInv, ThreadTypes
  <2>5. CB!Elapse
    BY <1>0, <2>1 DEF CB!Elapse, Live
  <2>6. QED
    BY <2>4, <2>5 DEF Refines, CB!Next
<1>2. CASE Busy # {}
  <2>1. PICK r \in Busy : TRUE
    BY <1>2
  <2>2. snap \in Breakers /\ snap.opened_at = "fresh" /\ \A q \in Busy : Position(q)
    BY <1>0, <2>1 DEF ThreadInv, Calls, Position
  <2>3. snap # NoCall
    BY <2>2 DEF Breakers, NoCall
  <2>4. snap' = [snap EXCEPT !.opened_at = "elapsed"]
    BY <2>3 DEF Elapse
  <2>5. /\ snap' \in Breakers /\ snap'.opened_at = "elapsed" /\ snap'.state = snap.state
        /\ snap'.failures = snap.failures /\ snap'.inflight = snap.inflight
    BY <2>2, <2>4 DEF Breakers
  <2>6. Shown = snap /\ Shown' = snap'
    BY <1>0, <1>2 DEF Shown
  <2>7. ThreadTypes'
    BY <1>0 DEF ThreadInv, ThreadTypes, Live, Breakers
  <2>8. ASSUME NEW q \in Busy PROVE Position(q)'
    <3>1. Position(q)
      BY <2>2
    <3>2. InCheck(q)'
      BY <1>0, <2>5, <3>1 DEF Position, InCheck, AtStart
    <3>3. InSuccess(q)'
      BY <1>0, <2>5, <3>1 DEF Position, InSuccess, AtStart
    <3>4. InFailure(q)'
      BY <1>0, <2>5, <3>1 DEF Position, InFailure, AtStart, Counted
    <3>5. InDrop(q)'
      BY <1>0, <2>5, <3>1 DEF Position, InDrop, AtStart
    <3>6. QED
      BY <3>2, <3>3, <3>4, <3>5 DEF Position
  <2>9. Calls' /\ OneCall'
    BY <1>0, <2>5, <2>8 DEF Calls, Position, ThreadInv, OneCall
  <2>10. ShownInv'
    BY <1>0, <2>5, <2>6 DEF ThreadInv, ShownInv
  <2>11. CB!Elapse
    BY <1>0, <2>2, <2>5, <2>6 DEF CB!Elapse
  <2>12. QED
    BY <1>0, <1>2, <2>7, <2>9, <2>10, <2>11 DEF Refines, CB!Next, ThreadInv
<1>3. QED
  BY <1>1, <1>2

\* check: one of a closed circuit is a step by itself, one of an open or
\* half-open circuit takes effect with its last access.
LEMMA CheckRefines ==
  ASSUME ThreadInv, NEW r \in Requests, Busy \subseteq {r}, CheckCall(r)
  PROVE  Refines
<1> USE DEF ThreadInv, ThreadTypes
<1>0. /\ state \in {"closed", "open", "half_open"} /\ failures \in 0 .. Wrap - 1
      /\ inflight \in 0 .. Wrap - 1 /\ opened_at \in {"none", "fresh", "elapsed"}
  BY LiveFields
<1>p. pc[r] # "out" => snap \in Breakers /\ opened_at = snap.opened_at /\ Position(r)
  BY DEF Calls, Position, Busy
<1>1. CASE CheckLoad(r)
  <2>1. CASE state = "closed" /\ Ready(r) /\ Admit(r, "none") /\ UNCHANGED <<probing, stray, pc, snap>>
    <3>1. Busy = {} /\ Busy' = {} /\ Shown = Live /\ Shown' = Live' /\ snap' = NoCall
      BY <2>1, Immediately
    <3>2. UNCHANGED <<state, failures, inflight, opened_at>> /\ stage[r] = "idle" /\ Live' = Live
      BY <1>1 DEF CheckLoad, Live
    <3>3. ThreadInv'
      <4>1. probing = {} /\ stray = FALSE
        BY <2>1, <3>1, LiveFields DEF ShownInv
      <4>2. QED
        BY <2>1, <3>1, <3>2, <4>1, EndKeeps DEF Admit
    <3>4. CB!CheckClosed(r)
      <4>1. guard' = guard
        BY <2>1, <3>2 DEF Admit
      <4>2. QED
        BY <2>1, <3>1, <3>2, <4>1, LiveFields DEF CB!CheckClosed, CB!breaker, Admit
    <3>5. QED
      BY <3>3, <3>4 DEF Refines, CB!Next, CB!Check
  <2>2. CASE state = "open" /\ Enter(r, "open_time")
    <3>1. UNCHANGED <<state, failures, inflight, opened_at>> /\ stage[r] = "idle"
      BY <1>1 DEF CheckLoad
    <3>2. snap' = Live /\ pc'[r] = "open_time" /\ stage' = stage
      BY <2>2 DEF Enter, users
    <3>3. Position(r)'
      BY <2>2, <3>1, <3>2 DEF Position, InCheck, InSuccess, InFailure, InDrop, AtStart, Live
    <3>4. QED
      BY <2>2, <3>1, <3>3, EnterKeeps DEF Accesses, Refines
  <2>3. CASE state = "half_open" /\ Enter(r, "half_add")
    <3>1. UNCHANGED <<state, failures, inflight, opened_at>> /\ stage[r] = "idle"
      BY <1>1 DEF CheckLoad
    <3>2. snap' = Live /\ pc'[r] = "half_add" /\ stage' = stage
      BY <2>3 DEF Enter, users
    <3>3. Position(r)'
      BY <2>3, <3>1, <3>2 DEF Position, InCheck, InSuccess, InFailure, InDrop, AtStart, Live
    <3>4. QED
      BY <2>3, <3>1, <3>3, EnterKeeps DEF Accesses, Refines
  <2>4. QED
    BY <1>1, <2>1, <2>2, <2>3 DEF CheckLoad
<1>2. CASE CheckTime(r)
  <2>1. CASE opened_at = "elapsed" /\ Advance(r, "open_time", "open_inflight")
    <3>1. UNCHANGED <<state, failures, inflight, opened_at>>
      BY <1>2 DEF CheckTime
    <3>2. pc[r] = "open_time" /\ pc'[r] = "open_inflight" /\ UNCHANGED <<stage, snap>>
      BY <2>1 DEF Advance, users
    <3>3. Position(r)' /\ Live' \in Breakers
      BY <1>0, <1>p, <2>1, <3>1, <3>2 DEF Position, InCheck, InSuccess, InFailure, InDrop, AtStart, Live, Breakers
    <3>4. QED
      BY <2>1, <3>1, <3>3, AdvanceKeeps DEF Accesses, Refines
  <2>2. CASE Return(r, "open_time") /\ UNCHANGED users
    <3>1. UNCHANGED <<state, failures, inflight, opened_at>> /\ Live' = Live
      BY <1>2 DEF CheckTime, Live
    <3>2. /\ Busy = {r} /\ Busy' = {} /\ Shown = snap /\ Shown' = Live' /\ pc[r] = "open_time"
          /\ pc' = [pc EXCEPT ![r] = "out"] /\ snap' = NoCall
      BY <2>2, Returning DEF Accesses
    <3>3. snap = Live
      BY <1>p, <3>2 DEF Position, InCheck, AtStart, Live, Breakers
    <3>4. ThreadInv'
      BY <2>2, <3>1, <3>2, <3>3, EndKeeps, LiveFields DEF users, Accesses, ShownInv
    <3>5. UNCHANGED CB!vars
      BY <2>2, <3>1, <3>2, <3>3 DEF users, CB!vars
    <3>6. QED
      BY <3>4, <3>5 DEF Refines
  <2>3. QED
    BY <1>2, <2>1, <2>2 DEF CheckTime
<1>3. CASE CheckStoreInflight(r)
  <2>1. Advance(r, "open_inflight", "open_state") /\ inflight' = 1 /\ UNCHANGED <<state, failures, opened_at>>
    BY <1>3 DEF CheckStoreInflight
  <2>2. pc[r] = "open_inflight" /\ pc'[r] = "open_state" /\ UNCHANGED <<stage, snap>>
    BY <2>1 DEF Advance, users
  <2>3. Position(r)' /\ Live' \in Breakers
    BY <1>0, <1>p, <2>1, <2>2, Counters DEF Position, InCheck, InSuccess, InFailure, InDrop, AtStart, Live, Breakers
  <2>4. QED
    BY <2>1, <2>3, AdvanceKeeps DEF Accesses, Refines
<1>4. CASE CheckStoreState(r)
  <2>1. /\ Return(r, "open_state") /\ state' = "half_open" /\ Admit(r, "held") /\ probing' = {r} /\ stray' = FALSE
        /\ UNCHANGED <<failures, inflight, opened_at>>
    BY <1>4 DEF CheckStoreState
  <2>2. /\ Busy = {r} /\ Busy' = {} /\ Shown = snap /\ Shown' = Live' /\ pc[r] = "open_state"
        /\ pc' = [pc EXCEPT ![r] = "out"] /\ snap' = NoCall
    BY <2>1, Returning DEF Accesses
  <2>3. /\ stage[r] = "idle" /\ snap.state = "open" /\ failures = snap.failures /\ inflight = 1
        /\ opened_at = "elapsed" /\ snap.opened_at = "elapsed"
    BY <1>p, <2>2 DEF Position, InCheck
  <2>4. ThreadInv'
    <3>1. Live' \in Breakers
      BY <1>0, <2>1 DEF Live, Breakers
    <3>2. QED
      BY <2>1, <2>2, <3>1, EndKeeps DEF Admit, Accesses
  <2>5. CB!CheckOpen(r)
    BY <2>1, <2>2, <2>3 DEF CB!CheckOpen, Admit, Live
  <2>6. QED
    BY <2>4, <2>5 DEF Refines, CB!Next, CB!Check
<1>5. CASE CheckAdd(r)
  <2>1. inflight' = (inflight + 1) % Wrap /\ UNCHANGED <<state, failures, opened_at>> /\ Live' \in Breakers
    BY <1>0, <1>5, Counters DEF CheckAdd, Live, Breakers
  <2>2. CASE Advance(r, "half_add", "half_undo")
    <3>1. pc[r] = "half_add" /\ pc'[r] = "half_undo" /\ UNCHANGED <<stage, snap>>
      BY <2>2 DEF Advance, users
    <3>2. Position(r)'
      BY <1>p, <2>1, <3>1 DEF Position, InCheck, InSuccess, InFailure, InDrop, AtStart
    <3>3. QED
      BY <2>1, <2>2, <3>2, AdvanceKeeps DEF Accesses, Refines
  <2>3. CASE inflight < HalfOpenMax /\ Return(r, "half_add") /\ Admit(r, "held") /\ probing' = probing \cup {r} /\ UNCHANGED stray
    <3>1. /\ Busy = {r} /\ Busy' = {} /\ Shown = snap /\ Shown' = Live' /\ pc[r] = "half_add"
          /\ pc' = [pc EXCEPT ![r] = "out"] /\ snap' = NoCall
      BY <2>3, Returning DEF Accesses
    <3>2. stage[r] = "idle" /\ AtStart /\ snap.state = "half_open" /\ snap.opened_at = opened_at
      BY <1>p, <3>1 DEF Position, InCheck
    <3>3. ThreadInv'
      BY <2>1, <2>3, <3>1, <3>2, EndKeeps DEF Admit, Accesses, AtStart
    <3>4. CB!CheckHalfOpen(r)
      BY <2>1, <2>3, <3>1, <3>2 DEF CB!CheckHalfOpen, Admit, Live, AtStart
    <3>5. QED
      BY <3>3, <3>4 DEF Refines, CB!Next, CB!Check
  <2>4. QED
    BY <1>5, <2>2, <2>3 DEF CheckAdd
<1>6. CASE CheckUndo(r)
  <2>1. /\ Return(r, "half_undo") /\ inflight' = (inflight - 1) % Wrap /\ UNCHANGED <<state, failures, opened_at, users>>
    BY <1>6 DEF CheckUndo
  <2>2. /\ Busy = {r} /\ Busy' = {} /\ Shown = snap /\ Shown' = Live' /\ pc[r] = "half_undo"
        /\ pc' = [pc EXCEPT ![r] = "out"] /\ snap' = NoCall
    BY <2>1, Returning DEF Accesses
  <2>3. /\ snap \in Breakers /\ snap.state = "half_open" /\ state = "half_open" /\ failures = snap.failures
        /\ inflight = (snap.inflight + 1) % Wrap /\ opened_at = snap.opened_at
    BY <1>p, <2>2 DEF Position, InCheck
  <2>4. inflight' = snap.inflight
    <3>1. snap.inflight \in 0 .. Wrap - 1
      BY <2>3 DEF Breakers
    <3>2. QED
      BY <2>1, <2>3, <3>1, Counters
  <2>5. Live' = snap
    BY <2>1, <2>3, <2>4 DEF Live, Breakers
  <2>6. ThreadInv'
    BY <2>1, <2>2, <2>3, <2>5, EndKeeps DEF users, Accesses
  <2>7. UNCHANGED CB!vars
    BY <2>1, <2>2, <2>5 DEF users, CB!vars
  <2>8. QED
    BY <2>6, <2>7 DEF Refines
<1>9. QED
  BY <1>1, <1>2, <1>3, <1>4, <1>5, <1>6 DEF CheckCall

\* An outcome is recorded at most twice.
LEMMA RecordedTypes ==
  ASSUME ThreadInv, NEW r \in Requests, CB!Recorded(r)
  PROVE  /\ stage' \in [Requests -> {"idle", "forward", "again", "done"}] /\ stage'[r] # "idle"
         /\ \A q \in Requests : stage'[q] = "idle" => stage[q] = "idle"
BY DEF CB!Recorded, ThreadInv, ThreadTypes

\* record_success: on an open circuit nothing, on a closed one a store, on a
\* half-open one four accesses of which the last takes effect.
LEMMA SuccessRefines ==
  ASSUME ThreadInv, NEW r \in Requests, Busy \subseteq {r}, SuccessCall(r)
  PROVE  Refines
<1> USE DEF ThreadInv, ThreadTypes
<1>0. /\ state \in {"closed", "open", "half_open"} /\ failures \in 0 .. Wrap - 1
      /\ inflight \in 0 .. Wrap - 1 /\ opened_at \in {"none", "fresh", "elapsed"}
  BY LiveFields
<1>p. pc[r] # "out" => snap \in Breakers /\ opened_at = snap.opened_at /\ Position(r)
  BY DEF Calls, Position, Busy
<1>1. CASE SuccessLoad(r)
  <2>0. UNCHANGED <<state, failures, inflight, opened_at>> /\ stage[r] \in {"forward", "again"} /\ Live' = Live
    BY <1>1 DEF SuccessLoad, Live
  <2>1. CASE state = "half_open" /\ Enter(r, "ok_failures")
    <3>1. snap' = Live /\ pc'[r] = "ok_failures" /\ stage' = stage
      BY <2>1 DEF Enter, users
    <3>2. Position(r)'
      BY <2>0, <2>1, <3>1 DEF Position, InCheck, InSuccess, InFailure, InDrop, AtStart, Live
    <3>3. QED
      BY <2>0, <2>1, <3>2, EnterKeeps DEF Accesses, Refines
  <2>2. CASE state = "closed" /\ Enter(r, "ok_reset")
    <3>1. snap' = Live /\ pc'[r] = "ok_reset" /\ stage' = stage
      BY <2>2 DEF Enter, users
    <3>2. Position(r)'
      BY <2>0, <2>2, <3>1 DEF Position, InCheck, InSuccess, InFailure, InDrop, AtStart, Live
    <3>3. QED
      BY <2>0, <2>2, <3>2, EnterKeeps DEF Accesses, Refines
  <2>3. CASE state = "open" /\ Ready(r) /\ CB!Recorded(r) /\ UNCHANGED <<guard, probing, stray, pc, snap>>
    <3>1. Busy = {} /\ Busy' = {} /\ Shown = Live /\ Shown' = Live' /\ snap' = NoCall
      BY <2>3, Immediately
    <3>2. ThreadInv'
      BY <2>0, <2>3, <3>1, RecordedTypes, EndKeeps, LiveFields DEF ShownInv
    <3>3. CB!record_success(r)
      BY <2>0, <2>3, <3>1, LiveFields DEF CB!record_success, CB!breaker
    <3>4. QED
      BY <3>2, <3>3 DEF Refines, CB!Next
  <2>4. QED
    BY <1>1, <2>1, <2>2, <2>3 DEF SuccessLoad
<1>2. CASE SuccessStoreFailures(r)
  <2>0. failures' = 0 /\ UNCHANGED <<state, inflight, opened_at>> /\ Live' \in Breakers
    BY <1>0, <1>2, Counters DEF SuccessStoreFailures, Live, Breakers
  <2>1. CASE Advance(r, "ok_failures", "ok_inflight")
    <3>1. pc[r] = "ok_failures" /\ pc'[r] = "ok_inflight" /\ UNCHANGED <<stage, snap>>
      BY <2>1 DEF Advance, users
    <3>2. Position(r)'
      BY <1>p, <2>0, <3>1 DEF Position, InCheck, InSuccess, InFailure, InDrop, AtStart
    <3>3. QED
      BY <2>0, <2>1, <3>2, AdvanceKeeps DEF Accesses, Refines
  <2>2. CASE Return(r, "ok_reset") /\ CB!Recorded(r) /\ UNCHANGED <<guard, probing, stray>>
    <3>1. /\ Busy = {r} /\ Busy' = {} /\ Shown = snap /\ Shown' = Live' /\ pc[r] = "ok_reset"
          /\ pc' = [pc EXCEPT ![r] = "out"] /\ snap' = NoCall
      BY <2>2, Returning DEF Accesses
    <3>2. AtStart /\ snap.state = "closed" /\ snap.opened_at = opened_at
      BY <1>p, <3>1 DEF Position, InSuccess
    <3>3. ThreadInv'
      BY <2>0, <2>2, <3>1, <3>2, RecordedTypes, EndKeeps DEF ShownInv, AtStart, Accesses
    <3>4. CB!record_success(r)
      BY <2>0, <2>2, <3>1, <3>2 DEF CB!record_success, AtStart, Live
    <3>5. QED
      BY <3>3, <3>4 DEF Refines, CB!Next
  <2>3. QED
    BY <1>2, <2>1, <2>2 DEF SuccessStoreFailures
<1>3. CASE SuccessStoreInflight(r)
  <2>1. Advance(r, "ok_inflight", "ok_state") /\ inflight' = 0 /\ UNCHANGED <<state, failures, opened_at>>
    BY <1>3 DEF SuccessStoreInflight
  <2>2. pc[r] = "ok_inflight" /\ pc'[r] = "ok_state" /\ UNCHANGED <<stage, snap>>
    BY <2>1 DEF Advance, users
  <2>3. Position(r)' /\ Live' \in Breakers
    BY <1>0, <1>p, <2>1, <2>2, Counters DEF Position, InCheck, InSuccess, InFailure, InDrop, AtStart, Live, Breakers
  <2>4. QED
    BY <2>1, <2>3, AdvanceKeeps DEF Accesses, Refines
<1>4. CASE SuccessStoreState(r)
  <2>1. Advance(r, "ok_state", "ok_time") /\ state' = "closed" /\ UNCHANGED <<failures, inflight, opened_at>>
    BY <1>4 DEF SuccessStoreState
  <2>2. pc[r] = "ok_state" /\ pc'[r] = "ok_time" /\ UNCHANGED <<stage, snap>>
    BY <2>1 DEF Advance, users
  <2>3. Position(r)' /\ Live' \in Breakers
    BY <1>0, <1>p, <2>1, <2>2 DEF Position, InCheck, InSuccess, InFailure, InDrop, AtStart, Live, Breakers
  <2>4. QED
    BY <2>1, <2>3, AdvanceKeeps DEF Accesses, Refines
<1>5. CASE SuccessClearTime(r)
  <2>1. /\ Return(r, "ok_time") /\ opened_at' = "none" /\ CB!Recorded(r) /\ probing' = {} /\ stray' = FALSE
        /\ UNCHANGED <<state, failures, inflight, guard>>
    BY <1>5 DEF SuccessClearTime
  <2>2. /\ Busy = {r} /\ Busy' = {} /\ Shown = snap /\ Shown' = Live' /\ pc[r] = "ok_time"
        /\ pc' = [pc EXCEPT ![r] = "out"] /\ snap' = NoCall
    BY <2>1, Returning DEF Accesses
  <2>3. state = "closed" /\ failures = 0 /\ inflight = 0 /\ snap.state = "half_open"
    BY <1>p, <2>2 DEF Position, InSuccess
  <2>4. Live' \in Breakers
    BY <1>0, <2>1 DEF Live, Breakers
  <2>5. ThreadInv'
    BY <2>1, <2>2, <2>3, <2>4, RecordedTypes, EndKeeps DEF Accesses
  <2>6. CB!record_success(r)
    BY <2>1, <2>2, <2>3 DEF CB!record_success, Live
  <2>7. QED
    BY <2>5, <2>6 DEF Refines, CB!Next
<1>6. QED
  BY <1>1, <1>2, <1>3, <1>4, <1>5 DEF SuccessCall

\* record_failure: the timestamp comes last, and the circuit shows as open
\* from then on.
LEMMA FailureRefines ==
  ASSUME ThreadInv, NEW r \in Requests, Busy \subseteq {r}, FailureCall(r)
  PROVE  Refines
<1> USE DEF ThreadInv, ThreadTypes
<1>0. /\ state \in {"closed", "open", "half_open"} /\ failures \in 0 .. Wrap - 1
      /\ inflight \in 0 .. Wrap - 1 /\ opened_at \in {"none", "fresh", "elapsed"}
  BY LiveFields
<1>p. pc[r] # "out" => snap \in Breakers /\ opened_at = snap.opened_at /\ Position(r)
  BY DEF Calls, Position, Busy
<1>1. CASE FailureLoad(r)
  <2>0. UNCHANGED <<state, failures, inflight, opened_at>> /\ stage[r] \in {"forward", "again"} /\ Live' = Live
    BY <1>1 DEF FailureLoad, Live
  <2>1. CASE state = "half_open" /\ Enter(r, "re_inflight")
    <3>1. snap' = Live /\ pc'[r] = "re_inflight" /\ stage' = stage
      BY <2>1 DEF Enter, users
    <3>2. Position(r)'
      BY <2>0, <2>1, <3>1 DEF Position, InCheck, InSuccess, InFailure, InDrop, AtStart, Live
    <3>3. QED
      BY <2>0, <2>1, <3>2, EnterKeeps DEF Accesses, Refines
  <2>2. CASE state = "closed" /\ Enter(r, "err_count")
    <3>1. snap' = Live /\ pc'[r] = "err_count" /\ stage' = stage
      BY <2>2 DEF Enter, users
    <3>2. Position(r)'
      BY <2>0, <2>2, <3>1 DEF Position, InCheck, InSuccess, InFailure, InDrop, AtStart, Live
    <3>3. QED
      BY <2>0, <2>2, <3>2, EnterKeeps DEF Accesses, Refines
  <2>3. CASE state = "open" /\ Ready(r) /\ CB!Recorded(r) /\ UNCHANGED <<guard, probing, stray, pc, snap>>
    <3>1. Busy = {} /\ Busy' = {} /\ Shown = Live /\ Shown' = Live' /\ snap' = NoCall
      BY <2>3, Immediately
    <3>2. ThreadInv'
      BY <2>0, <2>3, <3>1, RecordedTypes, EndKeeps, LiveFields DEF ShownInv
    <3>3. CB!record_failure(r)
      BY <2>0, <2>3, <3>1, LiveFields DEF CB!record_failure, CB!breaker
    <3>4. QED
      BY <3>2, <3>3 DEF Refines, CB!Next
  <2>4. QED
    BY <1>1, <2>1, <2>2, <2>3 DEF FailureLoad
<1>2. CASE FailureCount(r)
  <2>0. failures' = (failures + 1) % Wrap /\ UNCHANGED <<state, inflight, opened_at>> /\ Live' \in Breakers
    BY <1>0, <1>2, Counters DEF FailureCount, Live, Breakers
  <2>1. CASE failures' >= FailureThreshold /\ Advance(r, "err_count", "err_state")
    <3>1. pc[r] = "err_count" /\ pc'[r] = "err_state" /\ UNCHANGED <<stage, snap>>
      BY <2>1 DEF Advance, users
    <3>2. Position(r)'
      BY <1>p, <2>0, <2>1, <3>1 DEF Position, InCheck, InSuccess, InFailure, InDrop, AtStart, Counted
    <3>3. QED
      BY <2>0, <2>1, <3>2, AdvanceKeeps DEF Accesses, Refines
  <2>2. CASE failures' < FailureThreshold /\ Return(r, "err_count") /\ CB!Recorded(r) /\ UNCHANGED <<guard, probing, stray>>
    <3>1. /\ Busy = {r} /\ Busy' = {} /\ Shown = snap /\ Shown' = Live' /\ pc[r] = "err_count"
          /\ pc' = [pc EXCEPT ![r] = "out"] /\ snap' = NoCall
      BY <2>2, Returning DEF Accesses
    <3>2. AtStart /\ snap.state = "closed" /\ snap.opened_at = opened_at
      BY <1>p, <3>1 DEF Position, InFailure
    <3>3. ThreadInv'
      BY <2>0, <2>2, <3>1, <3>2, RecordedTypes, EndKeeps DEF ShownInv, AtStart, Accesses
    <3>4. CB!record_failure(r)
      BY <2>0, <2>2, <3>1, <3>2 DEF CB!record_failure, AtStart, Live
    <3>5. QED
      BY <3>3, <3>4 DEF Refines, CB!Next
  <2>3. QED
    BY <1>2, <2>1, <2>2 DEF FailureCount
<1>3. CASE FailureStoreInflight(r)
  <2>1. Advance(r, "re_inflight", "err_state") /\ inflight' = 0 /\ UNCHANGED <<state, failures, opened_at>>
    BY <1>3 DEF FailureStoreInflight
  <2>2. pc[r] = "re_inflight" /\ pc'[r] = "err_state" /\ UNCHANGED <<stage, snap>>
    BY <2>1 DEF Advance, users
  <2>3. Position(r)' /\ Live' \in Breakers
    BY <1>0, <1>p, <2>1, <2>2, Counters DEF Position, InCheck, InSuccess, InFailure, InDrop, AtStart, Counted, Live, Breakers
  <2>4. QED
    BY <2>1, <2>3, AdvanceKeeps DEF Accesses, Refines
<1>4. CASE FailureStoreState(r)
  <2>1. Advance(r, "err_state", "err_time") /\ state' = "open" /\ UNCHANGED <<failures, inflight, opened_at>>
    BY <1>4 DEF FailureStoreState
  <2>2. pc[r] = "err_state" /\ pc'[r] = "err_time" /\ UNCHANGED <<stage, snap>>
    BY <2>1 DEF Advance, users
  <2>3. Position(r)' /\ Live' \in Breakers
    BY <1>0, <1>p, <2>1, <2>2 DEF Position, InCheck, InSuccess, InFailure, InDrop, AtStart, Counted, Live, Breakers
  <2>4. QED
    BY <2>1, <2>3, AdvanceKeeps DEF Accesses, Refines
<1>5. CASE FailureSetTime(r)
  <2>1. /\ Return(r, "err_time") /\ opened_at' = "fresh" /\ CB!Recorded(r) /\ probing' = {} /\ stray' = FALSE
        /\ UNCHANGED <<state, failures, inflight, guard>>
    BY <1>5 DEF FailureSetTime
  <2>2. /\ Busy = {r} /\ Busy' = {} /\ Shown = snap /\ Shown' = Live' /\ pc[r] = "err_time"
        /\ pc' = [pc EXCEPT ![r] = "out"] /\ snap' = NoCall
    BY <2>1, Returning DEF Accesses
  <2>3. state = "open" /\ Counted
    BY <1>p, <2>2 DEF Position, InFailure
  <2>4. Live' \in Breakers
    BY <1>0, <2>1 DEF Live, Breakers
  <2>5. ThreadInv'
    BY <2>1, <2>2, <2>3, <2>4, RecordedTypes, EndKeeps DEF Accesses
  <2>6. CB!record_failure(r)
    <3>1. CASE snap.state = "half_open"
      BY <2>1, <2>2, <2>3, <3>1 DEF CB!record_failure, Live, Counted
    <3>2. CASE snap.state = "closed"
      <4>1. probing = {} /\ stray = FALSE
        BY <2>2, <3>2 DEF ShownInv
      <4>2. QED
        BY <2>1, <2>2, <2>3, <3>2, <4>1 DEF CB!record_failure, Live, Counted
    <3>3. QED
      BY <2>3, <3>1, <3>2 DEF Counted
  <2>7. QED
    BY <2>5, <2>6 DEF Refines, CB!Next
<1>6. QED
  BY <1>1, <1>2, <1>3, <1>4, <1>5 DEF FailureCall

\* The drop of a guard.
LEMMA DropRefines ==
  ASSUME ThreadInv, NEW r \in Requests, Busy \subseteq {r}, DropCall(r)
  PROVE  Refines
<1> USE DEF ThreadInv, ThreadTypes
<1>0. /\ state \in {"closed", "open", "half_open"} /\ failures \in 0 .. Wrap - 1
      /\ inflight \in 0 .. Wrap - 1 /\ opened_at \in {"none", "fresh", "elapsed"}
  BY LiveFields
<1>p. pc[r] # "out" => snap \in Breakers /\ opened_at = snap.opened_at /\ Position(r)
  BY DEF Calls, Position, Busy
<1>1. CASE DropLoad(r)
  <2>0. UNCHANGED <<state, failures, inflight, opened_at>> /\ stage[r] # "idle" /\ Live' = Live
    BY <1>1 DEF DropLoad, Live
  <2>1. CASE guard[r] = "held" /\ state = "half_open" /\ Enter(r, "drop_sub")
    <3>1. snap' = Live /\ pc'[r] = "drop_sub" /\ UNCHANGED <<stage, guard>>
      BY <2>1 DEF Enter, users
    <3>2. Position(r)'
      BY <2>0, <2>1, <3>1 DEF Position, InCheck, InSuccess, InFailure, InDrop, AtStart, Live
    <3>3. QED
      BY <2>0, <2>1, <3>2, EnterKeeps DEF Accesses, Refines
  <2>2. CASE (guard[r] # "held" \/ state # "half_open") /\ Ready(r) /\ Ended(r) /\ UNCHANGED <<probing, stray, pc, snap>>
    <3>1. Busy = {} /\ Busy' = {} /\ Shown = Live /\ Shown' = Live' /\ snap' = NoCall
      BY <2>2, Immediately
    <3>2. ThreadInv'
      BY <2>0, <2>2, <3>1, EndKeeps, LiveFields DEF ShownInv, Ended
    <3>3. CB!Release(r)
      BY <2>0, <2>2, <3>1, LiveFields DEF CB!Release, Ended
    <3>4. QED
      BY <3>2, <3>3 DEF Refines, CB!Next
  <2>3. QED
    BY <1>1, <2>1, <2>2 DEF DropLoad
<1>2. CASE DropSub(r)
  <2>1. /\ Return(r, "drop_sub") /\ inflight' = (inflight - 1) % Wrap /\ Ended(r) /\ probing' = probing \ {r}
        /\ stray' = (stray \/ r \notin probing) /\ UNCHANGED <<state, failures, opened_at>>
    BY <1>2 DEF DropSub
  <2>2. /\ Busy = {r} /\ Busy' = {} /\ Shown = snap /\ Shown' = Live' /\ pc[r] = "drop_sub"
        /\ pc' = [pc EXCEPT ![r] = "out"] /\ snap' = NoCall
    BY <2>1, Returning DEF Accesses
  <2>3. AtStart /\ snap.state = "half_open" /\ stage[r] # "idle" /\ guard[r] = "held" /\ snap.opened_at = opened_at
    BY <1>p, <2>2 DEF Position, InDrop
  <2>4. Live' \in Breakers
    BY <1>0, <2>1, Counters DEF Live, Breakers
  <2>5. ThreadInv'
    BY <2>1, <2>2, <2>3, <2>4, EndKeeps DEF Accesses, Ended, AtStart
  <2>6. CB!Release(r)
    BY <2>1, <2>2, <2>3 DEF CB!Release, Ended, AtStart, Live
  <2>7. QED
    BY <2>5, <2>6 DEF Refines, CB!Next
<1>3. QED
  BY <1>1, <1>2 DEF DropCall

-----------------------------------------------------------------------------
\* No step of a call comes between two steps of another.
Serial ==
    \A r \in Requests :
        CheckCall(r) \/ SuccessCall(r) \/ FailureCall(r) \/ DropCall(r) => Busy \subseteq {r}

\* Every step of a serial execution refines, and nobody's is one too.
LEMMA ThreadStep == ThreadInv /\ [Next]_vars /\ [Serial]_vars => Refines
<1> SUFFICES ASSUME ThreadInv, [Next]_vars, [Serial]_vars PROVE Refines
  OBVIOUS
<1>1. CASE UNCHANGED vars
  <2>1. Busy' = Busy /\ Live' = Live /\ Shown' = Shown
    BY <1>1 DEF vars, Busy, Live, Shown
  <2>2. ThreadInv'
    BY <1>1, <2>1 DEF vars, ThreadInv, ThreadTypes, OneCall, Calls, ShownInv, InCheck, InSuccess, InFailure, InDrop, AtStart, Counted
  <2>3. UNCHANGED CB!vars
    BY <1>1, <2>1 DEF vars, CB!vars
  <2>4. QED
    BY <2>2, <2>3 DEF Refines
<1>2. CASE Elapse
  BY <1>2, ElapseRefines
<1>3. ASSUME NEW r \in Requests, CheckCall(r) \/ SuccessCall(r) \/ FailureCall(r) \/ DropCall(r), Serial
      PROVE  Refines
  <2>1. Busy \subseteq {r}
    BY <1>3 DEF Serial
  <2>2. QED
    BY <1>3, <2>1, CheckRefines, SuccessRefines, FailureRefines, DropRefines
<1>4. QED
  BY <1>1, <1>2, <1>3 DEF Next

\* The beginning is CircuitBreaker's.
LEMMA ThreadInitially == Init => ThreadInv /\ CB!Init
<1> SUFFICES ASSUME Init PROVE ThreadInv /\ CB!Init
  OBVIOUS
<1>1. Busy = {} /\ Shown = Live
  BY DEF Init, Busy, Shown
<1>2. Live \in Breakers
  BY Counters, LiveFields DEF Init
<1>3. ThreadInv
  BY <1>1, <1>2, LiveFields DEF Init, ThreadInv, ThreadTypes, OneCall, Calls, ShownInv, Accesses
<1>4. CB!Init
  BY <1>1, LiveFields DEF Init, CB!Init, CB!Fresh
<1>5. QED
  BY <1>3, <1>4

\* On any number of worker threads, an execution in which the calls of one
\* breaker do not overlap is one of CircuitBreaker's: the loads, stores and critical
\* sections of a call, the stores of check after the unlock of opened_at among
\* them, have together the effect that CircuitBreaker gives the call in one step.
\* Calls that do overlap are BreakerTwoWorkers' matter.
THEOREM SerialCallsImplement == Spec /\ [][Serial]_vars => ImplementsCircuitBreaker
<1>1. ThreadInv /\ [Next]_vars /\ [Serial]_vars => ThreadInv' /\ [CB!Next]_(CB!vars)
  BY ThreadStep DEF Refines
<1>2. QED
  BY <1>1, ThreadInitially, PTL DEF Spec, ImplementsCircuitBreaker, CB!Spec

=============================================================================
