------------------------- MODULE RequestPathProofs -------------------------
(***************************************************************************)
(* Theorems about RequestPath for every number of requests, members,       *)
(* permits and retries.                                                    *)
(***************************************************************************)
EXTENDS RequestPath, FiniteSetTheorems, TLAPS

USE DEF loopVars, guardVars

-----------------------------------------------------------------------------
(* The inductive invariant.                                                *)

Exchange == {"forward", "park", "backoff", "backoffResponse", "collect"}

\* What the retry loop keeps of one request: the attempts it used bound the
\* times it was handed out, and at most the attempt under way has not been
\* counted yet.
LoopInv(r) ==
    /\ attempts[r] <= IF r \in replayable THEN MaxRetries + 1 ELSE 1
    /\ pc[r] \in {"new", "prepare", "stream", "done"} =>
         body[r] = "none" /\ sends[r] = 0 /\ attempt[r] = 0
    /\ pc[r] \in {"loop", "gate"} \cup Exchange => body[r] # "none"
    /\ pc[r] = "loop" => attempt[r] <= attempts[r] /\ sends[r] <= attempt[r]
    /\ pc[r] = "gate" =>
         attempt[r] < attempts[r] /\ sends[r] <= attempt[r] /\ at[r] \in Backends
    /\ pc[r] \in Exchange =>
         attempt[r] < attempts[r] /\ sends[r] <= attempt[r] + 1 /\ at[r] \in Backends
    /\ body[r] = "stream" => sends[r] = 0
    /\ body[r] = "taken" => sends[r] = 1

\* What one request holds.
HoldsInv(r) ==
    /\ conn[r] # NoBackend => conn[r] = at[r] /\ pc[r] \in Awaits \ {"prepare"}
    /\ (r \in queued) <=> (pc[r] \notin {"new", "done"})

RequestInv ==
    /\ TypeOK
    /\ \A r \in Requests : LoopInv(r) /\ HoldsInv(r)

\* The two limits, which only GateForward and Admit can put at risk.
LimitsInv ==
    /\ \A b \in Backends : Cardinality(Holders(b)) <= MaxConns[b]
    /\ Cardinality(queued) <= QueueDepth

-----------------------------------------------------------------------------
(* The ways an action may end, each shown once to preserve RequestInv.     *)

\* A task that ends, from wherever it is.
LEMMA FinishKeeps ==
    ASSUME RequestInv, NEW r \in Requests, Finish(r)
    PROVE  RequestInv'
<1> USE RequestPathAssumption
<1>1. TypeOK'
  BY DEF RequestInv, TypeOK, Finish, Forget, DropAttempt, PcStates, Awaits
<1>2. ASSUME NEW q \in Requests PROVE LoopInv(q)' /\ HoldsInv(q)'
  BY <1>2 DEF RequestInv, TypeOK, Finish, Forget, DropAttempt, PcStates, Awaits,
     LoopInv, HoldsInv, Exchange
<1> QED
  BY <1>1, <1>2 DEF RequestInv

\* The end of the retry loop, with or without a response to hand on.
LEMMA ExhaustedKeeps ==
    ASSUME RequestInv, NEW r \in Requests, Exhausted(r), pc[r] \in {"loop", "gate"}
    PROVE  RequestInv'
<1> USE RequestPathAssumption
<1>1. CASE Finish(r)
  BY <1>1, FinishKeeps
<1>2. CASE ~Finish(r)
  <2>1. /\ pc' = [pc EXCEPT ![r] = "stream"]
        /\ DropAttempt(r)
        /\ Forget(r)
        /\ UNCHANGED <<queued, online, stalled>>
    BY <1>2 DEF Exhausted
  <2>2. TypeOK'
    BY <2>1 DEF RequestInv, TypeOK, Forget, DropAttempt, PcStates, Awaits
  <2>3. ASSUME NEW q \in Requests PROVE LoopInv(q)' /\ HoldsInv(q)'
    BY <2>1, <2>3 DEF RequestInv, TypeOK, Forget, DropAttempt, PcStates, Awaits,
       LoopInv, HoldsInv, Exchange
  <2> QED
    BY <2>2, <2>3 DEF RequestInv
<1> QED
  BY <1>1, <1>2

\* The next turn of the loop: the attempt that ended is counted.
LEMMA ContinueKeeps ==
    ASSUME RequestInv, NEW r \in Requests,
           NEW tried \in SUBSET Backends, NEW response \in Backends \cup {NoBackend},
           Continue(r, tried, response), pc[r] \in {"gate"} \cup Exchange
    PROVE  RequestInv'
<1> USE RequestPathAssumption
<1>1. attempt[r] < attempts[r] /\ attempts[r] \in 0 .. MaxRetries + 1
  BY DEF RequestInv, LoopInv, TypeOK
<1>2. TypeOK'
  <2>1. attempt' \in [Requests -> 0 .. MaxRetries + 1]
    BY <1>1 DEF RequestInv, TypeOK, Continue
  <2>2. last' \in [Requests -> Backends \cup {NoBackend}]
    BY DEF RequestInv, TypeOK, Continue
  <2>3. failed' \in [Requests -> SUBSET Backends]
    BY DEF RequestInv, TypeOK, Continue
  <2> QED
    BY <2>1, <2>2, <2>3 DEF RequestInv, TypeOK, Continue, DropAttempt, PcStates, Awaits
<1>3. ASSUME NEW q \in Requests PROVE LoopInv(q)' /\ HoldsInv(q)'
  BY <1>1, <1>3 DEF RequestInv, TypeOK, Continue, DropAttempt, PcStates, Awaits,
     LoopInv, HoldsInv, Exchange
<1> QED
  BY <1>2, <1>3 DEF RequestInv

-----------------------------------------------------------------------------
(* One step per action.                                                    *)

\* The client's steps and the preparation of a request.
LEMMA ClientKeeps ==
    ASSUME RequestInv, NEW r \in Requests, Client(r)
    PROVE  RequestInv'
<1> USE RequestPathAssumption
<1>1. CASE AnswerEarly(r) \/ PrepareRespond(r) \/ Disconnect(r)
  BY <1>1, FinishKeeps DEF AnswerEarly, PrepareRespond, Disconnect
<1>2. ASSUME NEW retries \in BOOLEAN, Admit(r, retries) PROVE RequestInv'
  <2>1. CASE Finish(r)
    BY <2>1, FinishKeeps
  <2>2. CASE ~Finish(r)
    <3>1. TypeOK'
      BY <1>2, <2>2 DEF RequestInv, TypeOK, Admit, Goto, PcStates, Awaits
    <3>2. ASSUME NEW q \in Requests PROVE LoopInv(q)' /\ HoldsInv(q)'
      BY <1>2, <2>2, <3>2 DEF RequestInv, TypeOK, Admit, Goto, PcStates, Awaits,
         LoopInv, HoldsInv, Exchange
    <3> QED
      BY <3>1, <3>2 DEF RequestInv
  <2> QED
    BY <2>1, <2>2
<1>3. ASSUME NEW large \in BOOLEAN, Prepare(r, large) PROVE RequestInv'
  <2>1. TypeOK'
    BY <1>3 DEF RequestInv, TypeOK, Prepare, Goto, PcStates, Awaits
  <2>2. ASSUME NEW q \in Requests PROVE LoopInv(q)' /\ HoldsInv(q)'
    BY <1>3, <2>2 DEF RequestInv, TypeOK, Prepare, Goto, PcStates, Awaits,
       LoopInv, HoldsInv, Exchange
  <2> QED
    BY <2>1, <2>2 DEF RequestInv
<1> QED
  BY <1>1, <1>2, <1>3 DEF Client

\* The steps of an attempt and of the retry loop.
LEMMA AttemptKeeps ==
    ASSUME RequestInv, NEW r \in Requests, Attempt(r)
    PROVE  RequestInv'
<1> USE RequestPathAssumption
<1>0. pc[r] \in {"gate"} \cup Exchange => at[r] \in Backends
  BY DEF RequestInv, LoopInv
<1>1. CASE OutOfAttempts(r) \/ NoneEligible(r) \/ OutOfBudget(r) \/ GateConsumed(r)
  BY <1>1, ExhaustedKeeps DEF OutOfAttempts, NoneEligible, OutOfBudget, GateConsumed
<1>2. CASE GateBusy(r) \/ GateOpen(r)
  <2>1. pc[r] = "gate" /\ Continue(r, {at[r]}, NoBackend)
    BY <1>2 DEF GateBusy, GateOpen
  <2>2. {at[r]} \in SUBSET Backends
    BY <1>0, <2>1
  <2> QED
    BY <2>1, <2>2, ContinueKeeps
<1>3. CASE BackoffEnd(r) \/ ParkReleased(r)
  <2>1. CASE pc[r] = "backoffResponse" /\ Continue(r, {}, at[r])
    BY <1>0, <2>1, ContinueKeeps DEF Exchange
  <2>2. CASE pc[r] \in {"backoff", "park"} /\ Continue(r, {}, NoBackend)
    BY <2>2, ContinueKeeps DEF Exchange
  <2> QED
    BY <1>3, <2>1, <2>2 DEF BackoffEnd, ParkReleased
<1>4. CASE ParkRefused(r)
  BY <1>4, FinishKeeps DEF ParkRefused
<1>5. ASSUME NEW b \in Backends, Select(r, b) PROVE RequestInv'
  <2>1. TypeOK'
    BY <1>5 DEF RequestInv, TypeOK, Select, Goto, PcStates, Awaits
  <2>2. ASSUME NEW q \in Requests PROVE LoopInv(q)' /\ HoldsInv(q)'
    BY <1>5, <2>2 DEF RequestInv, TypeOK, Select, Goto, PcStates, Awaits,
       LoopInv, HoldsInv, Exchange
  <2> QED
    BY <2>1, <2>2 DEF RequestInv
<1>6. CASE GateForward(r)
  <2>1. TypeOK'
    BY <1>6 DEF RequestInv, TypeOK, GateForward, Goto, PcStates, Awaits
  <2>2. ASSUME NEW q \in Requests PROVE LoopInv(q)' /\ HoldsInv(q)'
    BY <1>6, <2>2 DEF RequestInv, TypeOK, GateForward, Goto, PcStates, Awaits,
       LoopInv, HoldsInv, Exchange
  <2> QED
    BY <2>1, <2>2 DEF RequestInv
<1>7. CASE ForwardMissed(r)
  <2>1. TypeOK'
    BY <1>7 DEF RequestInv, TypeOK, ForwardMissed, Goto, PcStates, Awaits
  <2>2. ASSUME NEW q \in Requests PROVE LoopInv(q)' /\ HoldsInv(q)'
    BY <1>7, <2>2 DEF RequestInv, TypeOK, ForwardMissed, Goto, PcStates, Awaits,
       LoopInv, HoldsInv, Exchange
  <2> QED
    BY <2>1, <2>2 DEF RequestInv
<1>8. CASE ForwardFailed(r)
  <2>1. CASE Finish(r)
    BY <2>1, FinishKeeps
  <2>2. CASE ~Finish(r)
    <3>1. TypeOK'
      BY <1>0, <1>8, <2>2 DEF RequestInv, TypeOK, ForwardFailed, Goto, PcStates, Awaits, Exchange
    <3>2. ASSUME NEW q \in Requests PROVE LoopInv(q)' /\ HoldsInv(q)'
      BY <1>8, <2>2, <3>2 DEF RequestInv, TypeOK, ForwardFailed, Goto, PcStates, Awaits,
         LoopInv, HoldsInv, Exchange
    <3> QED
      BY <3>1, <3>2 DEF RequestInv
  <2> QED
    BY <2>1, <2>2
<1>9. CASE ForwardAnswered(r)
  <2>1. TypeOK'
    BY <1>9 DEF RequestInv, TypeOK, ForwardAnswered, Forget, Goto, PcStates, Awaits
  <2>2. ASSUME NEW q \in Requests PROVE LoopInv(q)' /\ HoldsInv(q)'
    BY <1>9, <2>2 DEF RequestInv, TypeOK, ForwardAnswered, Forget, Goto, PcStates, Awaits,
       LoopInv, HoldsInv, Exchange
  <2> QED
    BY <2>1, <2>2 DEF RequestInv
<1> QED
  BY <1>1, <1>2, <1>3, <1>4, <1>5, <1>6, <1>7, <1>8, <1>9 DEF Attempt

\* The response's steps.
LEMMA ResponseKeeps ==
    ASSUME RequestInv, NEW r \in Requests, Response(r)
    PROVE  RequestInv'
<1>1. CASE CollectEnd(r) \/ StreamEnd(r) \/ IdleAbort(r)
  BY <1>1, FinishKeeps DEF CollectEnd, StreamEnd, IdleAbort
<1>2. CASE Stall(r)
  BY <1>2 DEF RequestInv, TypeOK, Stall, LoopInv, HoldsInv
<1> QED
  BY <1>1, <1>2 DEF Response

\* So every step keeps the invariant.
LEMMA RequestStep ==
    RequestInv /\ [Next]_vars => RequestInv'
<1> SUFFICES ASSUME RequestInv, [Next]_vars PROVE RequestInv'
  OBVIOUS
<1>1. ASSUME NEW r \in Requests, Client(r) \/ Attempt(r) \/ Response(r) PROVE RequestInv'
  BY <1>1, ClientKeeps, AttemptKeeps, ResponseKeeps
<1>2. ASSUME NEW b \in Flaky, HealthChange(b) PROVE RequestInv'
  BY <1>2, RequestPathAssumption DEF RequestInv, TypeOK, HealthChange, LoopInv, HoldsInv
<1>3. CASE UNCHANGED vars
  BY <1>3 DEF vars, RequestInv, TypeOK, LoopInv, HoldsInv
<1> QED
  BY <1>1, <1>2, <1>3 DEF Next

\* And it holds at first.
LEMMA RequestInit ==
    Init => RequestInv
<1> SUFFICES ASSUME Init PROVE RequestInv
  OBVIOUS
<1>1. TypeOK
  BY RequestPathAssumption DEF Init, TypeOK, PcStates
<1>2. ASSUME NEW r \in Requests PROVE LoopInv(r) /\ HoldsInv(r)
  BY <1>2, RequestPathAssumption DEF Init, LoopInv, HoldsInv, Exchange
<1> QED
  BY <1>1, <1>2 DEF RequestInv

\* The invariant of one request holds in every reachable state.
LEMMA RequestInvariant == Spec => []RequestInv
BY RequestInit, RequestStep, PTL DEF Spec

\* Every reachable state of the request path is well typed; the attempt counter
\* never passes the retry budget.
THEOREM RequestTypeCorrect == Spec => []TypeOK
<1>1. RequestInv => TypeOK
  BY DEF RequestInv
<1> QED
  BY <1>1, RequestInvariant, PTL

\* No request is handed out more often than it may be, for every retry budget
\* and every interleaving of requests, busy members, open circuits and wakes.
THEOREM NeverReplayed == Spec => []NoReplay
<1>1. RequestInv => NoReplay
  <2> SUFFICES ASSUME RequestInv, NEW r \in Requests
               PROVE  /\ sends[r] <= IF r \in replayable THEN MaxRetries + 1 ELSE 1
                      /\ body[r] = "stream" => sends[r] = 0
                      /\ body[r] = "taken" => sends[r] = 1
    BY DEF NoReplay
  <2>1. /\ LoopInv(r) /\ pc[r] \in PcStates
        /\ attempt[r] \in Nat /\ attempts[r] \in Nat /\ sends[r] \in Nat
    BY RequestPathAssumption DEF RequestInv, TypeOK
  <2> QED
    BY <2>1, RequestPathAssumption DEF LoopInv, Exchange, PcStates, Awaits
<1> QED
  BY <1>1, RequestInvariant, PTL

-----------------------------------------------------------------------------
(* The permits.                                                            *)

\* A set of requests is finite, and taking members out does not enlarge it.
LEMMA RequestSubsets ==
    ASSUME NEW S \in SUBSET Requests, NEW T \in SUBSET S
    PROVE  /\ IsFiniteSet(S)
           /\ Cardinality(S) \in Nat /\ Cardinality(T) \in Nat
           /\ Cardinality(T) <= Cardinality(S)
<1>1. IsFiniteSet(S)
  BY RequestPathAssumption, FS_Subset
<1>2. IsFiniteSet(T) /\ Cardinality(T) <= Cardinality(S)
  BY <1>1, FS_Subset
<1> QED
  BY <1>1, <1>2, FS_CardinalityType

\* One more request adds at most one to the cardinality.
LEMMA RequestAdd ==
    ASSUME NEW S \in SUBSET Requests, NEW r \in Requests
    PROVE  /\ Cardinality(S) \in Nat /\ Cardinality(S \cup {r}) \in Nat
           /\ Cardinality(S \cup {r}) <= Cardinality(S) + 1
<1>1. IsFiniteSet(S) /\ Cardinality(S) \in Nat
  BY RequestSubsets
<1>2. Cardinality(S \cup {r}) = IF r \in S THEN Cardinality(S) ELSE Cardinality(S) + 1
  BY <1>1, FS_AddElement
<1> QED
  BY <1>1, <1>2

\* Every step but Admit leaves the queue no fuller.
LEMMA QueueStep ==
    ASSUME RequestInv, LimitsInv, [Next]_vars
    PROVE  Cardinality(queued') <= QueueDepth
<1> USE RequestPathAssumption
<1>0. queued \in SUBSET Requests
  BY DEF RequestInv, TypeOK
<1>1. CASE queued' \subseteq queued
  <2>1. /\ Cardinality(queued') \in Nat /\ Cardinality(queued) \in Nat
        /\ Cardinality(queued') <= Cardinality(queued)
    BY <1>0, <1>1, RequestSubsets
  <2> QED
    BY <2>1 DEF LimitsInv
<1>2. ASSUME NEW r \in Requests, NEW retries \in BOOLEAN, Admit(r, retries), ~Finish(r)
      PROVE  Cardinality(queued') <= QueueDepth
  <2>1. queued' = queued \cup {r} /\ Cardinality(queued) < QueueDepth
    BY <1>2 DEF Admit
  <2>2. /\ Cardinality(queued) \in Nat /\ Cardinality(queued \cup {r}) \in Nat
        /\ Cardinality(queued \cup {r}) <= Cardinality(queued) + 1
    BY <1>0, RequestAdd
  <2> QED
    BY <2>1, <2>2
<1>3. ASSUME NEW r \in Requests, Client(r) PROVE
        \/ queued' \subseteq queued
        \/ \E retries \in BOOLEAN : Admit(r, retries) /\ ~Finish(r)
  BY <1>3 DEF Client, AnswerEarly, PrepareRespond, Disconnect, Finish, Prepare
<1>4. ASSUME NEW r \in Requests, Attempt(r) \/ Response(r) PROVE queued' \subseteq queued
  BY <1>4 DEF Attempt, Response, OutOfAttempts, NoneEligible, OutOfBudget, Select, GateBusy,
     GateOpen, GateConsumed, GateForward, ForwardMissed, ForwardFailed, ForwardAnswered,
     BackoffEnd, ParkReleased, ParkRefused, CollectEnd, StreamEnd, Stall, IdleAbort,
     Exhausted, Continue, Finish
<1>5. (\E b \in Flaky : HealthChange(b)) \/ UNCHANGED vars => queued' \subseteq queued
  BY DEF HealthChange, vars
<1> QED
  BY <1>1, <1>2, <1>3, <1>4, <1>5 DEF Next

\* Every step but GateForward leaves no backend with more permits taken.
LEMMA ConnStep ==
    ASSUME RequestInv, LimitsInv, [Next]_vars, NEW b \in Backends
    PROVE  Cardinality(Holders(b)') <= MaxConns[b]
<1> USE RequestPathAssumption
<1>0. /\ Holders(b) \in SUBSET Requests /\ Holders(b)' \in SUBSET Requests
      /\ NoBackend # b
  BY DEF Holders
<1>1. CASE Holders(b)' \subseteq Holders(b)
  <2>1. /\ Cardinality(Holders(b)') \in Nat /\ Cardinality(Holders(b)) \in Nat
        /\ Cardinality(Holders(b)') <= Cardinality(Holders(b))
    BY <1>0, <1>1, RequestSubsets
  <2> QED
    BY <2>1 DEF LimitsInv
<1>2. ASSUME NEW r \in Requests, GateForward(r) PROVE Cardinality(Holders(b)') <= MaxConns[b]
  <2>1. conn \in [Requests -> Backends \cup {NoBackend}]
    BY DEF RequestInv, TypeOK
  <2>2. CASE at[r] = b
    <3>1. Holders(b)' = Holders(b) \cup {r} /\ Cardinality(Holders(b)) < MaxConns[b]
      BY <1>2, <2>1, <2>2 DEF GateForward, Holders
    <3>2. /\ Cardinality(Holders(b)) \in Nat /\ Cardinality(Holders(b) \cup {r}) \in Nat
          /\ Cardinality(Holders(b) \cup {r}) <= Cardinality(Holders(b)) + 1
      BY <1>0, RequestAdd
    <3> QED
      BY <3>1, <3>2
  <2>3. CASE at[r] # b
    <3>1. Holders(b)' \subseteq Holders(b)
      BY <1>2, <2>1, <2>3 DEF GateForward, Holders
    <3> QED
      BY <1>1, <3>1
  <2> QED
    BY <2>2, <2>3
<1>3. ASSUME NEW r \in Requests, DropAttempt(r) PROVE Holders(b)' \subseteq Holders(b)
  BY <1>0, <1>3 DEF DropAttempt, Holders, RequestInv, TypeOK
<1>4. ASSUME conn' = conn PROVE Holders(b)' \subseteq Holders(b)
  BY <1>4 DEF Holders
<1>5. ASSUME NEW r \in Requests, Client(r) \/ Attempt(r) \/ Response(r)
      PROVE  GateForward(r) \/ DropAttempt(r) \/ conn' = conn
  BY <1>5 DEF Client, Attempt, Response, AnswerEarly, PrepareRespond, Disconnect, Admit, Prepare,
     OutOfAttempts, NoneEligible, OutOfBudget, Select, GateBusy, GateOpen, GateConsumed,
     ForwardMissed, ForwardFailed, ForwardAnswered, BackoffEnd, ParkReleased, ParkRefused,
     CollectEnd, StreamEnd, Stall, IdleAbort, Exhausted, Continue, Finish
<1>6. (\E c \in Flaky : HealthChange(c)) \/ UNCHANGED vars => conn' = conn
  BY DEF HealthChange, vars
<1> QED
  BY <1>1, <1>2, <1>3, <1>4, <1>5, <1>6 DEF Next

\* max_connections and the queue depth hold, and every permit belongs to a
\* request that is using it, for every number of requests and members.
THEOREM PermitsHold == Spec => []PermitsAccounted
<1>1. Init => LimitsInv
  <2> SUFFICES ASSUME Init PROVE LimitsInv
    OBVIOUS
  <2>1. Cardinality({}) = 0
    BY FS_EmptySet
  <2>2. queued = {} /\ \A b \in Backends : Holders(b) = {}
    BY RequestPathAssumption DEF Init, Holders
  <2> QED
    BY <2>1, <2>2, RequestPathAssumption DEF LimitsInv
<1>2. RequestInv /\ LimitsInv /\ [Next]_vars => LimitsInv'
  BY QueueStep, ConnStep DEF LimitsInv
<1>3. RequestInv /\ LimitsInv => PermitsAccounted
  BY DEF RequestInv, LimitsInv, HoldsInv, PermitsAccounted
<1> QED
  BY <1>1, <1>2, <1>3, RequestInvariant, PTL DEF Spec
=============================================================================
