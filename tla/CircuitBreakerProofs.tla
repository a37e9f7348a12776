------------------------ MODULE CircuitBreakerProofs ------------------------
(***************************************************************************)
(* Theorems about CircuitBreaker for every number of requests, threshold,  *)
(* probe limit and counter width the assumption admits.                    *)
(***************************************************************************)
EXTENDS CircuitBreaker, FiniteSetTheorems, TLAPS

\* A probe of the current period is a request that has not ended and holds its
\* guard: Check takes idle requests, so the one it adds is never counted twice,
\* and the slot of a probe that ends is given back.
ProbesAreGuarded ==
    \A r \in probing : state = "half_open" /\ guard[r] = "held" /\ stage[r] # "idle"

BreakerInv == TypeOK /\ FieldsAgree /\ ProbesAreGuarded /\ ProbeBound

\* Arithmetic of a counter that does not wrap.
LEMMA NoWrap ==
    \A n \in 0 .. Wrap - 1 : n % Wrap = n
  BY BreakerAssumption

\* The width leaves room for the first probe.
LEMMA OneFits == 1 \in 0 .. Wrap - 1
  BY BreakerAssumption

\* A counter stays within its width, wrapped or not.
LEMMA Wraps ==
    \A n \in Int : n % Wrap \in 0 .. Wrap - 1
  BY BreakerAssumption

\* The type invariant is preserved by every step of the breaker.
LEMMA BreakerTypeStep == TypeOK /\ [Next]_vars => TypeOK'
<1> SUFFICES ASSUME TypeOK, [Next]_vars PROVE TypeOK'
  OBVIOUS
<1>w. failures + 1 \in Int /\ inflight + 1 \in Int /\ inflight - 1 \in Int /\ 0 \in 0 .. Wrap - 1
  BY BreakerAssumption DEF TypeOK
<1>1. CASE Elapse
  BY <1>1 DEF Elapse, TypeOK
<1>2. CASE remove_backend
  BY <1>2, <1>w DEF remove_backend, TypeOK
<1>3. ASSUME NEW r \in Requests, Check(r) PROVE TypeOK'
  BY <1>3, <1>w, Wraps, OneFits DEF Check, CheckClosed, CheckOpen, CheckHalfOpen, breaker, TypeOK
<1>4. ASSUME NEW r \in Requests, record_success(r) PROVE TypeOK'
  BY <1>4, <1>w DEF record_success, Recorded, breaker, TypeOK
<1>5. ASSUME NEW r \in Requests, record_failure(r) PROVE TypeOK'
  BY <1>5, <1>w, Wraps DEF record_failure, Recorded, breaker, TypeOK
<1>6. ASSUME NEW r \in Requests, Release(r) PROVE TypeOK'
  BY <1>6, <1>w, Wraps DEF Release, TypeOK
<1>7. CASE UNCHANGED vars
  BY <1>7 DEF vars, TypeOK
<1> QED
  BY <1>1, <1>2, <1>3, <1>4, <1>5, <1>6, <1>7 DEF Next

\* Every behaviour of the breaker keeps its counters in their width and every
\* request in one of its stages.
THEOREM BreakerTypeCorrect == Spec => []TypeOK
<1>1. 0 \in 0 .. Wrap - 1
  BY BreakerAssumption
<1>2. Init => TypeOK
  BY <1>1, Zenon DEF Init, Fresh, TypeOK
<1> QED
  BY <1>2, BreakerTypeStep, PTL DEF Spec

\* No order of late successes, failures and drops sets the fields against the state.
LEMMA FieldsStep == TypeOK /\ FieldsAgree /\ [Next]_vars => FieldsAgree'
<1> SUFFICES ASSUME TypeOK, FieldsAgree, [Next]_vars PROVE FieldsAgree'
  OBVIOUS
<1>1. CASE Elapse \/ remove_backend \/ UNCHANGED vars
  BY <1>1, BreakerAssumption DEF Elapse, remove_backend, vars, FieldsAgree
<1>2. ASSUME NEW r \in Requests, Check(r) PROVE FieldsAgree'
  BY <1>2 DEF Check, CheckClosed, CheckOpen, CheckHalfOpen, breaker, FieldsAgree
<1>3. ASSUME NEW r \in Requests, record_success(r) PROVE FieldsAgree'
  BY <1>3, BreakerAssumption DEF record_success, breaker, FieldsAgree
<1>4. ASSUME NEW r \in Requests, record_failure(r) PROVE FieldsAgree'
  BY <1>4 DEF record_failure, breaker, FieldsAgree
<1>5. ASSUME NEW r \in Requests, Release(r) PROVE FieldsAgree'
  BY <1>5 DEF Release, FieldsAgree
<1> QED
  BY <1>1, <1>2, <1>3, <1>4, <1>5 DEF Next

\* The probes of the current period have not ended.
LEMMA GuardedStep ==
    TypeOK /\ ProbesAreGuarded /\ [Next]_vars => ProbesAreGuarded'
<1> SUFFICES ASSUME TypeOK, ProbesAreGuarded, [Next]_vars PROVE ProbesAreGuarded'
  OBVIOUS
<1>1. CASE Elapse \/ remove_backend \/ UNCHANGED vars
  BY <1>1 DEF Elapse, remove_backend, vars, ProbesAreGuarded
<1>2. ASSUME NEW r \in Requests, Check(r) PROVE ProbesAreGuarded'
  BY <1>2 DEF Check, CheckClosed, CheckOpen, CheckHalfOpen, breaker, TypeOK, ProbesAreGuarded
<1>3. ASSUME NEW r \in Requests, record_success(r) \/ record_failure(r) PROVE ProbesAreGuarded'
  BY <1>3 DEF record_success, record_failure, Recorded, breaker, TypeOK, ProbesAreGuarded
<1>4. ASSUME NEW r \in Requests, Release(r) PROVE ProbesAreGuarded'
  BY <1>4 DEF Release, TypeOK, ProbesAreGuarded
<1> QED
  BY <1>1, <1>2, <1>3, <1>4 DEF Next

\* The history sets are finite, so that their cardinality is a number.
LEMMA ProbingFinite == TypeOK => IsFiniteSet(probing)
  BY BreakerAssumption, FS_Subset DEF TypeOK

\* Admitting a probe and ending one move the count by one.
LEMMA ProbingCount ==
    ASSUME TypeOK, NEW r \in Requests
    PROVE  /\ Cardinality(probing) \in Nat
           /\ r \notin probing => Cardinality(probing \cup {r}) = Cardinality(probing) + 1
           /\ r \in probing => /\ Cardinality(probing) > 0
                              /\ Cardinality(probing \ {r}) = Cardinality(probing) - 1
<1>1. IsFiniteSet(probing)
  BY ProbingFinite
<1>2. Cardinality(probing) \in Nat
  BY <1>1, FS_CardinalityType
<1>3. r \notin probing => Cardinality(probing \cup {r}) = Cardinality(probing) + 1
  BY <1>1, FS_AddElement
<1>4. ASSUME r \in probing
      PROVE Cardinality(probing \ {r}) = Cardinality(probing) - 1 /\ Cardinality(probing) > 0
  <2>1. Cardinality(probing \ {r}) = Cardinality(probing) - 1
    BY <1>1, <1>4, FS_RemoveElement
  <2>2. Cardinality(probing \ {r}) \in Nat
    BY <1>1, FS_RemoveElement, FS_CardinalityType
  <2> QED
    BY <2>1, <2>2, <1>2
<1> QED
  BY <1>2, <1>3, <1>4

\* The probe count and its bound are preserved, as long as no stray drop occurs.
LEMMA ProbeStep == BreakerInv /\ [Next]_vars => ProbeBound'
<1> SUFFICES ASSUME BreakerInv, [Next]_vars PROVE ProbeBound'
  OBVIOUS
<1>a. TypeOK /\ FieldsAgree /\ ProbesAreGuarded /\ ProbeBound
  BY DEF BreakerInv
<1>1. CASE Elapse \/ remove_backend \/ UNCHANGED vars
  BY <1>1, <1>a DEF Elapse, remove_backend, vars, ProbeBound
<1>2. ASSUME NEW r \in Requests, CheckClosed(r) PROVE ProbeBound'
  BY <1>2, <1>a DEF CheckClosed, breaker, ProbeBound
<1>3. ASSUME NEW r \in Requests, CheckOpen(r) PROVE ProbeBound'
  <2>1. inflight' = 1 /\ probing' = {r}
    BY <1>3 DEF CheckOpen
  <2>2. Cardinality({r}) = 1
    BY FS_Singleton
  <2>3. Cardinality(probing') = 1
    BY <2>1, <2>2, Zenon
  <2> QED
    BY <2>1, <2>3, BreakerAssumption DEF ProbeBound
<1>4. ASSUME NEW r \in Requests, CheckHalfOpen(r) PROVE ProbeBound'
  <2>1. r \notin probing
    BY <1>4, <1>a DEF CheckHalfOpen, ProbesAreGuarded
  <2>2. Cardinality(probing') = Cardinality(probing) + 1
    BY <1>4, <1>a, <2>1, ProbingCount DEF CheckHalfOpen
  <2>3. inflight < HalfOpenMax /\ inflight \in Nat
    BY <1>4, <1>a DEF CheckHalfOpen, TypeOK
  <2>4. inflight' = inflight + 1
    BY <1>4, <2>3, NoWrap, BreakerAssumption DEF CheckHalfOpen
  <2>5. stray' = stray /\ state = "half_open"
    BY <1>4 DEF CheckHalfOpen
  <2> QED
    BY <2>2, <2>3, <2>4, <2>5, <1>a, BreakerAssumption DEF ProbeBound
<1>5. ASSUME NEW r \in Requests, record_success(r) \/ record_failure(r) PROVE ProbeBound'
  BY <1>5, <1>a DEF record_success, record_failure, breaker, ProbeBound
<1>6. ASSUME NEW r \in Requests, Release(r) PROVE ProbeBound'
  <2>1. CASE guard[r] # "held" \/ state # "half_open"
    BY <1>6, <1>a, <2>1 DEF Release, ProbeBound
  <2>2. CASE r \in probing /\ ~stray
    <3>1. state = "half_open" /\ guard[r] = "held"
      BY <1>a, <2>2 DEF ProbesAreGuarded
    <3>2. inflight = Cardinality(probing) /\ Cardinality(probing) <= HalfOpenMax
      BY <1>a, <2>2, <3>1 DEF ProbeBound
    <3>b. Cardinality(probing) > 0
      BY <1>a, <2>2, ProbingCount
    <3>3. inflight - 1 \in 0 .. Wrap - 1
      BY <1>a, <3>2, <3>b, BreakerAssumption DEF TypeOK
    <3>a. (inflight - 1) % Wrap = inflight - 1
      BY <3>3, NoWrap
    <3>4. inflight' = inflight - 1 /\ probing' = probing \ {r}
      BY <1>6, <3>1, <3>a DEF Release
    <3>5. Cardinality(probing') = Cardinality(probing) - 1
      BY <1>a, <2>2, <3>4, ProbingCount
    <3> QED
      BY <3>2, <3>3, <3>4, <3>5, <1>a, BreakerAssumption DEF ProbeBound, TypeOK
  <2>3. CASE guard[r] = "held" /\ state = "half_open" /\ (r \notin probing \/ stray)
    BY <1>6, <2>3 DEF Release, ProbeBound
  <2> QED
    BY <2>1, <2>2, <2>3
<1> QED
  BY <1>1, <1>2, <1>3, <1>4, <1>5, <1>6 DEF Next, Check

\* The inductive invariant of the breaker.
LEMMA BreakerInvariant == Spec => []BreakerInv
<1>1. Init => BreakerInv
  <2>1. Init => TypeOK
    <3>1. 0 \in 0 .. Wrap - 1
      BY BreakerAssumption
    <3> QED
      BY <3>1, Zenon DEF Init, Fresh, TypeOK
  <2> QED
    BY <2>1, BreakerAssumption DEF Init, Fresh, BreakerInv, FieldsAgree, ProbesAreGuarded, ProbeBound
<1>2. BreakerInv /\ [Next]_vars => BreakerInv'
  BY BreakerTypeStep, FieldsStep, GuardedStep, ProbeStep DEF BreakerInv
<1> QED
  BY <1>1, <1>2, PTL DEF Spec

\* half_open_max_requests bounds the probes of every half-open period in which
\* no guard of an earlier period is dropped, for any number of requests.
THEOREM ProbesBounded == Spec => []ProbeBound
<1>1. BreakerInv => ProbeBound
  BY DEF BreakerInv
<1> QED
  BY <1>1, BreakerInvariant, PTL

\* A circuit is never open without a timestamp, closed above its threshold, outside
\* half-open with probe slots taken, or, as long as no guard of an earlier period
\* is dropped, half-open with slots taken that nobody holds.
THEOREM BreakerNeverWedged == Spec => []NeverWedged
<1>1. BreakerInv => NeverWedged
  <2> SUFFICES ASSUME BreakerInv, state = "half_open", ~stray,
                      \A r \in Requests : guard[r] # "held"
               PROVE  inflight = 0
    BY DEF BreakerInv, NeverWedged
  <2>1. probing = {}
    BY DEF BreakerInv, ProbesAreGuarded, TypeOK
  <2>2. Cardinality(probing) = 0
    BY <2>1, FS_EmptySet
  <2> QED
    BY <2>2 DEF BreakerInv, ProbeBound
<1> QED
  BY <1>1, BreakerInvariant, PTL

=============================================================================
