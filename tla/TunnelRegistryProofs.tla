------------------------ MODULE TunnelRegistryProofs ------------------------
(***************************************************************************)
(* Theorems about TunnelRegistry for every set of connections, backends    *)
(* and denylists and every value of the caps.                              *)
(***************************************************************************)
EXTENDS TunnelRegistry, FiniteSetTheorems, TLAPS

USE DEF sessionVars, sweepVars, requestVars, lifeVars

-----------------------------------------------------------------------------
(* Facts about finite cardinalities, stated once.                          *)

\* A set of connections is finite, and removing members does not enlarge it.
LEMMA ConnSubsets ==
    ASSUME NEW S \in SUBSET Conns, NEW T \in SUBSET S
    PROVE  /\ IsFiniteSet(S) /\ IsFiniteSet(T)
           /\ Cardinality(S) \in Nat /\ Cardinality(T) \in Nat
           /\ Cardinality(T) <= Cardinality(S)
<1>1. IsFiniteSet(S)
  BY ConstantsAssumption, FS_Subset
<1>2. IsFiniteSet(T) /\ Cardinality(T) <= Cardinality(S)
  BY <1>1, FS_Subset
<1> QED
  BY <1>1, <1>2, FS_CardinalityType

\* Adding one connection adds at most one to the cardinality.
LEMMA ConnAdd ==
    ASSUME NEW S \in SUBSET Conns, NEW c \in Conns
    PROVE  /\ Cardinality(S \cup {c}) <= Cardinality(S) + 1
           /\ c \notin S => Cardinality(S \cup {c}) = Cardinality(S) + 1
<1>1. IsFiniteSet(S) /\ Cardinality(S) \in Nat
  BY ConnSubsets
<1>2. Cardinality(S \cup {c}) = IF c \in S THEN Cardinality(S) ELSE Cardinality(S) + 1
  BY <1>1, FS_AddElement
<1> QED
  BY <1>1, <1>2

-----------------------------------------------------------------------------
(* Type correctness.                                                       *)

\* The part of TypeOK that is about the pre-registration semaphore: no step
\* but Accept takes a permit, and Accept takes one only when one is free.
LEMMA PendingBounded ==
    ASSUME TypeOK, [Next]_vars
    PROVE  pending' \subseteq Conns /\ Cardinality(pending') <= PendingCap
<1>1. CASE \E c \in Conns : Accept(c)
  <2>1. PICK c \in Conns : Accept(c)
    BY <1>1
  <2>2. Cardinality(pending) < PendingCap /\ pending' = pending \cup {c}
    BY <2>1 DEF Accept
  <2>3. pending \in SUBSET Conns /\ Cardinality(pending) \in Nat
    BY ConnSubsets DEF TypeOK
  <2>4. Cardinality(pending') <= Cardinality(pending) + 1
    BY <2>2, <2>3, ConnAdd
  <2>5. IsFiniteSet(pending') /\ Cardinality(pending') \in Nat
    <3>1. pending' \in SUBSET Conns
      BY <2>2, <2>3
    <3> QED
      BY <3>1, ConnSubsets
  <2> QED
    BY <2>2, <2>3, <2>4, <2>5, ConstantsAssumption
<1>2. CASE ~(\E c \in Conns : Accept(c))
  <2>1. pending' \subseteq pending
    BY <1>2 DEF Next, vars, Pipeline, Environment, Request, Sweep, Stop, Accept, Ignore,
       PeerEnd, ConnClosed, Establish, EstablishFail, RejectVersion, Admit, Register, Recheck,
       AckSent, AckFailed, LoopEnd, Deregister, DropBucket, DrainEnd, Leave,
       reject_registration, AcquireClosed, Evict, EvictBucket, SweepStart, SweepBucket,
       SweepRetain, ListenerStop, ShutdownNotify, ShutdownClear, Publish, Cancel
  <2>2. pending \in SUBSET Conns /\ pending' \in SUBSET pending
    BY <2>1 DEF TypeOK
  <2>3. /\ Cardinality(pending') <= Cardinality(pending)
        /\ Cardinality(pending) \in Nat /\ Cardinality(pending') \in Nat
    BY <2>2, ConnSubsets
  <2> QED
    BY <2>2, <2>3, ConstantsAssumption DEF TypeOK
<1> QED
  BY <1>1, <1>2

\* TypeOK is inductive; one step per action, the permit bound taken from above.
LEMMA TypeStep ==
    TypeOK /\ [Next]_vars => TypeOK'
<1> SUFFICES ASSUME TypeOK, [Next]_vars PROVE TypeOK'
  OBVIOUS
<1>0. pending' \subseteq Conns /\ Cardinality(pending') <= PendingCap
  BY PendingBounded
<1>c. NoConn \in Conns
  BY ConstantsAssumption DEF NoConn
<1> USE <1>0, ConstantsAssumption DEF TypeOK, PcStates, Goto, Bucket, reject_registration
<1>1. ASSUME NEW c \in Conns, Environment(c) PROVE TypeOK'
  BY <1>1 DEF Environment, Accept, Ignore, PeerEnd, ConnClosed
<1>2. ASSUME NEW c \in Conns, Pipeline(c) PROVE TypeOK'
  <2>1. ASSUME NEW b \in Backends, Establish(c, b) PROVE TypeOK'
    BY <2>1 DEF Establish
  <2>2. CASE EstablishFail(c) \/ RejectVersion(c) \/ Admit(c)
    BY <2>2 DEF EstablishFail, RejectVersion, Admit
  <2>3. CASE Register(c) \/ Recheck(c)
    BY <2>3 DEF Register, Recheck
  <2>4. CASE AckSent(c) \/ AckFailed(c) \/ LoopEnd(c) \/ DrainEnd(c)
    BY <2>4 DEF AckSent, AckFailed, LoopEnd, DrainEnd
  <2>5. CASE Deregister(c)
    BY <2>5 DEF Deregister, Retain, Leave
  <2>6. CASE DropBucket(c)
    BY <2>6 DEF DropBucket, RemoveBucket, Leave
  <2> QED
    BY <1>2, <2>1, <2>2, <2>3, <2>4, <2>5, <2>6 DEF Pipeline
<1>3. ASSUME NEW r \in Requests, Request(r) PROVE TypeOK'
  <2>1. ASSUME NEW c \in Conns, AcquireClosed(r, c) PROVE TypeOK'
    BY <2>1 DEF AcquireClosed
  <2>2. CASE Evict(r)
    BY <1>c, <2>2 DEF Evict, Retain
  <2>3. CASE EvictBucket(r)
    BY <1>c, <2>3 DEF EvictBucket, RemoveBucket
  <2> QED
    BY <1>3, <2>1, <2>2, <2>3 DEF Request
<1>4. ASSUME NEW denied \in Denylists, Publish(denied) PROVE TypeOK'
  BY <1>4 DEF Publish
<1>5. CASE Sweep
  BY <1>5 DEF Sweep, SweepStart, SweepBucket, SweepRetain
<1>6. CASE Cancel \/ Stop
  BY <1>6 DEF Cancel, Stop, ListenerStop, ShutdownNotify, ShutdownClear
<1>7. CASE UNCHANGED vars
  BY <1>7 DEF vars
<1> QED
  BY <1>1, <1>2, <1>3, <1>4, <1>5, <1>6, <1>7 DEF Next

\* Every reachable state is well typed and respects the permit budget.
THEOREM TypeCorrect == Spec => []TypeOK
<1>1. Init => TypeOK
  <2> SUFFICES ASSUME Init PROVE TypeOK
    OBVIOUS
  <2>1. Cardinality({}) = 0
    BY FS_EmptySet
  <2>2. NoConn \in Conns
    BY ConstantsAssumption DEF NoConn
  <2>3. Cardinality(pending) <= PendingCap
    BY <2>1, ConstantsAssumption DEF Init
  <2>4. changed \in BOOLEAN /\ sweeping \in BOOLEAN /\ listening \in BOOLEAN
    BY DEF Init
  <2> QED
    BY <2>2, <2>3, <2>4, ConstantsAssumption DEF Init, TypeOK, PcStates
<1> QED
  BY <1>1, TypeStep, PTL DEF Spec

-----------------------------------------------------------------------------
(* No ghost sessions.                                                      *)

\* Every step keeps it: a session is in the registry only while its connection is served.
LEMMA GhostStep ==
    TypeOK /\ NoGhostSession /\ [Next]_vars => NoGhostSession'
<1> SUFFICES ASSUME TypeOK, NoGhostSession, [Next]_vars PROVE NoGhostSession'
  OBVIOUS
<1> USE DEF TypeOK, NoGhostSession, Goto, Bucket, reject_registration
<1>1. ASSUME NEW c \in Conns, Environment(c) PROVE NoGhostSession'
  BY <1>1 DEF Environment, Accept, Ignore, PeerEnd, ConnClosed
<1>2. ASSUME NEW c \in Conns, Pipeline(c) PROVE NoGhostSession'
  <2>1. ASSUME NEW b \in Backends, Establish(c, b) PROVE NoGhostSession'
    BY <2>1 DEF Establish
  <2>2. CASE EstablishFail(c) \/ RejectVersion(c) \/ Admit(c)
    BY <2>2 DEF EstablishFail, RejectVersion, Admit
  <2>3. CASE Register(c) \/ Recheck(c)
    BY <2>3 DEF Register, Recheck
  <2>4. CASE AckSent(c) \/ AckFailed(c) \/ LoopEnd(c) \/ DrainEnd(c)
    BY <2>4 DEF AckSent, AckFailed, LoopEnd, DrainEnd
  <2>5. CASE Deregister(c)
    BY <2>5 DEF Deregister, Retain, Leave
  <2>6. CASE DropBucket(c)
    BY <2>6 DEF DropBucket, RemoveBucket, Leave
  <2> QED
    BY <1>2, <2>1, <2>2, <2>3, <2>4, <2>5, <2>6 DEF Pipeline
<1>3. ASSUME NEW r \in Requests, Request(r) PROVE NoGhostSession'
  BY <1>3 DEF Request, AcquireClosed, Evict, Retain, EvictBucket, RemoveBucket
<1>4. ASSUME NEW denied \in Denylists, Publish(denied) PROVE NoGhostSession'
  BY <1>4 DEF Publish
<1>5. CASE Sweep
  BY <1>5 DEF Sweep, SweepStart, SweepBucket, SweepRetain
<1>6. CASE Cancel \/ Stop
  BY <1>6 DEF Cancel, Stop, ListenerStop, ShutdownNotify, ShutdownClear
<1>7. CASE UNCHANGED vars
  BY <1>7 DEF vars
<1> QED
  BY <1>1, <1>2, <1>3, <1>4, <1>5, <1>6, <1>7 DEF Next

\* Whatever the registry or the control-peer map holds belongs to a task that
\* has still to run deregister: nothing stays routable after its task ended.
THEOREM NoGhost == Spec => []NoGhostSession
<1>1. Init => NoGhostSession
  BY DEF Init, NoGhostSession
<1> QED
  BY <1>1, TypeCorrect, GhostStep, PTL DEF Spec

-----------------------------------------------------------------------------
(* Revocation.                                                             *)

\* The re-check after register and the sweep between them miss no session.
\* NoGhostSession is the strengthening: without it a Register frame could
\* rename a session that is already filed.
LEMMA RevokedStep ==
    TypeOK /\ NoGhostSession /\ RevokedIsOwed /\ [Next]_vars => RevokedIsOwed'
<1> SUFFICES ASSUME TypeOK, NoGhostSession, RevokedIsOwed, [Next]_vars
             PROVE  RevokedIsOwed'
  OBVIOUS
<1> USE DEF TypeOK, RevokedIsOwed, is_revoked, Goto, Bucket, reject_registration
<1>1. ASSUME NEW c \in Conns, Environment(c) PROVE RevokedIsOwed'
  BY <1>1 DEF Environment, Accept, Ignore, PeerEnd, ConnClosed, NoGhostSession
<1>2. ASSUME NEW c \in Conns, Pipeline(c) PROVE RevokedIsOwed'
  <2>1. ASSUME NEW b \in Backends, Establish(c, b) PROVE RevokedIsOwed'
    BY <2>1 DEF Establish, NoGhostSession
  <2>2. CASE EstablishFail(c) \/ RejectVersion(c) \/ Admit(c)
    BY <2>2 DEF EstablishFail, RejectVersion, Admit
  <2>3. CASE Register(c) \/ Recheck(c)
    BY <2>3 DEF Register, Recheck
  <2>4. CASE AckSent(c) \/ AckFailed(c) \/ LoopEnd(c) \/ DrainEnd(c)
    BY <2>4 DEF AckSent, AckFailed, LoopEnd, DrainEnd
  <2>5. CASE Deregister(c)
    BY <2>5 DEF Deregister, Retain, Leave
  <2>6. CASE DropBucket(c)
    BY <2>6 DEF DropBucket, RemoveBucket, Leave
  <2> QED
    BY <1>2, <2>1, <2>2, <2>3, <2>4, <2>5, <2>6 DEF Pipeline
<1>3. ASSUME NEW r \in Requests, Request(r) PROVE RevokedIsOwed'
  BY <1>3 DEF Request, AcquireClosed, Evict, Retain, EvictBucket, RemoveBucket
<1>4. ASSUME NEW denied \in Denylists, Publish(denied) PROVE RevokedIsOwed'
  BY <1>4 DEF Publish
<1>5. CASE Sweep
  <2>1. CASE SweepStart
    BY <2>1 DEF SweepStart
  <2>2. ASSUME NEW b \in Backends, SweepBucket(b) PROVE RevokedIsOwed'
    BY <2>2 DEF SweepBucket
  <2>3. CASE SweepRetain
    BY <2>3 DEF SweepRetain
  <2> QED
    BY <1>5, <2>1, <2>2, <2>3 DEF Sweep
<1>6. CASE Cancel \/ Stop
  BY <1>6 DEF Cancel, Stop, ListenerStop, ShutdownNotify, ShutdownClear
<1>7. CASE UNCHANGED vars
  BY <1>7 DEF vars
<1> QED
  BY <1>1, <1>2, <1>3, <1>4, <1>5, <1>6, <1>7 DEF Next

\* A session the published denylist denies is never overlooked: the sweep or
\* its own task has still to deal with it.
THEOREM RevocationComplete == Spec => []RevokedIsOwed
<1>1. Init => RevokedIsOwed
  BY DEF Init, RevokedIsOwed
<1> QED
  BY <1>1, TypeCorrect, NoGhost, RevokedStep, PTL DEF Spec


-----------------------------------------------------------------------------
(* The two caps.                                                           *)

Committing == {c \in Conns : pc[c] = "commit"}

\* A task holds its permit from before the cap check until after the push.
PermitHeld ==
    \A c \in Conns : pc[c] \in {"establish", "admit", "commit"} => c \in pending

\* SoftCapOvershoot with what makes it inductive, the permits held.
SoftCapInv ==
    /\ PermitHeld
    /\ Cardinality(registered) + Cardinality(Committing) < MaxTotal + PendingCap

\* Every step keeps the permit of a registration that is under way.
LEMMA PermitStep ==
    TypeOK /\ PermitHeld /\ [Next]_vars => PermitHeld'
<1> SUFFICES ASSUME TypeOK, PermitHeld, [Next]_vars PROVE PermitHeld'
  OBVIOUS
<1> USE DEF TypeOK, PermitHeld, Goto, reject_registration
<1>1. ASSUME NEW c \in Conns, Environment(c) PROVE PermitHeld'
  BY <1>1 DEF Environment, Accept, Ignore, PeerEnd, ConnClosed
<1>2. ASSUME NEW c \in Conns, Pipeline(c) PROVE PermitHeld'
  <2>1. CASE (\E b \in Backends : Establish(c, b)) \/ EstablishFail(c) \/ RejectVersion(c)
    BY <2>1 DEF Establish, EstablishFail, RejectVersion
  <2>2. CASE Admit(c) \/ Register(c) \/ Recheck(c)
    BY <2>2 DEF Admit, Register, Recheck
  <2>3. CASE AckSent(c) \/ AckFailed(c) \/ LoopEnd(c) \/ DrainEnd(c)
    BY <2>3 DEF AckSent, AckFailed, LoopEnd, DrainEnd
  <2>4. CASE Deregister(c) \/ DropBucket(c)
    BY <2>4 DEF Deregister, DropBucket, Leave
  <2> QED
    BY <1>2, <2>1, <2>2, <2>3, <2>4 DEF Pipeline
<1>3. CASE UNCHANGED <<pc, pending>>
  BY <1>3
<1>4. ASSUME NEW r \in Requests, Request(r) PROVE UNCHANGED <<pc, pending>>
  BY <1>4 DEF Request, AcquireClosed, Evict, EvictBucket
<1>5. CASE Sweep
  BY <1>3, <1>5 DEF Sweep, SweepStart, SweepBucket, SweepRetain
<1>6. CASE Cancel \/ Stop \/ \E denied \in Denylists : Publish(denied)
  BY <1>3, <1>6 DEF Cancel, Stop, ListenerStop, ShutdownNotify, ShutdownClear, Publish
<1> QED
  BY <1>1, <1>2, <1>3, <1>4, <1>5, <1>6 DEF Next, vars

\* Only Admit adds to the admitted-or-registered count, and it adds one task
\* that holds a permit while fewer than MaxTotal sessions are registered.
LEMMA SoftCapStep ==
    TypeOK /\ NoGhostSession /\ SoftCapInv /\ [Next]_vars => SoftCapInv'
<1> SUFFICES ASSUME TypeOK, NoGhostSession, SoftCapInv, [Next]_vars
             PROVE  Cardinality(registered') + Cardinality(Committing') < MaxTotal + PendingCap
  BY PermitStep DEF SoftCapInv
<1>0. /\ registered \in SUBSET Conns /\ Committing \in SUBSET Conns
      /\ Cardinality(registered) \in Nat /\ Cardinality(Committing) \in Nat
  BY ConnSubsets DEF TypeOK, Committing
<1>t. TypeOK'
  BY TypeStep
<1>a. ASSUME registered' \subseteq registered, Committing' \subseteq Committing
      PROVE  Cardinality(registered') + Cardinality(Committing') < MaxTotal + PendingCap
  <2>1. /\ Cardinality(registered') \in Nat /\ Cardinality(registered') <= Cardinality(registered)
    BY <1>0, <1>a, ConnSubsets
  <2>2. /\ Cardinality(Committing') \in Nat /\ Cardinality(Committing') <= Cardinality(Committing)
    BY <1>0, <1>a, ConnSubsets
  <2> QED
    BY <1>0, <2>1, <2>2, ConstantsAssumption DEF SoftCapInv
<1> USE DEF Goto, reject_registration
<1>1. ASSUME NEW c \in Conns, Admit(c), Admissible(c)
      PROVE  Cardinality(registered') + Cardinality(Committing') < MaxTotal + PendingCap
  <2>1. registered' = registered /\ Cardinality(registered) < MaxTotal
    BY <1>0, <1>1, ConstantsAssumption DEF Admit, Admissible, exceeds_session_cap
  <2>2. Committing' \in SUBSET pending
    <3>1. Committing' \subseteq Committing \cup {c} /\ pc[c] = "admit"
      BY <1>1 DEF Admit, Committing, TypeOK
    <3> QED
      BY <3>1 DEF SoftCapInv, PermitHeld, Committing
  <2>3. /\ Cardinality(Committing') <= Cardinality(pending)
        /\ Cardinality(pending) \in Nat /\ Cardinality(Committing') \in Nat
    BY <2>2, ConnSubsets DEF TypeOK
  <2> QED
    BY <1>0, <2>1, <2>3, ConstantsAssumption DEF TypeOK
<1>2. ASSUME NEW c \in Conns, Register(c), c \in registered'
      PROVE  Cardinality(registered') + Cardinality(Committing') < MaxTotal + PendingCap
  <2>1. /\ pc[c] = "commit" /\ c \notin registered
        /\ registered' = registered \cup {c} /\ pc' = [pc EXCEPT ![c] = "pushed"]
    BY <1>2 DEF Register, NoGhostSession
  <2>2. Committing = Committing' \cup {c} /\ c \notin Committing' /\ Committing' \in SUBSET Conns
    BY <2>1 DEF Committing, TypeOK
  <2>3. Cardinality(registered') = Cardinality(registered) + 1
    BY <1>0, <2>1, ConnAdd
  <2>4. Cardinality(Committing) = Cardinality(Committing') + 1 /\ Cardinality(Committing') \in Nat
    BY <2>2, ConnAdd, ConnSubsets
  <2> QED
    BY <1>0, <2>3, <2>4, ConstantsAssumption DEF SoftCapInv
<1>3. ASSUME NEW c \in Conns, Pipeline(c)
      PROVE  Cardinality(registered') + Cardinality(Committing') < MaxTotal + PendingCap
  <2>1. CASE (\E b \in Backends : Establish(c, b)) \/ EstablishFail(c) \/ RejectVersion(c)
    BY <1>a, <2>1 DEF Establish, EstablishFail, RejectVersion, Committing, TypeOK
  <2>2. CASE Admit(c) /\ ~Admissible(c)
    BY <1>a, <2>2 DEF Admit, Committing, TypeOK
  <2>3. CASE Register(c) /\ c \notin registered'
    BY <1>a, <2>3 DEF Register, Committing, TypeOK
  <2>4. CASE Recheck(c) \/ AckSent(c) \/ AckFailed(c) \/ LoopEnd(c) \/ DrainEnd(c)
    BY <1>a, <2>4 DEF Recheck, AckSent, AckFailed, LoopEnd, DrainEnd, Committing, TypeOK
  <2>5. CASE Deregister(c) \/ DropBucket(c)
    BY <1>a, <2>5 DEF Deregister, DropBucket, Retain, RemoveBucket, Leave, Committing, TypeOK
  <2> QED
    BY <1>1, <1>2, <1>3, <2>1, <2>2, <2>3, <2>4, <2>5 DEF Pipeline
<1>4. ASSUME NEW c \in Conns, Environment(c)
      PROVE  Cardinality(registered') + Cardinality(Committing') < MaxTotal + PendingCap
  BY <1>4, <1>a DEF Environment, Accept, Ignore, PeerEnd, ConnClosed, Committing, TypeOK
<1>5. ASSUME NEW r \in Requests, Request(r)
      PROVE  Cardinality(registered') + Cardinality(Committing') < MaxTotal + PendingCap
  BY <1>5, <1>a DEF Request, AcquireClosed, Evict, Retain, EvictBucket, RemoveBucket, Committing
<1>6. CASE Sweep \/ Cancel \/ Stop \/ \E denied \in Denylists : Publish(denied)
  BY <1>6, <1>a DEF Sweep, SweepStart, SweepBucket, SweepRetain, Cancel, Stop, ListenerStop,
     ShutdownNotify, ShutdownClear, Publish, Committing
<1>7. CASE UNCHANGED vars
  BY <1>7, <1>a DEF vars, Committing
<1> QED
  BY <1>3, <1>4, <1>5, <1>6, <1>7 DEF Next

\* However many registrations race, the soft global cap is exceeded by less
\* than the pre-registration budget.
THEOREM SoftCapBounded == Spec => []SoftCapOvershoot
<1>1. Init => SoftCapInv
  <2> SUFFICES ASSUME Init PROVE SoftCapInv
    OBVIOUS
  <2>1. registered = {} /\ Committing = {} /\ PermitHeld
    BY DEF Init, Committing, PermitHeld
  <2>2. Cardinality({}) = 0
    BY FS_EmptySet
  <2> QED
    BY <2>1, <2>2, ConstantsAssumption DEF SoftCapInv
<1>2. SoftCapInv => SoftCapOvershoot
  BY DEF SoftCapInv, SoftCapOvershoot, Committing
<1> QED
  BY <1>1, <1>2, TypeCorrect, NoGhost, SoftCapStep, PTL DEF Spec

\* The strengthening of HardBackendCap: the name binding holds from the
\* admission gate on, so also for what Register is about to file.
HardCapInv ==
    /\ \A c \in Conns : (pc[c] = "commit" \/ c \in registered) => claim[c] = Cn[c]
    /\ \A b \in Backends : Cardinality(Bucket(b)) <= MaxPerBackend

\* Every step keeps a bucket's sessions within the cap, which commit checks under the lock.
LEMMA HardCapStep ==
    TypeOK /\ NoGhostSession /\ HardCapInv /\ [Next]_vars => HardCapInv'
<1> SUFFICES ASSUME TypeOK, NoGhostSession, HardCapInv, [Next]_vars PROVE HardCapInv'
  OBVIOUS
<1>0. ASSUME NEW b \in Backends
      PROVE  Bucket(b) \in SUBSET Conns /\ Cardinality(Bucket(b)) \in Nat
  BY ConnSubsets DEF Bucket, TypeOK
<1>a. ASSUME registered' \subseteq registered, \A c \in registered' : claim'[c] = claim[c],
             \A c \in Conns : pc'[c] = "commit" => claim'[c] = Cn[c]
      PROVE  HardCapInv'
  <2>1. ASSUME NEW b \in Backends PROVE Cardinality(Bucket(b)') <= MaxPerBackend
    <3>1. Bucket(b)' \in SUBSET Bucket(b)
      BY <1>a DEF Bucket
    <3>2. Cardinality(Bucket(b)') <= Cardinality(Bucket(b)) /\ Cardinality(Bucket(b)') \in Nat
      BY <1>0, <3>1, ConnSubsets
    <3> QED
      BY <1>0, <3>2, ConstantsAssumption DEF HardCapInv
  <2>2. \A c \in Conns : (pc'[c] = "commit" \/ c \in registered') => claim'[c] = Cn[c]
    BY <1>a DEF HardCapInv
  <2> QED
    BY <2>1, <2>2 DEF HardCapInv
<1> USE DEF Goto, reject_registration
<1>1. ASSUME NEW c \in Conns, Register(c), c \in registered' PROVE HardCapInv'
  <2>1. /\ pc[c] = "commit" /\ claim' = claim /\ registered' = registered \cup {c}
        /\ Cardinality(Bucket(claim[c])) < MaxPerBackend /\ pc' = [pc EXCEPT ![c] = "pushed"]
    BY <1>1 DEF Register, NoGhostSession
  <2>2. ASSUME NEW b \in Backends PROVE Cardinality(Bucket(b)') <= MaxPerBackend
    <3>1. CASE b = claim[c]
      <4>1. Bucket(b)' = Bucket(b) \cup {c}
        BY <2>1, <3>1 DEF Bucket
      <4>2. Cardinality(Bucket(b)') <= Cardinality(Bucket(b)) + 1
        BY <1>0, <4>1, ConnAdd
      <4>3. Cardinality(Bucket(b)') \in Nat
        BY <1>0, <4>1, ConnSubsets
      <4> QED
        BY <1>0, <2>1, <3>1, <4>2, <4>3, ConstantsAssumption
    <3>2. CASE b # claim[c]
      BY <2>1, <3>2 DEF Bucket, HardCapInv
    <3> QED
      BY <3>1, <3>2
  <2>3. \A d \in Conns : (pc'[d] = "commit" \/ d \in registered') => claim'[d] = Cn[d]
    BY <2>1 DEF HardCapInv, TypeOK
  <2> QED
    BY <2>2, <2>3 DEF HardCapInv
<1>2. ASSUME NEW c \in Conns, Pipeline(c) PROVE HardCapInv'
  <2>1. ASSUME NEW b \in Backends, Establish(c, b) PROVE HardCapInv'
    BY <1>a, <2>1 DEF Establish, NoGhostSession, HardCapInv, TypeOK
  <2>2. CASE EstablishFail(c) \/ RejectVersion(c) \/ DrainEnd(c)
    BY <1>a, <2>2 DEF EstablishFail, RejectVersion, DrainEnd, HardCapInv, TypeOK
  <2>3. CASE Admit(c)
    BY <1>a, <2>3 DEF Admit, Admissible, HardCapInv, TypeOK
  <2>4. CASE Register(c) /\ c \notin registered'
    BY <1>a, <2>4 DEF Register, HardCapInv, TypeOK
  <2>5. CASE Recheck(c) \/ AckSent(c) \/ AckFailed(c) \/ LoopEnd(c)
    BY <1>a, <2>5 DEF Recheck, AckSent, AckFailed, LoopEnd, HardCapInv, TypeOK
  <2>6. CASE Deregister(c) \/ DropBucket(c)
    BY <1>a, <2>6 DEF Deregister, DropBucket, Retain, RemoveBucket, Leave, HardCapInv, TypeOK
  <2> QED
    BY <1>1, <1>2, <2>1, <2>2, <2>3, <2>4, <2>5, <2>6 DEF Pipeline
<1>3. ASSUME NEW c \in Conns, Environment(c) PROVE HardCapInv'
  BY <1>3, <1>a DEF Environment, Accept, Ignore, PeerEnd, ConnClosed, HardCapInv, TypeOK
<1>4. ASSUME NEW r \in Requests, Request(r) PROVE HardCapInv'
  BY <1>4, <1>a DEF Request, AcquireClosed, Evict, Retain, EvictBucket, RemoveBucket, HardCapInv
<1>5. CASE Sweep \/ Cancel \/ Stop \/ \E denied \in Denylists : Publish(denied)
  BY <1>5, <1>a DEF Sweep, SweepStart, SweepBucket, SweepRetain, Cancel, Stop, ListenerStop,
     ShutdownNotify, ShutdownClear, Publish, HardCapInv
<1>6. CASE UNCHANGED vars
  BY <1>6, <1>a DEF vars, HardCapInv
<1> QED
  BY <1>2, <1>3, <1>4, <1>5, <1>6 DEF Next

\* The per-backend cap is a hard bound under every interleaving, and a session
\* is only ever filed under the name its certificate proves.
THEOREM HardCapHolds == Spec => []HardBackendCap
<1>1. Init => HardCapInv
  <2> SUFFICES ASSUME Init PROVE HardCapInv
    OBVIOUS
  <2>1. \A b \in Backends : Bucket(b) = {}
    BY DEF Init, Bucket
  <2>2. Cardinality({}) = 0
    BY FS_EmptySet
  <2>3. ASSUME NEW b \in Backends PROVE Cardinality(Bucket(b)) <= MaxPerBackend
    <3>1. Bucket(b) = {}
      BY <2>1
    <3>2. Cardinality(Bucket(b)) = 0
      BY <3>1, <2>2, Zenon
    <3> QED
      BY <3>2, ConstantsAssumption
  <2>4. \A c \in Conns : pc[c] # "commit" /\ c \notin registered
    BY DEF Init
  <2> QED
    BY <2>3, <2>4, Zenon DEF HardCapInv
<1>2. TypeOK /\ HardCapInv => HardBackendCap
  BY DEF TypeOK, HardCapInv, HardBackendCap
<1> QED
  BY <1>1, <1>2, TypeCorrect, NoGhost, HardCapStep, PTL DEF Spec

=============================================================================
