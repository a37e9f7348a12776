--------------------------- MODULE WakeParkProofs ---------------------------
(***************************************************************************)
(* Theorems about WakePark, for any number of requests and backends.       *)
(***************************************************************************)
EXTENDS WakePark, TLAPS

\* The variables keep their types; a future waits the way its backend is reached.
THEOREM WakeTypeCorrect == WakeSpec => []WakeTypeOK
<1> USE DEF WakeTypeOK, NotifySteps, ProbeSteps, Causes, config, futures
<1>1. WakeInit => WakeTypeOK
  BY DEF WakeInit, Start
<1>2. WakeTypeOK /\ [WakeNext]_wakeVars => WakeTypeOK'
  <2> SUFFICES ASSUME WakeTypeOK, [WakeNext]_wakeVars PROVE WakeTypeOK'
    OBVIOUS
  <2>1. ASSUME NEW w \in Waiters,
               Park(w) \/ (\E delivered \in BOOLEAN : Dispatch(w, delivered))
                 \/ Disconnect(w) \/ Expire(w) \/ note_refusal(w)
        PROVE  WakeTypeOK'
    BY <2>1 DEF Park, Dispatch, Disconnect, Expire, note_refusal, Unpark, Start
  <2>2. ASSUME NEW w \in Waiters, PollReach(w)
        PROVE  WakeTypeOK'
    BY <2>2 DEF PollReach, ArmSession, CheckSession, AwaitSession, Probe, ProbeAgain,
                Unpark, Start
  <2>3. ASSUME NEW w \in Waiters, PollDeadline(w) \/ PollRefusal(w)
        PROVE  WakeTypeOK'
    BY <2>3 DEF PollDeadline, SessionDeadline, PollRefusal, ArmRefusal, CheckRefusal,
                AwaitRefusal, Unpark, Start
  <2>4. ASSUME NEW b \in Backends, ComeUp(b) \/ GoDown(b)
        PROVE  WakeTypeOK'
    BY <2>4 DEF ComeUp, GoDown, Start
  <2>5. CASE Notify
    BY <2>5 DEF Notify, notify_session_waiters, Signal, Start
  <2>6. CASE UNCHANGED wakeVars
    BY <2>6 DEF wakeVars, Start
  <2> QED
    BY <2>1, <2>2, <2>3, <2>4, <2>5, <2>6 DEF WakeNext
<1> QED
  BY <1>1, <1>2, PTL DEF WakeSpec

\* A request that is not parked has no future under way, so it starts to wait
\* by arming: with this NoLostWake is inductive.
WakeInv ==
    /\ NoLostWake
    /\ \A w \in Waiters : pc[w] # "parked" => reach[w] = Start(w) /\ refusal[w] = "arm"

\* No wake-up is lost: a parked request pends on its Notify while the backend is
\* up, or the wake refused, only if the signal for it is still to come.
THEOREM WakeNeverLost == WakeSpec => []NoLostWake
<1> USE DEF WakeTypeOK, NotifySteps, ProbeSteps, config, futures
<1>1. WakeInit => WakeInv
  BY DEF WakeInit, WakeInv, NoLostWake, Start
<1>2. WakeTypeOK /\ WakeInv /\ [WakeNext]_wakeVars => WakeInv'
  <2> USE DEF WakeInv, NoLostWake
  <2> SUFFICES ASSUME WakeTypeOK, WakeInv, [WakeNext]_wakeVars PROVE WakeInv'
    OBVIOUS
  <2>1. ASSUME NEW w \in Waiters,
               Park(w) \/ (\E delivered \in BOOLEAN : Dispatch(w, delivered))
                 \/ Disconnect(w) \/ Expire(w) \/ note_refusal(w)
        PROVE  WakeInv'
    BY <2>1 DEF Park, Dispatch, Disconnect, Expire, note_refusal, Unpark, Start
  <2>2. ASSUME NEW w \in Waiters, PollReach(w)
        PROVE  WakeInv'
    BY <2>2 DEF PollReach, ArmSession, CheckSession, AwaitSession, Probe, ProbeAgain,
                Unpark, Start
  <2>3. ASSUME NEW w \in Waiters, PollDeadline(w) \/ PollRefusal(w)
        PROVE  WakeInv'
    BY <2>3 DEF PollDeadline, SessionDeadline, PollRefusal, ArmRefusal, CheckRefusal,
                AwaitRefusal, Unpark, Start
  <2>4. ASSUME NEW b \in Backends, ComeUp(b) \/ GoDown(b)
        PROVE  WakeInv'
    BY <2>4 DEF ComeUp, GoDown, Start
  <2>5. CASE Notify
    BY <2>5 DEF Notify, notify_session_waiters, Signal, Start
  <2>6. CASE UNCHANGED wakeVars
    BY <2>6 DEF wakeVars, Start
  <2> QED
    BY <2>1, <2>2, <2>3, <2>4, <2>5, <2>6 DEF WakeNext
<1>3. WakeInv => NoLostWake
  BY DEF WakeInv
<1> QED
  BY <1>1, <1>2, <1>3, WakeTypeCorrect, PTL DEF WakeSpec

=============================================================================
