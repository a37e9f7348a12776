----------------------------- MODULE MCAttempt -----------------------------
(***************************************************************************)
(* What the attempts of several requests at one backend share: its circuit *)
(* breaker, and the Notify and the refusal entry on which they park for    *)
(* it.  The two meet only in RequestPath, which leaves the answers of both *)
(* free, so that one of them runs while the other is at rest.              *)
(***************************************************************************)
EXTENDS CircuitBreaker, WakePark

VARIABLE part

attemptVars == <<part, vars, wakeVars>>

AttemptInit ==
    /\ part \in {"breaker", "park"}
    /\ Init /\ WakeInit
    \* One initial state while nobody parks.
    /\ part = "breaker" => tunnelled = {}

AttemptNext ==
    /\ UNCHANGED part
    /\ \/ part = "breaker" /\ Next /\ UNCHANGED wakeVars
       \/ part = "park" /\ WakeNext /\ UNCHANGED vars

\* CircuitBreaker's fairness while it runs.  At rest no request is parked, and
\* nothing that WakeFairness asks for is enabled.
BreakerFairness ==
    /\ WF_vars(part = "breaker" /\ Elapse)
    /\ \A r \in Requests :
        WF_vars(part = "breaker" /\ Release(r)) /\ WF_vars(part = "breaker" /\ Check(r))

AttemptSpec == AttemptInit /\ [][AttemptNext]_attemptVars /\ BreakerFairness /\ WakeFairness
=============================================================================
