---------------------------- MODULE WakeRefusal ----------------------------
(***************************************************************************)
(* WakePark with the requests remembered that a refusal found parked.      *)
(***************************************************************************)
EXTENDS WakePark

VARIABLE heard  \* history: parked since before the last refusal for their backend

HeardInit == WakeInit /\ heard = {}

HeardNext ==
    /\ WakeNext
    /\ heard' = {w \in Waiters :
                   /\ pc'[w] = "parked"
                   /\ w \in heard \/ target[w] \in refused' \ refused}

HeardSpec == HeardInit /\ [][HeardNext]_<<wakeVars, heard>>

\* note_refusal: "Record a control peer's refusal to wake `backend_id`, and release
\* any parked waiter at once."  A request that was parked when the refusal was
\* filed does not go back to wait once its signal has been given.
RefusalReleases ==
    \A w \in heard : refusal[w] = "wait" => <<target[w], "refusal">> \in notifying

=============================================================================
