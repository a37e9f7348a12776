------------------------------ MODULE WakePark ------------------------------
(***************************************************************************)
(* The park of a request for a cold backend: what happens between the      *)
(* "park" and the release of a request in RequestPath                      *)
(* (src/src/proxy/handler/attempt/wake.rs and the wake half of             *)
(* src/src/tunnel/registry.rs).                                            *)
(*                                                                         *)
(* A parked request races two futures in a select!: one waits for the      *)
(* backend to be reachable, the other for the control plane to refuse the  *)
(* wake.  Both wait on the backend's one Notify, which register and        *)
(* note_refusal signal only after they changed the state the waiters look  *)
(* at.  A step is one of a future's, or one of the calls'; tasks on other  *)
(* threads come between any two.                                           *)
(***************************************************************************)

CONSTANTS
    Waiters,    \* requests that meet a cold backend
    Backends    \* wakeable backends

VARIABLES
    tunnelled,  \* backends reached by a tunnel session; the others by TCP connect
    target,     \* the backend each request is parked for
    pc,         \* where the request stands
    reach,      \* its future backend_became_reachable
    refusal,    \* its future await_refusal
    expired,    \* requests whose wake deadline has passed
    up,         \* backends that have a session, or accept TCP connections
    refused,    \* registry.refused
    notifying,  \* <<backend, cause>>: notify_waiters calls still to be made
    asked       \* requests whose Wake reached the control plane

config == <<tunnelled, target>>
wakeVars == <<tunnelled, target, pc, reach, refusal, expired, up, refused, notifying, asked>>
futures == <<reach, refusal>>

\* A future waiting on the Notify: "arm" before it calls notified(), "check"
\* with that future made and the state still to be looked at ("signalled" if
\* notify_waiters came meanwhile), "absent" once it has looked in vain, "wait"
\* while it pends and "ready" when the signal has come.
NotifySteps == {"arm", "check", "signalled", "absent", "wait", "ready"}
\* A future waiting for a TCP connect: trying, or sleeping before the next try.
ProbeSteps == {"probe", "sleep"}
Causes == {"session", "refusal"}

WakeTypeOK ==
    /\ tunnelled \in SUBSET Backends
    /\ target \in [Waiters -> Backends]
    /\ pc \in [Waiters -> {"idle", "dispatch", "parked", "released", "rejected", "dropped"}]
    /\ reach \in [Waiters -> NotifySteps \cup ProbeSteps]
    /\ \A w \in Waiters :
         IF target[w] \in tunnelled THEN reach[w] \in NotifySteps ELSE reach[w] \in ProbeSteps
    /\ refusal \in [Waiters -> NotifySteps]
    /\ expired \subseteq Waiters
    /\ up \subseteq Backends
    /\ refused \subseteq Backends
    /\ notifying \subseteq Backends \X Causes
    /\ asked \subseteq Waiters

\* The first step of backend_became_reachable.
Start(w) == IF target[w] \in tunnelled THEN "arm" ELSE "probe"

WakeInit ==
    /\ tunnelled \in SUBSET Backends
    /\ target \in [Waiters -> Backends]
    /\ pc = [w \in Waiters |-> "idle"]
    /\ reach = [w \in Waiters |-> Start(w)]
    /\ refusal = [w \in Waiters |-> "arm"]
    /\ expired = {}
    /\ up = {}
    /\ refused = {}
    /\ notifying = {}
    /\ asked = {}

-----------------------------------------------------------------------------
(* The parked request: park_for_wake and await_reachable_or_refused.       *)

\* A transport miss; the deadline runs from here.
Park(w) ==
    /\ pc[w] = "idle"
    /\ pc' = [pc EXCEPT ![w] = "dispatch"]
    /\ UNCHANGED <<config, futures, expired, up, refused, notifying, asked>>

\* dispatch_wake, best effort: the control plane may have no peer, or miss it.
Dispatch(w, delivered) ==
    /\ pc[w] = "dispatch"
    /\ pc' = [pc EXCEPT ![w] = "parked"]
    /\ asked' = IF delivered THEN asked \cup {w} ELSE asked
    /\ UNCHANGED <<config, futures, expired, up, refused, notifying>>

\* One branch of the select! is ready: the other future is dropped with it.
Unpark(w, outcome) ==
    /\ pc' = [pc EXCEPT ![w] = outcome]
    /\ reach' = [reach EXCEPT ![w] = Start(w)]
    /\ refusal' = [refusal EXCEPT ![w] = "arm"]
    /\ expired' = expired \ {w}

\* wait_for_session: notified() is called before the registry is looked at.
ArmSession(w) ==
    /\ pc[w] = "parked"
    /\ reach[w] \in {"arm", "ready"}
    /\ reach' = [reach EXCEPT ![w] = "check"]
    /\ UNCHANGED <<config, pc, refusal, expired, up, refused, notifying, asked>>

CheckSession(w) ==
    /\ pc[w] = "parked"
    /\ reach[w] \in {"check", "signalled"}
    /\ \/ /\ target[w] \in up
          /\ Unpark(w, "released")
       \/ /\ target[w] \notin up
          /\ reach' = [reach EXCEPT ![w] = IF @ = "signalled" THEN "ready" ELSE "absent"]
          /\ UNCHANGED <<pc, refusal, expired>>
    /\ UNCHANGED <<config, up, refused, notifying, asked>>

AwaitSession(w) ==
    /\ pc[w] = "parked"
    /\ reach[w] = "absent"
    /\ reach' = [reach EXCEPT ![w] = "wait"]
    /\ UNCHANGED <<config, pc, refusal, expired, up, refused, notifying, asked>>

\* sleep_until(deadline) is the other branch of wait_for_session's select!,
\* which may be polled first also when the signal has come.
SessionDeadline(w) ==
    /\ pc[w] = "parked"
    /\ reach[w] \in {"wait", "ready"}
    /\ w \in expired
    /\ Unpark(w, "rejected")
    /\ UNCHANGED <<config, up, refused, notifying, asked>>

\* Mutant of Probe: the deadline is not looked at between two connects.
ProbeForever(w) ==
    /\ pc[w] = "parked"
    /\ reach[w] = "probe"
    /\ \/ /\ target[w] \in up
          /\ Unpark(w, "released")
       \/ /\ target[w] \notin up
          /\ reach' = [reach EXCEPT ![w] = "sleep"]
          /\ UNCHANGED <<pc, refusal, expired>>
    /\ UNCHANGED <<config, up, refused, notifying, asked>>

\* wait_for_reachable_tcp: connect; failing that, give up past the deadline or
\* sleep for the probe interval.
Probe(w) ==
    /\ pc[w] = "parked"
    /\ reach[w] = "probe"
    /\ \/ /\ target[w] \in up
          /\ Unpark(w, "released")
       \/ /\ target[w] \notin up
          /\ w \in expired
          /\ Unpark(w, "rejected")
       \/ /\ target[w] \notin up
          /\ w \notin expired
          /\ reach' = [reach EXCEPT ![w] = "sleep"]
          /\ UNCHANGED <<pc, refusal, expired>>
    /\ UNCHANGED <<config, up, refused, notifying, asked>>

ProbeAgain(w) ==
    /\ pc[w] = "parked"
    /\ reach[w] = "sleep"
    /\ reach' = [reach EXCEPT ![w] = "probe"]
    /\ UNCHANGED <<config, pc, refusal, expired, up, refused, notifying, asked>>

\* await_refusal: as wait_for_session, on the refusal entry and with no deadline.
ArmRefusal(w) ==
    /\ pc[w] = "parked"
    /\ refusal[w] \in {"arm", "ready"}
    /\ refusal' = [refusal EXCEPT ![w] = "check"]
    /\ UNCHANGED <<config, pc, reach, expired, up, refused, notifying, asked>>

\* take_refusal removes the entry: one waiter takes it.
CheckRefusal(w) ==
    /\ pc[w] = "parked"
    /\ refusal[w] \in {"check", "signalled"}
    /\ \/ /\ target[w] \in refused
          /\ refused' = refused \ {target[w]}
          /\ Unpark(w, "rejected")
       \/ /\ target[w] \notin refused
          /\ refusal' = [refusal EXCEPT ![w] = IF @ = "signalled" THEN "ready" ELSE "absent"]
          /\ UNCHANGED <<pc, reach, expired, refused>>
    /\ UNCHANGED <<config, up, notifying, asked>>

AwaitRefusal(w) ==
    /\ pc[w] = "parked"
    /\ refusal[w] = "absent"
    /\ refusal' = [refusal EXCEPT ![w] = "wait"]
    /\ UNCHANGED <<config, pc, reach, expired, up, refused, notifying, asked>>

\* The client goes away; both futures are dropped.
Disconnect(w) ==
    /\ pc[w] \in {"dispatch", "parked"}
    /\ Unpark(w, "dropped")
    /\ UNCHANGED <<config, up, refused, notifying, asked>>

\* The wake deadline passes.
Expire(w) ==
    /\ pc[w] \in {"dispatch", "parked"}
    /\ w \notin expired
    /\ expired' = expired \cup {w}
    /\ UNCHANGED <<config, pc, futures, up, refused, notifying, asked>>

-----------------------------------------------------------------------------
(* The other side.                                                         *)

\* registry.register pushes a session and then calls notify_session_waiters; a
\* directly reached backend just starts to listen.
ComeUp(b) ==
    /\ b \notin up
    /\ up' = up \cup {b}
    /\ notifying' = IF b \in tunnelled THEN notifying \cup {<<b, "session">>} ELSE notifying
    /\ UNCHANGED <<config, pc, futures, expired, refused, asked>>

GoDown(b) ==
    /\ b \in up
    /\ up' = up \ {b}
    /\ UNCHANGED <<config, pc, futures, expired, refused, notifying, asked>>

\* note_refusal files the refusal and then calls notify_session_waiters.
note_refusal(w) ==
    /\ w \in asked
    /\ asked' = asked \ {w}
    /\ refused' = refused \cup {target[w]}
    /\ notifying' = notifying \cup {<<target[w], "refusal">>}
    /\ UNCHANGED <<config, pc, futures, expired, up>>

\* Mutant of Signal: the signal reaches only a future that already pends.
SignalAwaited(step) == IF step = "wait" THEN "ready" ELSE step

\* What notify_waiters does to a future: notified() counts from its creation.
Signal(step) ==
    CASE step = "check"              -> "signalled"
      [] step \in {"absent", "wait"} -> "ready"
      [] OTHER                       -> step

notify_session_waiters(b, cause) ==
    /\ <<b, cause>> \in notifying
    /\ notifying' = notifying \ {<<b, cause>>}
    /\ reach' = [w \in Waiters |->
                   IF pc[w] = "parked" /\ target[w] = b THEN Signal(reach[w]) ELSE reach[w]]
    /\ refusal' = [w \in Waiters |->
                   IF pc[w] = "parked" /\ target[w] = b THEN Signal(refusal[w]) ELSE refusal[w]]
    /\ UNCHANGED <<config, pc, expired, up, refused, asked>>

-----------------------------------------------------------------------------

\* One task runs both futures, so neither moves in the middle of the other's
\* step, from its notified() to its await.
Settled(step) == step \notin {"check", "signalled", "absent"}

PollReach(w) ==
    /\ Settled(refusal[w])
    /\ ArmSession(w) \/ CheckSession(w) \/ AwaitSession(w) \/ Probe(w) \/ ProbeAgain(w)

PollDeadline(w) == Settled(refusal[w]) /\ SessionDeadline(w)

PollRefusal(w) ==
    /\ Settled(reach[w])
    /\ ArmRefusal(w) \/ CheckRefusal(w) \/ AwaitRefusal(w)

Notify == \E b \in Backends, cause \in Causes : notify_session_waiters(b, cause)

WakeNext ==
    \/ \E w \in Waiters :
         \/ Park(w) \/ \E delivered \in BOOLEAN : Dispatch(w, delivered)
         \/ PollReach(w) \/ PollDeadline(w) \/ PollRefusal(w)
         \/ Disconnect(w) \/ Expire(w) \/ note_refusal(w)
    \/ \E b \in Backends : ComeUp(b) \/ GoDown(b)
    \/ Notify

WakeSpec == WakeInit /\ [][WakeNext]_wakeVars

\* A select! polls every branch each time its task runs, in random order: a
\* branch that can move again and again is not overtaken for ever by the other,
\* nor a passed deadline by signals.  The clock runs, and a register or
\* note_refusal that has begun gets to its signal.
WakeFairness ==
    /\ \A w \in Waiters :
        /\ WF_wakeVars(\E delivered \in BOOLEAN : Dispatch(w, delivered))
        /\ SF_wakeVars(PollReach(w))
        /\ SF_wakeVars(PollDeadline(w))
        /\ WF_wakeVars(PollRefusal(w))
        /\ WF_wakeVars(Expire(w))
    /\ WF_wakeVars(Notify)

WakeFairSpec == WakeSpec /\ WakeFairness

-----------------------------------------------------------------------------
(* Properties.                                                             *)

\* "Lost-wakeup-safe: the wakeup is armed before each presence check, so a
\* register racing the check still releases the waiter", and the same for a
\* refusal: a future pends on a condition that already holds only if the
\* signal for it is still to come.
NoLostWake ==
    \A w \in Waiters : pc[w] = "parked" =>
        /\ reach[w] \in {"absent", "wait"} /\ target[w] \in up => <<target[w], "session">> \in notifying
        /\ refusal[w] \in {"absent", "wait"} /\ target[w] \in refused => <<target[w], "refusal">> \in notifying

\* A parked request is always let go, by the deadline if by nothing else,
\* however often the backend comes and goes and the Notify is signalled.
ParkEnds ==
    \A w \in Waiters : (pc[w] = "parked") ~> (pc[w] # "parked")
=============================================================================
