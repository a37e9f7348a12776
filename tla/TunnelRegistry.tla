--------------------------- MODULE TunnelRegistry ---------------------------
(***************************************************************************)
(* The reverse-tunnel registry and the tasks that share it                 *)
(* (src/src/tunnel/registry.rs, listener.rs, listener/registration.rs,     *)
(* and the revocation sweep of startup/background.rs).                     *)
(*                                                                         *)
(* One process per accepted QUIC connection runs the pipeline              *)
(*   establish -> admit -> commit -> control loop -> deregister,           *)
(* the revocation sweep visits the buckets of the registry one at a time,  *)
(* a request that picks a dead session evicts it, and the shutdown path    *)
(* notifies and clears.  A step is what the code does under one DashMap    *)
(* shard lock or between two awaits; the steps of different tasks          *)
(* interleave freely.                                                      *)
(*                                                                         *)
(* A connection carries at most one session, so a connection identifies    *)
(* its session.  The registry's map backend_id -> Vec<TunnelSession> is    *)
(* the set of registered connections grouped by the backend_id each one    *)
(* claimed; `present` holds the keys that have an entry, possibly empty.   *)
(***************************************************************************)
EXTENDS Naturals, FiniteSets

CONSTANTS
    Conns,          \* every connection the listener is offered
    Requests,       \* proxied requests that may pick a session
    Backends,       \* backend ids, which are also certificate common names
    Keys,           \* SPKI hashes
    Cn,             \* Cn[c]: common name proven by c's certificate
    Key,            \* Key[c]: SPKI hash of c's certificate
    ControlPeers,   \* connections that advertise CONTROL_CAPABILITY
    AllowedIds,     \* config.allowed_backend_ids, empty for "no allowlist"
    MaxPerBackend,  \* max_sessions_per_backend
    MaxTotal,       \* max_total_sessions; None is any value above |Conns|
    PendingCap,     \* MAX_CONCURRENT_PENDING_REGISTRATIONS
    DrainCap,       \* MAX_CONCURRENT_REJECT_DRAINS
    Denylists,      \* the denylists an operator may publish
    CanStop         \* whether the process may be told to shut down

ASSUME ConstantsAssumption ==
    /\ IsFiniteSet(Conns) /\ Conns # {}
    /\ Cn \in [Conns -> Backends]
    /\ Key \in [Conns -> Keys]
    /\ Backends \cap Keys = {}
    /\ ControlPeers \subseteq Conns
    /\ AllowedIds \subseteq Backends
    /\ MaxPerBackend \in Nat \ {0}
    /\ MaxTotal \in Nat \ {0}
    /\ PendingCap \in Nat \ {0}
    /\ DrainCap \in Nat
    /\ CanStop \in BOOLEAN
    /\ Denylists \subseteq SUBSET (Keys \cup Backends)

VARIABLES
    pc,           \* pc[c]: where connection c's task stands
    exit,         \* exit[c]: why c's task deregisters
    claim,        \* claim[c]: backend_id of c's Register frame
    closed,       \* connections whose QUIC connection is closed
    pending,      \* connections holding a pre-registration permit
    registered,   \* sessions in the registry
    present,      \* backend ids that have a bucket in the registry
    peers,        \* registry.control_peers
    frame,        \* connections with a Shutdown queued on control_tx
    revocation,   \* denylist published on the watch channel
    changed,      \* the sweep task has not yet seen the current denylist
    sweeping,     \* the sweep task holds the watch::Ref of the denylist
    todo,         \* buckets revoke_matching has yet to visit
    rpc,          \* rpc[r]: where request r stands in acquire_stream
    target,       \* target[r]: session request r is evicting
    listening,    \* the accept loop is running
    shutdown      \* progress of the process's shutdown

sessionVars == <<claim, closed, registered, present, peers, frame>>
sweepVars   == <<revocation, changed, sweeping, todo>>
requestVars == <<rpc, target>>
lifeVars    == <<listening, shutdown>>
vars == <<pc, exit, pending, sessionVars, sweepVars, requestVars, lifeVars>>

PcStates == {"idle", "establish", "admit", "commit", "pushed", "ack",
             "serving", "deregister", "dropBucket", "drain", "gone"}

TypeOK ==
    /\ pc \in [Conns -> PcStates]
    /\ exit \in [Conns -> {"none", "revoked", "ackFailed", "ended"}]
    /\ claim \in [Conns -> Backends]
    /\ closed \subseteq Conns
    /\ pending \subseteq Conns /\ Cardinality(pending) <= PendingCap
    /\ registered \subseteq Conns
    /\ present \subseteq Backends
    /\ peers \subseteq Conns
    /\ frame \subseteq Conns
    /\ revocation \subseteq (Keys \cup Backends)
    /\ changed \in BOOLEAN
    /\ sweeping \in BOOLEAN
    /\ todo \subseteq Backends
    /\ rpc \in [Requests -> {"idle", "evict", "dropBucket"}]
    /\ target \in [Requests -> Conns]
    /\ listening \in BOOLEAN
    /\ shutdown \in {"no", "cancelled", "notified", "cleared"}

Bucket(b) == {c \in registered : claim[c] = b}

\* The identity's key, or its device name, is on the published denylist.
is_revoked(c) == Key[c] \in revocation \/ Cn[c] \in revocation

exceeds_session_cap == Cardinality(registered) >= MaxTotal

NoConn == CHOOSE c \in Conns : TRUE

Goto(c, from, to) ==
    /\ pc[c] = from
    /\ pc' = [pc EXCEPT ![c] = to]

Init ==
    /\ pc = [c \in Conns |-> "idle"]
    /\ exit = [c \in Conns |-> "none"]
    /\ claim = Cn
    /\ closed = {}
    /\ pending = {}
    /\ registered = {}
    /\ present = {}
    /\ peers = {}
    /\ frame = {}
    /\ revocation \in Denylists
    /\ changed = FALSE
    /\ sweeping = FALSE
    /\ todo = {}
    /\ rpc = [r \in Requests |-> "idle"]
    /\ target = [r \in Requests |-> NoConn]
    /\ listening = TRUE
    /\ shutdown = "no"

-----------------------------------------------------------------------------
(* The accept loop: run_tunnel_listener_inner.                             *)

\* Mutant of Accept: no bound on the tasks before registration.
AcceptUnbounded(c) ==
    /\ listening
    /\ Goto(c, "idle", "establish")
    /\ pending' = pending \cup {c}
    /\ UNCHANGED <<exit, sessionVars, sweepVars, requestVars, lifeVars>>

\* A free pre-registration permit: the connection gets its own task.
Accept(c) ==
    /\ listening
    /\ Cardinality(pending) < PendingCap
    /\ Goto(c, "idle", "establish")
    /\ pending' = pending \cup {c}
    /\ UNCHANGED <<exit, sessionVars, sweepVars, requestVars, lifeVars>>

\* incoming.ignore(): the source is over its accept rate (any connection may
\* be), or no permit is free.
Ignore(c) ==
    /\ listening
    /\ Goto(c, "idle", "gone")
    /\ UNCHANGED <<exit, pending, sessionVars, sweepVars, requestVars, lifeVars>>

\* The loop sees the shutdown token: endpoint.close() closes every connection.
ListenerStop ==
    /\ listening
    /\ shutdown # "no"
    /\ listening' = FALSE
    /\ closed' = closed \cup {c \in Conns : pc[c] \notin {"idle", "gone"}}
    /\ UNCHANGED <<pc, exit, pending, claim, registered, present, peers, frame,
                   sweepVars, requestVars, shutdown>>

-----------------------------------------------------------------------------
(* The registration pipeline: handle_tunnel_connection.                    *)

\* The permit is dropped first; then a slot of the drain budget, if one is
\* free, keeps the connection up while the reason frame is delivered.
reject_registration(c) ==
    /\ pending' = pending \ {c}
    /\ pc' = [pc EXCEPT ![c] =
                IF Cardinality({d \in Conns : pc[d] = "drain"}) < DrainCap
                THEN "drain" ELSE "gone"]

DrainEnd(c) ==
    /\ Goto(c, "drain", "gone")
    /\ UNCHANGED <<exit, pending, sessionVars, sweepVars, requestVars, lifeVars>>

\* Mutant of Establish: the permit is released once the Register frame is read.
EstablishEarlyRelease(c, b) ==
    /\ c \notin closed
    /\ Goto(c, "establish", "admit")
    /\ claim' = [claim EXCEPT ![c] = b]
    /\ pending' = pending \ {c}
    /\ UNCHANGED <<exit, closed, registered, present, peers, frame,
                   sweepVars, requestVars, lifeVars>>

\* Handshake, preambles and the Register frame went through.
Establish(c, b) ==
    /\ c \notin closed
    /\ Goto(c, "establish", "admit")
    /\ claim' = [claim EXCEPT ![c] = b]
    /\ UNCHANGED <<exit, pending, closed, registered, present, peers, frame,
                   sweepVars, requestVars, lifeVars>>

\* A timeout, a transport error, no parseable identity or a frame other than
\* Register: the task returns, which drops the permit.
EstablishFail(c) ==
    /\ Goto(c, "establish", "gone")
    /\ pending' = pending \ {c}
    /\ UNCHANGED <<exit, sessionVars, sweepVars, requestVars, lifeVars>>

RejectVersion(c) ==
    /\ pc[c] = "establish"
    /\ reject_registration(c)
    /\ UNCHANGED <<exit, sessionVars, sweepVars, requestVars, lifeVars>>

\* The four gates of admit_registration, in the code's order: the CN binding,
\* the denylist, the allowlist, the soft global cap.
Admissible(c) ==
    /\ claim[c] = Cn[c]
    /\ ~is_revoked(c)
    /\ AllowedIds # {} => claim[c] \in AllowedIds
    /\ ~exceeds_session_cap

Admit(c) ==
    /\ pc[c] = "admit"
    /\ \/ /\ Admissible(c)
          /\ Goto(c, "admit", "commit")
          /\ UNCHANGED pending
       \/ /\ ~Admissible(c)
          /\ reject_registration(c)
    /\ UNCHANGED <<exit, sessionVars, sweepVars, requestVars, lifeVars>>

\* Mutant of Register: the cap admits one session too many.
RegisterOffByOne(c) ==
    /\ pc[c] = "commit"
    /\ present' = present \cup {claim[c]}
    /\ \/ /\ Cardinality(Bucket(claim[c])) <= MaxPerBackend
          /\ Goto(c, "commit", "pushed")
          /\ registered' = registered \cup {c}
          /\ UNCHANGED pending
       \/ /\ Cardinality(Bucket(claim[c])) > MaxPerBackend
          /\ reject_registration(c)
          /\ UNCHANGED registered
    /\ UNCHANGED <<exit, claim, closed, peers, frame, sweepVars, requestVars, lifeVars>>

\* registry.register under the bucket's lock: the cap check and the push.
Register(c) ==
    /\ pc[c] = "commit"
    /\ present' = present \cup {claim[c]}
    /\ \/ /\ Cardinality(Bucket(claim[c])) < MaxPerBackend
          /\ Goto(c, "commit", "pushed")
          /\ registered' = registered \cup {c}
          /\ UNCHANGED pending
       \/ /\ Cardinality(Bucket(claim[c])) >= MaxPerBackend
          /\ reject_registration(c)
          /\ UNCHANGED registered
    /\ UNCHANGED <<exit, claim, closed, peers, frame, sweepVars, requestVars, lifeVars>>

\* Mutant of Recheck: the denylist is looked at only before register.
RecheckSkipped(c) ==
    /\ peers' = peers \cup ({c} \cap ControlPeers)
    /\ Goto(c, "pushed", "ack")
    /\ UNCHANGED <<exit, pending, claim, closed, registered, present, frame,
                   sweepVars, requestVars, lifeVars>>

\* The lock released, register files the control peer; commit_registration
\* then looks at the denylist again.
Recheck(c) ==
    /\ peers' = peers \cup ({c} \cap ControlPeers)
    /\ \/ /\ is_revoked(c)
          /\ Goto(c, "pushed", "deregister")
          /\ exit' = [exit EXCEPT ![c] = "revoked"]
       \/ /\ ~is_revoked(c)
          /\ Goto(c, "pushed", "ack")
          /\ UNCHANGED exit
    /\ UNCHANGED <<pending, claim, closed, registered, present, frame,
                   sweepVars, requestVars, lifeVars>>

\* Mutant of AckSent: the permit is kept for the life of the session.
AckKeepsPermit(c) ==
    /\ c \notin closed
    /\ Goto(c, "ack", "serving")
    /\ UNCHANGED <<exit, pending, sessionVars, sweepVars, requestVars, lifeVars>>

\* RegisterAck written; only now is the permit released.
AckSent(c) ==
    /\ c \notin closed
    /\ Goto(c, "ack", "serving")
    /\ pending' = pending \ {c}
    /\ UNCHANGED <<exit, sessionVars, sweepVars, requestVars, lifeVars>>

\* Mutant of AckFailed: the registration is not rolled back.
AckFailedNoRollback(c) ==
    /\ Goto(c, "ack", "gone")
    /\ pending' = pending \ {c}
    /\ UNCHANGED <<exit, sessionVars, sweepVars, requestVars, lifeVars>>

AckFailed(c) ==
    /\ Goto(c, "ack", "deregister")
    /\ exit' = [exit EXCEPT ![c] = "ackFailed"]
    /\ UNCHANGED <<pending, sessionVars, sweepVars, requestVars, lifeVars>>

\* Mutant of LoopEnd: the loop watches only its outbound channel.
LoopEndOutboundOnly(c) ==
    /\ c \in frame \/ c \notin registered
    /\ Goto(c, "serving", "deregister")
    /\ exit' = [exit EXCEPT ![c] = "ended"]
    /\ UNCHANGED <<pending, sessionVars, sweepVars, requestVars, lifeVars>>

\* run_control_loop leaves on something the proxy itself did or saw: a queued
\* Shutdown, control_tx dropped with the session, a read error on a closed
\* connection, the shutdown token.
LoopEnd(c) ==
    /\ \/ c \in frame
       \/ c \notin registered
       \/ c \in closed
       \/ shutdown # "no"
    /\ Goto(c, "serving", "deregister")
    /\ exit' = [exit EXCEPT ![c] = "ended"]
    /\ UNCHANGED <<pending, sessionVars, sweepVars, requestVars, lifeVars>>

\* ... or on what the peer does: its Shutdown frame, heartbeats that stop,
\* an acknowledgement it does not read.
PeerEnd(c) ==
    /\ Goto(c, "serving", "deregister")
    /\ exit' = [exit EXCEPT ![c] = "ended"]
    /\ UNCHANGED <<pending, sessionVars, sweepVars, requestVars, lifeVars>>

\* deregister(backend_id, session): forget the control peer, then retain the
\* other sessions under the bucket's lock ...
Retain(c) ==
    /\ peers' = peers \ {c}
    /\ registered' = registered \ {c}

\* ... and, if that left the bucket empty, with the lock released ...
Emptied(c) == claim[c] \in present /\ Bucket(claim[c]) \subseteq {c}

\* ... sessions.remove(backend_id): whatever the bucket holds by now goes too.
RemoveBucket(b) ==
    /\ present' = present \ {b}
    /\ registered' = registered \ Bucket(b)

\* What the task does after it deregistered: a revoked registration is rejected
\* with a reason, the others just return.  The control channel and the
\* connection handle go with the task.
Leave(c) ==
    /\ \/ exit[c] = "revoked" /\ reject_registration(c)
       \/ /\ exit[c] # "revoked"
          /\ pc' = [pc EXCEPT ![c] = "gone"]
          /\ pending' = pending \ {c}
    /\ exit' = [exit EXCEPT ![c] = "none"]
    /\ frame' = frame \ {c}
    /\ closed' = closed \ {c}

Deregister(c) ==
    /\ pc[c] = "deregister"
    /\ Retain(c)
    /\ \/ /\ Emptied(c)
          /\ Goto(c, "deregister", "dropBucket")
          /\ UNCHANGED <<exit, pending, frame, closed>>
       \/ /\ ~Emptied(c)
          /\ Leave(c)
    /\ UNCHANGED <<claim, present, sweepVars, requestVars, lifeVars>>

DropBucket(c) ==
    /\ pc[c] = "dropBucket"
    /\ RemoveBucket(claim[c])
    /\ Leave(c)
    /\ UNCHANGED <<claim, peers, sweepVars, requestVars, lifeVars>>

\* The peer, or QUIC's idle timeout, closes a registered connection.  Earlier
\* than that a close shows as one of the pipeline's own failures.
ConnClosed(c) ==
    /\ c \in registered
    /\ c \notin closed
    /\ closed' = closed \cup {c}
    /\ UNCHANGED <<pc, exit, pending, claim, registered, present, peers, frame,
                   sweepVars, requestVars, lifeVars>>

-----------------------------------------------------------------------------
(* acquire_stream: a request whose round-robin pick is a closed connection *)
(* evicts that session.  A live pick changes no registry state.  The      *)
(* round-robin counter is shared by every backend, so any index comes up.  *)

AcquireClosed(r, c) ==
    /\ rpc[r] = "idle"
    /\ c \in registered \cap closed
    /\ rpc' = [rpc EXCEPT ![r] = "evict"]
    /\ target' = [target EXCEPT ![r] = c]
    /\ UNCHANGED <<pc, exit, pending, sessionVars, sweepVars, lifeVars>>

Evict(r) ==
    /\ rpc[r] = "evict"
    /\ rpc' = [rpc EXCEPT ![r] = IF Emptied(target[r]) THEN "dropBucket" ELSE "idle"]
    /\ Retain(target[r])
    /\ target' = [target EXCEPT ![r] = IF Emptied(@) THEN @ ELSE NoConn]
    /\ UNCHANGED <<claim, closed, present, frame, pc, exit, pending, sweepVars, lifeVars>>

EvictBucket(r) ==
    /\ rpc[r] = "dropBucket"
    /\ rpc' = [rpc EXCEPT ![r] = "idle"]
    /\ RemoveBucket(claim[target[r]])
    /\ target' = [target EXCEPT ![r] = NoConn]
    /\ UNCHANGED <<claim, closed, peers, frame, pc, exit, pending, sweepVars, lifeVars>>

-----------------------------------------------------------------------------
(* The denylist: a publisher, and the sweep task that holds the channel's  *)
(* Ref, so blocks the publisher, while it sweeps.                          *)

\* Mutant of Publish: the new set is stored without waking the sweep task.
PublishQuietly(denied) ==
    /\ ~sweeping
    /\ revocation' = denied
    /\ UNCHANGED <<changed, sweeping, todo, pc, exit, pending, sessionVars, requestVars, lifeVars>>

Publish(denied) ==
    /\ ~sweeping
    /\ revocation' = denied
    /\ changed' = TRUE
    /\ UNCHANGED <<sweeping, todo, pc, exit, pending, sessionVars, requestVars, lifeVars>>

SweepStart ==
    /\ changed /\ ~sweeping
    /\ changed' = FALSE
    /\ sweeping' = TRUE
    /\ todo' = Backends
    /\ UNCHANGED <<revocation, pc, exit, pending, sessionVars, requestVars, lifeVars>>

\* revoke_matching on one bucket: queue the reasoned Shutdown, drop the session.
SweepBucket(b) ==
    LET denied == {c \in Bucket(b) : is_revoked(c)} IN
    /\ b \in todo
    /\ todo' = todo \ {b}
    /\ registered' = registered \ denied
    /\ frame' = frame \cup denied
    /\ UNCHANGED <<revocation, changed, sweeping, claim, closed, present, peers,
                   pc, exit, pending, requestVars, lifeVars>>

SweepRetain ==
    /\ sweeping /\ todo = {}
    /\ sweeping' = FALSE
    /\ present' = {b \in present : Bucket(b) # {}}
    /\ UNCHANGED <<revocation, changed, todo, claim, closed, registered, peers, frame,
                   pc, exit, pending, requestVars, lifeVars>>

-----------------------------------------------------------------------------
(* Shutdown: the token, then shutdown_all once the transport has stopped.  *)

Cancel ==
    /\ CanStop
    /\ shutdown = "no"
    /\ shutdown' = "cancelled"
    /\ UNCHANGED <<listening, pc, exit, pending, sessionVars, sweepVars, requestVars>>

ShutdownNotify ==
    /\ shutdown = "cancelled"
    /\ shutdown' = "notified"
    /\ frame' = frame \cup registered
    /\ closed' = closed \cup registered
    /\ UNCHANGED <<listening, claim, registered, present, peers,
                   pc, exit, pending, sweepVars, requestVars>>

ShutdownClear ==
    /\ shutdown = "notified"
    /\ shutdown' = "cleared"
    /\ registered' = {}
    /\ present' = {}
    /\ UNCHANGED <<listening, claim, closed, peers, frame,
                   pc, exit, pending, sweepVars, requestVars>>

-----------------------------------------------------------------------------

Pipeline(c) ==
    \/ (\E b \in Backends : Establish(c, b)) \/ EstablishFail(c) \/ RejectVersion(c)
    \/ Admit(c) \/ Register(c) \/ Recheck(c)
    \/ AckSent(c) \/ AckFailed(c) \/ LoopEnd(c)
    \/ Deregister(c) \/ DropBucket(c) \/ DrainEnd(c)

Environment(c) == Accept(c) \/ Ignore(c) \/ PeerEnd(c) \/ ConnClosed(c)

Request(r) == (\E c \in Conns : AcquireClosed(r, c)) \/ Evict(r) \/ EvictBucket(r)

Sweep == SweepStart \/ (\E b \in Backends : SweepBucket(b)) \/ SweepRetain

Stop == ListenerStop \/ ShutdownNotify \/ ShutdownClear

Next ==
    \/ \E c \in Conns : Pipeline(c) \/ Environment(c)
    \/ \E r \in Requests : Request(r)
    \/ \E denied \in Denylists : Publish(denied)
    \/ Sweep
    \/ Cancel
    \/ Stop

Spec == Init /\ [][Next]_vars

\* Every await of the pipeline carries a timeout, the sweep task and the
\* shutdown path run on the same fair executor; nothing obliges a peer, an
\* operator or a request to do anything.
Fairness ==
    /\ \A c \in Conns : WF_vars(Pipeline(c))
    /\ WF_vars(Sweep)
    /\ WF_vars(Stop)

FairSpec == Spec /\ Fairness

-----------------------------------------------------------------------------
(* Properties.                                                             *)

\* No session outlives its task: whatever the registry or the control-peer map
\* holds belongs to a task that has still to deregister it, however sweeps,
\* evictions, roll-backs and shutdown interleave with it.
NoGhostSession ==
    \A c \in Conns :
        /\ c \in registered =>
             pc[c] \in {"pushed", "ack", "serving", "deregister"}
        /\ c \in peers => pc[c] \in {"ack", "serving", "deregister"}

\* A session is filed under the name its certificate proves, and the
\* per-backend cap is hard: concurrent registrations never exceed it.
HardBackendCap ==
    /\ \A c \in registered : claim[c] = Cn[c]
    /\ \A b \in Backends : Cardinality(Bucket(b)) <= MaxPerBackend

\* The global cap is soft, checked before the push and not locked with it, but
\* it overshoots by less than the pre-registration budget, also counting the
\* sessions past the check and not yet pushed, because a task keeps its permit
\* from before the check until after the push.
SoftCapOvershoot ==
    Cardinality(registered) + Cardinality({c \in Conns : pc[c] = "commit"})
        < MaxTotal + PendingCap

\* "An update is now either visible here or sweeps an already-registered
\* session": a session the published denylist denies is one the sweep task has
\* still to visit or one whose own task has still to re-check or roll back.
RevokedIsOwed ==
    \A c \in registered :
        is_revoked(c) =>
            \/ changed
            \/ claim[c] \in todo
            \/ pc[c] = "pushed"
            \/ pc[c] = "deregister" /\ exit[c] = "revoked"

\* A denied session is not only forgotten: its task ends, which drops the
\* connection, unless the denial is withdrawn meanwhile.
RevokedTornDown ==
    \A c \in Conns :
        (c \in registered /\ is_revoked(c)) ~> (pc[c] = "gone" \/ ~is_revoked(c))

\* Every pre-registration permit comes back, whichever way the task leaves.
PermitReturned ==
    \A c \in Conns : (c \in pending) ~> (c \notin pending)

\* After the shutdown token fires the registry empties and stays empty, also
\* when a registration commits after shutdown_all has cleared it.
ShutdownEmpties ==
    (shutdown # "no") ~> [](registered = {} /\ peers = {})

\* "From the client's view, RegisterAck now means 'registered', unconditionally":
\* a session that was acknowledged is in the registry until its connection
\* closes, its identity is denied or the process stops.
AckMeansRegistered ==
    \A c \in Conns :
        pc[c] = "serving" /\ c \notin closed /\ c \notin frame /\ shutdown = "no"
            => c \in registered
=============================================================================
