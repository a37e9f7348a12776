------------------------------ MODULE RawRelay ------------------------------
(***************************************************************************)
(* Raw QUIC streams (proxy/raw_relay.rs): the handler loop with its relay  *)
(* cap, the edge admission, the gates of handle_raw_stream, the relay, and *)
(* the two watchers of raw_relay/lifetime.rs that end it when its device   *)
(* is revoked or its address denied after the admission let it in.         *)
(*                                                                         *)
(* A watch channel is its value and its version; a receiver knows the last *)
(* version that changed() returned, and borrow() reads without marking.    *)
(***************************************************************************)
EXTENDS Shutdown, Naturals, FiniteSets

CONSTANTS
    RawStreams,    \* raw streams that devices open
    Devices,       \* device identities
    NoIdentity,    \* the identity of a leaf whose CN cannot be parsed
    DeviceOf,      \* the device behind each stream
    Allowed,       \* devices on the allowlist of the streams' backend
    MaxRelays,     \* MAX_CONCURRENT_RAW_RELAYS
    MaxBackend,    \* the backend's max_connections
    MaxPublishes   \* bound: updates of each watch channel

ASSUME RawAssumption ==
    /\ IsFiniteSet(RawStreams)
    /\ NoIdentity \notin Devices
    /\ DeviceOf \in [RawStreams -> Devices \union {NoIdentity}]
    /\ Allowed \subseteq Devices
    /\ {MaxRelays, MaxBackend, MaxPublishes} \subseteq Nat

\* "revocation": the denylist's channel; "acl": the reloadable state's.
Kinds == {"revocation", "acl"}

VARIABLES
    denies,      \* the devices that each channel's value denies
    version,     \* each channel's version
    handling,    \* is run_raw_relay_handler's loop running?
    raw,         \* each stream's stage
    relaySlots,  \* free permits of relay_permits
    connSlots,   \* free connection permits of the backend
    token,       \* streams whose relay_token was cancelled by itself
    watcher      \* each stream's two watchers

rawVars == <<shutdown, denies, version, handling, raw, relaySlots, connSlots, token, watcher>>

Stages == {"none", "admit", "header", "dial", "relay", "ended"}
InTask == {"admit", "header", "dial", "relay"}
Watchers == [at : {"off", "check", "wait"}, seen : 0 .. MaxPublishes]

Holding(stages) == Cardinality({s \in RawStreams : raw[s] \in stages})

\* The types, and the semaphores tied to the tasks that hold their permits.
RawTypeOK ==
    /\ shutdown \in BOOLEAN
    /\ denies \in [Kinds -> SUBSET (Devices \union {NoIdentity})]
    /\ version \in [Kinds -> 0 .. MaxPublishes]
    /\ handling \in BOOLEAN
    /\ raw \in [RawStreams -> Stages]
    /\ relaySlots \in 0 .. MaxRelays /\ relaySlots + Holding(InTask) = MaxRelays
    /\ connSlots \in 0 .. MaxBackend /\ connSlots + Holding({"dial", "relay"}) = MaxBackend
    /\ token \subseteq RawStreams
    /\ watcher \in [RawStreams -> [Kinds -> Watchers]]

RawInit ==
    /\ shutdown = FALSE
    /\ denies = [k \in Kinds |-> {}]
    /\ version = [k \in Kinds |-> 0]
    /\ handling = TRUE
    /\ raw = [s \in RawStreams |-> "none"]
    /\ relaySlots = MaxRelays /\ connSlots = MaxBackend
    /\ token = {}
    /\ watcher = [s \in RawStreams |-> [k \in Kinds |-> [at |-> "off", seen |-> 0]]]

-----------------------------------------------------------------------------
\* A reload publishes a denylist or an access list.
Publish(k) ==
    /\ version[k] < MaxPublishes
    /\ version' = [version EXCEPT ![k] = @ + 1]
    /\ \E ds \in SUBSET Devices : denies' = [denies EXCEPT ![k] = ds]
    /\ UNCHANGED <<shutdown, handling, raw, relaySlots, connSlots, token, watcher>>

\* run_raw_relay_handler: a stream arrives; it gets a task, or is shed at the cap.
Receive(s) ==
    /\ handling /\ raw[s] = "none"
    /\ \/ relaySlots = 0 /\ raw' = [raw EXCEPT ![s] = "ended"] /\ UNCHANGED relaySlots
       \/ relaySlots > 0 /\ raw' = [raw EXCEPT ![s] = "admit"] /\ relaySlots' = relaySlots - 1
    /\ UNCHANGED <<shutdown, denies, version, handling, connSlots, token, watcher>>

StopHandler ==
    /\ handling /\ shutdown
    /\ handling' = FALSE
    /\ UNCHANGED <<shutdown, denies, version, raw, relaySlots, connSlots, token, watcher>>

\* The task returns before it held a connection permit.
TurnAway(s) == raw' = [raw EXCEPT ![s] = "ended"] /\ relaySlots' = relaySlots + 1

\* check_admission: access list, rate limit, identity, denylist.
check_admission(d) == d \notin denies["acl"] /\ d # NoIdentity /\ d \notin denies["revocation"]

\* authorize_raw_edge up to the header's read; the rate limit may refuse.
Admit(s) ==
    /\ raw[s] = "admit"
    /\ \/ TurnAway(s)
       \/ check_admission(DeviceOf[s]) /\ raw' = [raw EXCEPT ![s] = "header"] /\ UNCHANGED relaySlots
    /\ UNCHANGED <<shutdown, denies, version, handling, connSlots, token, watcher>>

\* read_routing_header ended: a bad or late header, a device that is not on
\* the allowlist, no pool, no member, an open circuit or no permit turn the
\* stream away.
Header(s) ==
    /\ raw[s] = "header"
    /\ \/ TurnAway(s) /\ UNCHANGED connSlots
       \/ /\ DeviceOf[s] \in Allowed /\ connSlots > 0
          /\ connSlots' = connSlots - 1
          /\ raw' = [raw EXCEPT ![s] = "dial"]
          /\ UNCHANGED relaySlots
    /\ UNCHANGED <<shutdown, denies, version, handling, token, watcher>>

\* Mutant: the watchers wait for a change first, from receivers that have seen
\* the channels' present values.
DialBackendWaits(s) ==
    /\ raw[s] = "dial"
    /\ \/ TurnAway(s) /\ connSlots' = connSlots + 1 /\ UNCHANGED watcher
       \/ /\ raw' = [raw EXCEPT ![s] = "relay"]
          /\ watcher' = [watcher EXCEPT ![s] = [k \in Kinds |-> [at |-> "wait", seen |-> version[k]]]]
          /\ UNCHANGED <<relaySlots, connSlots>>
    /\ UNCHANGED <<shutdown, denies, version, handling, token>>

\* acquire_raw_stream fails, or the relay starts with its two watchers.
DialBackend(s) ==
    /\ raw[s] = "dial"
    /\ \/ TurnAway(s) /\ connSlots' = connSlots + 1 /\ UNCHANGED watcher
       \/ /\ raw' = [raw EXCEPT ![s] = "relay"]
          /\ watcher' = [watcher EXCEPT ![s] = [k \in Kinds |-> [at |-> "check", seen |-> 0]]]
          /\ UNCHANGED <<relaySlots, connSlots>>
    /\ UNCHANGED <<shutdown, denies, version, handling, token>>

\* relay_token: a child of the shutdown token.
Cancelled(s) == shutdown \/ s \in token

\* cancel_on_revocation and cancel_on_acl_denial: look, then wait for the
\* token or for a version not yet seen.
Look(s, k) ==
    /\ watcher[s][k].at = "check"
    /\ IF DeviceOf[s] \in denies[k]
         THEN token' = token \union {s} /\ watcher' = [watcher EXCEPT ![s][k].at = "off"]
         ELSE watcher' = [watcher EXCEPT ![s][k].at = "wait"] /\ UNCHANGED token
    /\ UNCHANGED <<shutdown, denies, version, handling, raw, relaySlots, connSlots>>

Changed(s, k) ==
    /\ watcher[s][k].at = "wait"
    /\ \/ Cancelled(s) /\ watcher' = [watcher EXCEPT ![s][k].at = "off"]
       \/ /\ version[k] > watcher[s][k].seen
          /\ watcher' = [watcher EXCEPT ![s][k] = [at |-> "check", seen |-> version[k]]]
    /\ UNCHANGED <<shutdown, denies, version, handling, raw, relaySlots, connSlots, token>>

\* relay_bidirectional returned: handle_raw_stream cancels the token, records
\* the outcome and drops its permits.
EndRawRelay(s) ==
    /\ raw[s] = "relay"
    /\ TurnAway(s)
    /\ connSlots' = connSlots + 1
    /\ token' = token \union {s}
    /\ UNCHANGED <<shutdown, denies, version, handling, watcher>>

RawShutdown == Cancel /\ UNCHANGED <<denies, version, handling, raw, relaySlots, connSlots, token, watcher>>

RawNext ==
    \/ \E k \in Kinds : Publish(k)
    \/ \E s \in RawStreams :
         \/ Receive(s) \/ Admit(s) \/ Header(s) \/ DialBackend(s) \/ EndRawRelay(s)
         \/ \E k \in Kinds : Look(s, k) \/ Changed(s, k)
    \/ StopHandler \/ RawShutdown

\* Watchers and cancelled relays are polled.  Otherwise a relay may go on.
RawProgress ==
    \E s \in RawStreams : \/ Cancelled(s) /\ EndRawRelay(s)
                          \/ \E k \in Kinds : Look(s, k) \/ Changed(s, k)
RawSpec == RawInit /\ [][RawNext]_rawVars /\ WF_rawVars(RawProgress)

-----------------------------------------------------------------------------
\* A relay whose device is denied by now, by an update that came at any point
\* after the admission, is one whose watcher has still to look, or whose
\* token is cancelled: no update falls between a look and the next wait.
DenialOwed ==
    \A s \in RawStreams : \A k \in Kinds :
      raw[s] = "relay" /\ DeviceOf[s] \in denies[k] =>
        \/ Cancelled(s)
        \/ watcher[s][k].at = "check"
        \/ watcher[s][k].at = "wait" /\ version[k] > watcher[s][k].seen

\* "without this a pipe established just before a revocation would outlive
\* it": a relay does not outlive the denial of its device.
DeniedRelayEnds ==
    \A s \in RawStreams : \A k \in Kinds :
      (raw[s] = "relay" /\ DeviceOf[s] \in denies[k]) ~> (raw[s] # "relay" \/ DeviceOf[s] \notin denies[k])
=============================================================================
