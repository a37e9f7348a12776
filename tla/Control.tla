------------------------------ MODULE Control ------------------------------
(***************************************************************************)
(* The control stream of one tunnel (tunnel/protocol.rs, listener.rs,      *)
(* listener/registration.rs): a preamble, a Register frame, then the       *)
(* control loop, which reads frames off a byte stream while it watches     *)
(* three other things.  Who is admitted is TunnelRegistry's subject.       *)
(*                                                                         *)
(* A byte is a small number: magic and version are one byte each, a length *)
(* prefix is one, and the bytes of payloads look like lengths.             *)
(***************************************************************************)
EXTENDS Shutdown, Naturals, Sequences, FiniteSets, SequencesExt

CONSTANTS
    MaxFrameSize,      \* MAX_FRAME_SIZE
    HeartbeatTimeout,  \* heartbeat_timeout
    MaxFrames          \* bound: frames that the peer writes

ASSUME ControlAssumption == {MaxFrameSize, HeartbeatTimeout, MaxFrames} \subseteq Nat \ {0}

Magic == 9
Version == 1

\* bitcode::encode.  Empty is no frame; Wide is what a peer that does not
\* check the size may send.
Payload ==
    [Heartbeat |-> <<1>>, Shutdown |-> <<2>>, NewStream |-> <<1, 1>>, Health |-> <<1, 2>>,
     RefuseWake |-> <<2, 1>>, Register |-> <<2, 2>>, Empty |-> <<>>, Wide |-> <<1, 1, 1>>]
TunnelFrame == DOMAIN Payload
NotAFrame == "error"

Peers == [speaks : {"current"}, control : {TRUE}, sink : BOOLEAN]
           \cup [speaks : {"current", "newer", "legacy"}, control : {FALSE}, sink : {TRUE}]

VARIABLES
    peer,      \* the protocol it speaks; did it register as a control peer; is health_tx wired?
    wire,      \* bytes that the peer has written and the proxy has not read
    written,   \* history: the frames of the peer
    partial,   \* bytes that the read in progress has taken off the stream
    handled,   \* history: the frames that were read
    talk,     \* "preamble", "register", "loop" or "ended"
    quiet,     \* time since last_heartbeat
    queued,    \* control_rx: "none", "Shutdown", or "closed" when the session is out of the registry
    replies,   \* history: what the proxy wrote; "torn" is a write that failed or stalled
    effects    \* what the frames did to the registry and to the health state

controlOwn == <<peer, wire, written, partial, handled, talk, quiet, queued, replies, effects>>
controlVars == <<shutdown, controlOwn>>

ControlTypeOK ==
    /\ peer \in Peers
    /\ Len(written) <= MaxFrames /\ Len(partial) <= MaxFrameSize
    /\ talk \in {"preamble", "register", "loop", "ended"}
    /\ quiet \in 0 .. HeartbeatTimeout
    /\ queued \in {"none", "Shutdown", "closed"}
    /\ effects \subseteq {"heartbeat", "health", "refusal"}

-----------------------------------------------------------------------------
(* The protocol.                                                           *)

\* encode_frame, write_frame: the length, then the payload.
encode_frame(frame) == <<Len(Payload[frame])>> \o Payload[frame]

\* write_preamble; a legacy client has none.
write_preamble(speaks) ==
    CASE speaks = "current" -> <<Magic, Version>>
      [] speaks = "newer" -> <<Magic, Version + 1>>
      [] speaks = "legacy" -> <<>>

\* safe_decode: a payload that is not a frame's is an error.
safe_decode(payload) ==
    LET frames == {f \in TunnelFrame \ {"Empty", "Wide"} : Payload[f] = payload}
    IN  IF frames = {} THEN NotAFrame ELSE CHOOSE f \in frames : TRUE

\* read_preamble is done after magic and version, read_frame after the length,
\* if that is too large, or else after the payload.
Complete(bytes) ==
    IF talk = "preamble" THEN Len(bytes) = 2
    ELSE Head(bytes) > MaxFrameSize \/ Len(bytes) = 1 + Head(bytes)
read_frame(bytes) == IF Head(bytes) > MaxFrameSize THEN NotAFrame ELSE safe_decode(Tail(bytes))

\* decode reads the same frame from a buffer.
decode(buf) ==
    IF buf = <<>> \/ Len(buf) < 1 + Head(buf) \/ Head(buf) > MaxFrameSize THEN NotAFrame
    ELSE safe_decode(SubSeq(buf, 2, 1 + Head(buf)))

-----------------------------------------------------------------------------
ControlInit ==
    /\ shutdown = FALSE
    /\ peer \in Peers
    /\ wire = write_preamble(peer.speaks) /\ written = <<>> /\ partial = <<>> /\ handled = <<>>
    /\ talk = "preamble" /\ quiet = 0 /\ queued = "none"
    /\ replies = <<>> /\ effects = {}

Write(frame) ==
    /\ talk # "ended" /\ Len(written) < MaxFrames
    /\ wire' = wire \o encode_frame(frame)
    /\ written' = Append(written, frame)
    /\ UNCHANGED <<shutdown, peer, partial, handled, talk, quiet, queued, replies, effects>>

\* bounded_control_write: the frame is out and the stream goes on to next, or
\* it is not and nothing more is written to it.
bounded_control_write(frame, next) ==
    \/ replies' = Append(replies, frame) /\ talk' = next
    \/ replies' = Append(replies, "torn") /\ talk' = "ended"

\* Ends without a reply: an error of the read, a frame that ends the session.
EndSilently == talk' = "ended" /\ UNCHANGED replies
Ignore == UNCHANGED <<talk, replies>>

\* establish_registration: the peer's preamble.  A newer version is told; the
\* budget of reject_and_close may be spent.
Negotiate(bytes) ==
    \/ bytes[1] # Magic /\ EndSilently
    \/ bytes[1] = Magic /\ bytes[2] # Version /\ (bounded_control_write("Shutdown", "ended") \/ EndSilently)
    \/ bytes = <<Magic, Version>> /\ bounded_control_write("preamble", "register")

\* establish_registration's Register frame, then the answer of admit_ and
\* commit_registration.
Registration(frame) ==
    \/ frame # "Register" /\ EndSilently
    \/ frame = "Register" /\ (bounded_control_write("RegisterAck", "loop") \/ bounded_control_write("Shutdown", "ended") \/ EndSilently)

\* What a frame of the control loop changes besides the stream: Health and
\* RefuseWake count only from a control peer, Health only into a sink.
Effect(frame) ==
    {e \in {"heartbeat", "health", "refusal"} :
       \/ e = "heartbeat" /\ frame = "Heartbeat"
       \/ e = "health" /\ frame = "Health" /\ peer.control /\ peer.sink
       \/ e = "refusal" /\ frame = "RefuseWake" /\ peer.control}

\* run_control_loop's read arm.
ControlFrame(frame) ==
    \/ frame = "Heartbeat" /\ bounded_control_write("HeartbeatAck", "loop")
    \/ frame \in {"Shutdown", NotAFrame} /\ EndSilently
    \/ frame \notin {"Heartbeat", "Shutdown", NotAFrame} /\ Ignore

\* A byte arrives: the read goes on, or is complete and its result acted upon.
ReceiveByte ==
    /\ talk # "ended" /\ wire # <<>>
    /\ LET got == Append(partial, Head(wire))
           frame == read_frame(got)
       IN  /\ wire' = Tail(wire)
           /\ \/ ~ Complete(got) /\ partial' = got /\ UNCHANGED <<handled, talk, quiet, replies, effects>>
              \/ /\ Complete(got) /\ partial' = <<>> /\ talk = "preamble" /\ Negotiate(got)
                 /\ UNCHANGED <<handled, quiet, effects>>
              \/ /\ Complete(got) /\ partial' = <<>> /\ talk \in {"register", "loop"}
                 /\ handled' = IF frame = NotAFrame THEN handled ELSE Append(handled, frame)
                 /\ \/ talk = "register" /\ Registration(frame) /\ UNCHANGED <<quiet, effects>>
                    \/ /\ talk = "loop" /\ ControlFrame(frame)
                       /\ quiet' = IF frame = "Heartbeat" THEN 0 ELSE quiet
                       /\ effects' = effects \cup Effect(frame)
    /\ UNCHANGED <<shutdown, peer, written, queued>>

\* The stream or the connection ends, or registration_timeout is over.
ReadError ==
    /\ talk # "ended"
    /\ EndSilently
    /\ UNCHANGED <<shutdown, peer, wire, written, partial, handled, quiet, queued, effects>>

\* Time passes, not past the deadline of the select.
Tick ==
    /\ talk = "loop" /\ quiet < HeartbeatTimeout
    /\ quiet' = quiet + 1
    /\ UNCHANGED <<shutdown, peer, wire, written, partial, handled, talk, queued, replies, effects>>

heartbeat_timeout ==
    /\ talk = "loop" /\ quiet = HeartbeatTimeout
    /\ EndSilently
    /\ UNCHANGED <<shutdown, peer, wire, written, partial, handled, quiet, queued, effects>>

\* The registry evicts the session, or drops it with its control_tx.
Evict ==
    /\ talk = "loop" /\ queued = "none"
    /\ queued' \in {"Shutdown", "closed"}
    /\ UNCHANGED <<shutdown, peer, wire, written, partial, handled, talk, quiet, replies, effects>>

\* Mutant: after a queued frame the loop goes on, without what its read had taken.
OutboundLoops ==
    /\ talk = "loop" /\ queued # "none"
    /\ partial' = <<>> /\ queued' = "none"
    /\ IF queued = "Shutdown" THEN bounded_control_write("Shutdown", "loop") ELSE EndSilently
    /\ UNCHANGED <<shutdown, peer, wire, written, handled, quiet, effects>>

\* run_control_loop's outbound arm: the read in progress is dropped with the
\* bytes it took, and the loop is left.
Outbound ==
    /\ talk = "loop" /\ queued # "none"
    /\ partial' = <<>> /\ queued' = "none"
    /\ IF queued = "Shutdown" THEN bounded_control_write("Shutdown", "ended") ELSE EndSilently
    /\ UNCHANGED <<shutdown, peer, wire, written, handled, quiet, effects>>

\* run_control_loop's shutdown arm.
ControlCancelled ==
    /\ talk = "loop" /\ shutdown
    /\ partial' = <<>>
    /\ bounded_control_write("Shutdown", "ended")
    /\ UNCHANGED <<shutdown, peer, wire, written, handled, quiet, queued, effects>>

ControlShutdown == Cancel /\ UNCHANGED controlOwn

ControlNext ==
    \/ \E frame \in TunnelFrame : Write(frame)
    \/ ReceiveByte \/ ReadError \/ Tick \/ heartbeat_timeout
    \/ Evict \/ Outbound \/ ControlCancelled \/ ControlShutdown

-----------------------------------------------------------------------------
Count(f, s) == Cardinality({i \in 1 .. Len(s) : s[i] = f})

\* run_control_loop: a dropped read "would desync framing".  The frames acted
\* upon are those the peer wrote, in its order, however their bytes arrive and
\* whatever else the loop does; each heartbeat is answered; nothing follows a
\* write that failed; no peer has an effect that it did not ask for or may not
\* have; and both readers take the same bytes for a frame.
FramesInStep ==
    /\ IsPrefix(handled, written)
    /\ Count("HeartbeatAck", replies) + Count("torn", replies) >= Count("Heartbeat", SubSeq(handled, 2, Len(handled)))
    /\ \A i \in 1 .. Len(replies) - 1 : replies[i] \notin {"torn", "Shutdown"}
    /\ effects \subseteq UNION {Effect(written[i]) : i \in 1 .. Len(written)}
    /\ \A f \in TunnelFrame : decode(encode_frame(f)) = read_frame(encode_frame(f))
=============================================================================
