------------------------------ MODULE Serving ------------------------------
(***************************************************************************)
(* The data plane's listener and the life of the process: startup's order  *)
(* and readiness (startup/mod.rs, health_endpoint.rs), the TCP and the     *)
(* QUIC listener (transport/), axum's serve loop, and the shutdown with    *)
(* its bounded drain (startup/serve.rs).                                   *)
(*                                                                         *)
(* A TCP connection is one stream.  A QUIC connection carries several; the *)
(* first byte of each sends it to axum or to the raw relays.  A request    *)
(* may have its answer from a backend behind the tunnel listener, which    *)
(* has its own endpoint and sees the same token (tunnel/listener.rs).      *)
(***************************************************************************)
EXTENDS Shutdown, Naturals, Sequences, FiniteSets

CONSTANTS
    Transports,     \* the values of listen.transport to look at
    Conns,          \* connections that clients open
    Streams,        \* their streams: a connection's first stream has its name
    ConnOf,         \* the connection of each stream
    MaxHandshakes,  \* MAX_CONCURRENT_PENDING_HANDSHAKES
    MaxReads,       \* MAX_CONCURRENT_PENDING_STREAM_READS
    Capacity        \* channel_capacity

ASSUME ServingAssumption ==
    /\ Transports \subseteq {"tcp", "quic"}
    /\ IsFiniteSet(Streams) /\ ConnOf \in [Streams -> Conns]
    /\ Conns \subseteq Streams /\ \A c \in Conns : ConnOf[c] = c
    /\ {MaxHandshakes, MaxReads, Capacity} \subseteq Nat \ {0}

Channels == {"http", "raw"}

VARIABLES
    transport,   \* listen.transport
    stage,       \* how far startup::run got
    outcome,     \* how serve_bounded ended, if it did
    readiness,   \* the health endpoint's flag
    acceptor,    \* the listener's accept task: "off", "on", in its "backoff" or "stopped"
    tunnels,     \* is the tunnel listener's endpoint open?
    receivers,   \* channels whose receiver is alive
    conns,       \* each connection: "none", "handshake", "open" or "closed"
    streams,     \* each stream's stage
    channel,     \* the streams in each channel
    overdue,     \* has drain_timeout passed since the shutdown?
    cut          \* history: was a request's connection, or its tunnel, closed under it before overdue?

serveVars == <<shutdown, transport, stage, outcome, readiness, acceptor, tunnels, receivers, conns, streams, channel, overdue, cut>>

ServeTypeOK ==
    /\ transport \in Transports
    /\ stage \in {"wiring", "ready", "serving", "closing", "exited", "failed"}
    /\ outcome \in {"none", "Graceful", "ForcedTimeout"}
    /\ readiness \in {"starting", "ready", "draining"}
    /\ acceptor \in {"off", "on", "backoff", "stopped"} /\ tunnels \in BOOLEAN
    /\ receivers \subseteq Channels
    /\ conns \in [Conns -> {"none", "handshake", "open", "closed"}]
    /\ Cardinality({c \in Conns : conns[c] = "handshake"}) <= MaxHandshakes \/ transport = "tcp"
    /\ streams \in [Streams -> {"none", "reading", "http", "raw", "queued", "request", "tunnelled", "relay", "ended"}]
    /\ \A k \in Channels : Len(channel[k]) <= Capacity
    /\ overdue \in BOOLEAN /\ cut \in BOOLEAN

ServeInit ==
    /\ shutdown = FALSE
    /\ transport \in Transports
    /\ stage = "wiring" /\ outcome = "none" /\ readiness = "starting"
    /\ acceptor = "off" /\ tunnels = FALSE /\ receivers = {}
    /\ conns = [c \in Conns |-> "none"]
    /\ streams = [s \in Streams |-> "none"]
    /\ channel = [k \in Channels |-> <<>>]
    /\ overdue = FALSE /\ cut = FALSE

lifeVars == <<shutdown, transport, stage, outcome, readiness, acceptor, tunnels, receivers, overdue>>
InFlight == {s \in Streams : streams[s] \in {"request", "tunnelled"}}
Alive == stage \notin {"exited", "failed"}

-----------------------------------------------------------------------------
(* Startup.                                                                *)

\* run: everything is wired, the tunnel listener, if there is one, and the
\* health endpoint bound, readiness announced; or one of the steps failed.
Wire ==
    /\ stage = "wiring"
    /\ \/ stage' = "ready" /\ readiness' = "ready" /\ tunnels' \in BOOLEAN
       \/ stage' = "failed" /\ UNCHANGED <<readiness, tunnels>>
    /\ UNCHANGED <<shutdown, transport, outcome, acceptor, receivers, conns, streams, channel, overdue, cut>>

\* serve_transport: the listener is bound and its accept task spawned, for QUIC
\* the raw relay handler too, or the bind fails; axum begins to serve.
serve_transport ==
    /\ stage = "ready"
    /\ \/ /\ stage' = "serving" /\ acceptor' = "on"
          /\ receivers' = IF transport = "quic" THEN Channels ELSE {"http"}
       \/ stage' = "failed" /\ UNCHANGED <<acceptor, receivers>>
    /\ UNCHANGED <<shutdown, transport, outcome, readiness, tunnels, conns, streams, channel, overdue, cut>>

-----------------------------------------------------------------------------
(* The listeners.                                                          *)

\* accept_connections of the QUIC listener: a connection comes in, and is
\* ignored at the handshake cap.
Incoming(c) ==
    /\ transport = "quic" /\ acceptor = "on" /\ conns[c] = "none"
    /\ conns' = [conns EXCEPT ![c] =
         IF Cardinality({x \in Conns : conns[x] = "handshake"}) = MaxHandshakes THEN "closed" ELSE "handshake"]
    /\ UNCHANGED <<lifeVars, streams, channel, cut>>

\* establish_connection: the handshake succeeds, fails or times out.
establish_connection(c) ==
    /\ Alive /\ transport = "quic" /\ conns[c] = "handshake"
    /\ \/ conns' = [conns EXCEPT ![c] = "closed"]
       \/ acceptor = "on" /\ conns' = [conns EXCEPT ![c] = "open"]
    /\ UNCHANGED <<lifeVars, streams, channel, cut>>

\* accept_connections of the TCP listener, which has no cap.
accept_tcp(c) ==
    /\ transport = "tcp" /\ acceptor = "on" /\ conns[c] = "none"
    /\ conns' = [conns EXCEPT ![c] = "handshake"]
    /\ UNCHANGED <<lifeVars, streams, channel, cut>>

\* accept() fails: the acceptor sleeps, and does not see the shutdown meanwhile.
accept_error ==
    /\ Alive /\ transport = "tcp" /\ acceptor = "on" /\ acceptor' = "backoff"
    /\ UNCHANGED <<shutdown, transport, stage, outcome, readiness, tunnels, receivers, conns, streams, channel, overdue, cut>>
backoff_over ==
    /\ Alive /\ acceptor = "backoff" /\ acceptor' = "on"
    /\ UNCHANGED <<shutdown, transport, stage, outcome, readiness, tunnels, receivers, conns, streams, channel, overdue, cut>>

\* run_handshake: no ClientHello, a failed handshake, the timeout, or an ACME
\* probe, which is shown its certificate and closed.
end_handshake(c) ==
    /\ Alive /\ transport = "tcp" /\ conns[c] = "handshake"
    /\ conns' = [conns EXCEPT ![c] = "closed"]
    /\ UNCHANGED <<lifeVars, streams, channel, cut>>
\* The handshake is complete: the connection is one stream on its way to axum.
run_handshake(c) ==
    /\ Alive /\ transport = "tcp" /\ conns[c] = "handshake"
    /\ conns' = [conns EXCEPT ![c] = "open"]
    /\ streams' = [streams EXCEPT ![c] = "http"]
    /\ UNCHANGED <<lifeVars, channel, cut>>

\* handle_connection: a stream is opened; at the cap of pending reads it is reset.
accept_bi(s) ==
    /\ Alive /\ transport = "quic" /\ conns[ConnOf[s]] = "open" /\ streams[s] = "none"
    /\ streams' = [streams EXCEPT ![s] =
         IF Cardinality({x \in Streams : ConnOf[x] = ConnOf[s] /\ streams[x] \in {"reading", "http", "raw"}}) >= MaxReads
         THEN "ended" ELSE "reading"]
    /\ UNCHANGED <<lifeVars, conns, channel, cut>>

\* handle_bi_stream: the type byte arrives on an open connection; an unknown
\* one, an error or the timeout end the stream.
ReadType(s) ==
    /\ Alive /\ streams[s] = "reading"
    /\ \/ \E k \in Channels : conns[ConnOf[s]] = "open" /\ streams' = [streams EXCEPT ![s] = k]
       \/ streams' = [streams EXCEPT ![s] = "ended"]
    /\ UNCHANGED <<lifeVars, conns, channel, cut>>

\* handle_bi_stream, run_handshake: send() waits for room (with its permit) and
\* returns at once when the receiver is gone.
SendTo(s, k) ==
    /\ Alive /\ streams[s] = k
    /\ \/ /\ k \in receivers /\ Len(channel[k]) < Capacity
          /\ channel' = [channel EXCEPT ![k] = Append(@, s)]
          /\ streams' = [streams EXCEPT ![s] = "queued"]
       \/ /\ k \notin receivers
          /\ streams' = [streams EXCEPT ![s] = "ended"]
          /\ UNCHANGED channel
    /\ UNCHANGED <<lifeVars, conns, cut>>

\* Listener::accept and run_raw_relay_handler: the receiver takes a stream.
Dequeue(k) ==
    /\ Alive /\ k \in receivers /\ channel[k] # <<>>
    /\ channel' = [channel EXCEPT ![k] = Tail(@)]
    /\ streams' = [streams EXCEPT ![Head(channel[k])] = IF k = "http" THEN "request" ELSE "relay"]
    /\ UNCHANGED <<lifeVars, conns, cut>>

\* acquire_stream of the tunnel registry: a request's backend is behind the
\* tunnel, and its answer comes over a stream of the session.
acquire_stream(s) ==
    /\ Alive /\ tunnels /\ streams[s] = "request"
    /\ streams' = [streams EXCEPT ![s] = "tunnelled"]
    /\ UNCHANGED <<lifeVars, conns, channel, cut>>

\* A request or a relay ends by itself: its answer is out, or its peer left.
EndStream(s) ==
    /\ Alive /\ streams[s] \in {"request", "tunnelled", "relay"}
    /\ streams' = [streams EXCEPT ![s] = "ended"]
    /\ UNCHANGED <<lifeVars, conns, channel, cut>>
-----------------------------------------------------------------------------
(* The shutdown.  Every part notices the token on its own.                 *)

\* shutdown_signal, polled by axum's serve future.
shutdown_signal ==
    /\ stage = "serving" /\ Cancel
    /\ UNCHANGED <<transport, stage, outcome, readiness, acceptor, tunnels, receivers, conns, streams, channel, overdue, cut>>

\* The health endpoint's task: /readyz answers 503 from now on.
set_draining ==
    /\ Alive /\ shutdown /\ readiness = "ready"
    /\ readiness' = "draining"
    /\ UNCHANGED <<shutdown, transport, stage, outcome, acceptor, tunnels, receivers, conns, streams, channel, overdue, cut>>

\* The accept task stops.  The QUIC one closes its endpoint, and with it
\* every connection and what runs on it.
StopAcceptor ==
    /\ Alive /\ shutdown /\ acceptor = "on"
    /\ acceptor' = "stopped"
    /\ IF transport = "quic"
         THEN /\ conns' = [c \in Conns |-> IF conns[c] = "open" THEN "closed" ELSE conns[c]]
              /\ streams' = [s \in Streams |-> IF streams[s] \in {"request", "tunnelled", "relay"} THEN "ended" ELSE streams[s]]
              /\ cut' = (cut \/ (~overdue /\ InFlight # {}))
         ELSE UNCHANGED <<conns, streams, cut>>
    /\ UNCHANGED <<shutdown, transport, stage, outcome, readiness, tunnels, receivers, channel, overdue>>

\* run_tunnel_listener sees the token and closes its endpoint, and with it
\* every session: the answers that were coming over one break off.
StopTunnels ==
    /\ Alive /\ shutdown /\ tunnels
    /\ tunnels' = FALSE
    /\ streams' = [s \in Streams |-> IF streams[s] = "tunnelled" THEN "request" ELSE streams[s]]
    /\ cut' = (cut \/ (~overdue /\ \E s \in Streams : streams[s] = "tunnelled"))
    /\ UNCHANGED <<shutdown, transport, stage, outcome, readiness, acceptor, receivers, conns, channel, overdue>>

\* axum's graceful shutdown drops the listener, the raw handler's loop breaks:
\* the receiver goes, and the streams in its channel.
CloseReceiver(k) ==
    /\ Alive /\ shutdown /\ k \in receivers
    /\ receivers' = receivers \ {k}
    /\ channel' = [channel EXCEPT ![k] = <<>>]
    /\ streams' = [s \in Streams |-> IF \E i \in 1 .. Len(channel[k]) : channel[k][i] = s THEN "ended" ELSE streams[s]]
    /\ UNCHANGED <<shutdown, transport, stage, outcome, readiness, acceptor, tunnels, conns, overdue, cut>>

\* force_deadline: drain_timeout after the token was cancelled.
DrainTimeout ==
    /\ Alive /\ shutdown /\ ~overdue
    /\ overdue' = TRUE
    /\ UNCHANGED <<shutdown, transport, stage, outcome, readiness, acceptor, tunnels, receivers, conns, streams, channel, cut>>

\* Mutant: there is no deadline.
serve_unbounded ==
    /\ stage = "serving"
    /\ shutdown /\ "http" \notin receivers /\ InFlight = {} /\ outcome' = "Graceful"
    /\ stage' = "closing"
    /\ UNCHANGED <<shutdown, transport, readiness, acceptor, tunnels, receivers, conns, streams, channel, overdue, cut>>

\* serve_bounded: axum is done with every connection, or the deadline is over.
serve_bounded ==
    /\ stage = "serving"
    /\ \/ shutdown /\ "http" \notin receivers /\ InFlight = {} /\ outcome' = "Graceful"
       \/ overdue /\ outcome' = "ForcedTimeout"
    /\ stage' = "closing"
    /\ UNCHANGED <<shutdown, transport, readiness, acceptor, tunnels, receivers, conns, streams, channel, overdue, cut>>

\* shutdown_all and drain_connections: wait for what is in flight, not at all
\* after a forced timeout; then the process exits.
drain_connections ==
    /\ stage = "closing"
    /\ InFlight = {} \/ outcome = "ForcedTimeout"
    /\ stage' = "exited"
    /\ cut' = (cut \/ (~overdue /\ InFlight # {}))
    /\ streams' = [s \in Streams |-> IF streams[s] = "none" THEN "none" ELSE "ended"]
    /\ conns' = [c \in Conns |-> "closed"]
    /\ channel' = [k \in Channels |-> <<>>]
    /\ receivers' = {} /\ acceptor' = "stopped" /\ tunnels' = FALSE
    /\ UNCHANGED <<shutdown, transport, outcome, readiness, overdue>>

ServeNext ==
    \/ Wire \/ serve_transport
    \/ \E c \in Conns : Incoming(c) \/ establish_connection(c) \/ accept_tcp(c) \/ end_handshake(c) \/ run_handshake(c)
    \/ accept_error \/ backoff_over
    \/ \E s \in Streams : accept_bi(s) \/ ReadType(s) \/ acquire_stream(s) \/ EndStream(s) \/ \E k \in Channels : SendTo(s, k)
    \/ \E k \in Channels : Dequeue(k) \/ CloseReceiver(k)
    \/ shutdown_signal \/ set_draining \/ StopAcceptor \/ StopTunnels \/ DrainTimeout
    \/ serve_bounded \/ drain_connections

\* Tasks are polled and timers expire.  Nothing makes a request end.
ServeProgress ==
    \/ \E s \in Streams : ReadType(s) \/ \E k \in Channels : SendTo(s, k)
    \/ \E k \in Channels : Dequeue(k) \/ CloseReceiver(k)
    \/ DrainTimeout \/ serve_bounded \/ drain_connections
ServeSpec == ServeInit /\ [][ServeNext]_serveVars /\ WF_serveVars(ServeProgress)

-----------------------------------------------------------------------------
\* serve_bounded's comment: without the bound "a single hung connection would
\* block shutdown forever".  After the signal the process exits, whatever the
\* requests do.
ShutdownEnds == shutdown ~> (stage = "exited")

\* An opened stream reaches its handler or ends: its type byte comes or times
\* out, a full channel gets room or loses its receiver, and what is queued at
\* the shutdown is let go.
StreamSettles ==
    \A s \in Streams : (streams[s] \in {"reading", "http", "raw", "queued"})
                         ~> (streams[s] \in {"request", "tunnelled", "relay", "ended"})

\* README: shutdown "drains in-flight connections and tunnel sessions,
\* force-closes after a configurable timeout": no request is cut before
\* drain_timeout has passed.  (Over QUIC the listener's own endpoint, over TCP
\* the tunnel listener's, is closed at the token.)
DrainsInFlight == ~cut
=============================================================================
