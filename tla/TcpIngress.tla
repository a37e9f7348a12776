----------------------------- MODULE TcpIngress -----------------------------
(***************************************************************************)
(* A TCP ingress (ingress/tcp.rs): the accept loop with its admission and  *)
(* its connection cap, and a task per connection that selects a backend,   *)
(* passes its circuit, opens a raw QUIC stream and relays until an end of  *)
(* relay_bidirectional.  What the balancer selects and what the circuit    *)
(* says are the environment's choices.                                     *)
(***************************************************************************)
EXTENDS Shutdown, Naturals, FiniteSets

CONSTANTS
    Clients,          \* connections that clients open
    MaxConnections    \* max_connections

ASSUME TcpAssumption == IsFiniteSet(Clients) /\ MaxConnections \in Nat \ {0}

VARIABLES
    accepting,    \* is run_accept_loop running?
    client,       \* each connection: not there yet, a task's stage, or ended
    slots,        \* free permits of the connection semaphore
    accepted,     \* TcpIngressCounters: connections accepted,
    completed,    \*   relayed,
    refused,      \*   and dropped, by reason
    gauge,        \*   and the active-relay gauge
    verdicts      \* history: what the circuit was told, and how often

tcpVars == <<shutdown, accepting, client, slots, accepted, completed, refused, gauge, verdicts>>

TcpReasons == {"acl", "rate_limit", "capacity", "no_backend", "circuit_open", "protocol"}
Tasks == {"select", "open", "relay"}

\* The types, with the semaphore and the gauge tied to the tasks that hold them.
TcpTypeOK ==
    /\ accepting \in BOOLEAN
    /\ client \in [Clients -> {"none", "ended"} \union Tasks]
    /\ slots = MaxConnections - Cardinality({c \in Clients : client[c] \in Tasks})
    /\ slots >= 0
    /\ gauge = Cardinality({c \in Clients : client[c] = "relay"})
    /\ refused \in [TcpReasons -> Nat]
    /\ verdicts \in [{"success", "failure"} -> Nat]

TcpInit ==
    /\ shutdown = FALSE /\ accepting = TRUE
    /\ client = [c \in Clients |-> "none"]
    /\ slots = MaxConnections
    /\ accepted = 0 /\ completed = 0 /\ refused = [r \in TcpReasons |-> 0] /\ gauge = 0
    /\ verdicts = [v \in {"success", "failure"} |-> 0]

Stage(c, s) == client' = [client EXCEPT ![c] = s]
Drop(reason) == refused' = [refused EXCEPT ![reason] = @ + 1]
Tell(verdict) == verdicts' = [verdicts EXCEPT ![verdict] = @ + 1]

\* The reasons for which admit turns a connection away.
admit == {"acl", "rate_limit"}

\* run_accept_loop: count, admit, take a permit or drop at the cap, spawn.
Accept(c) ==
    /\ accepting /\ client[c] = "none"
    /\ accepted' = accepted + 1
    /\ \/ \E reason \in admit : Drop(reason) /\ Stage(c, "ended") /\ UNCHANGED slots
       \/ slots = 0 /\ Drop("capacity") /\ Stage(c, "ended") /\ UNCHANGED slots
       \/ slots > 0 /\ slots' = slots - 1 /\ Stage(c, "select") /\ UNCHANGED refused
    /\ UNCHANGED <<shutdown, accepting, completed, gauge, verdicts>>

\* The task returns and its permit drops.
EndTask(c) == Stage(c, "ended") /\ slots' = slots + 1

\* handle_connection: selection and the circuit gate.
Select(c) ==
    /\ client[c] = "select"
    /\ \/ \E reason \in {"no_backend", "circuit_open"} : Drop(reason) /\ EndTask(c)
       \/ Stage(c, "open") /\ UNCHANGED <<refused, slots>>
    /\ UNCHANGED <<shutdown, accepting, accepted, completed, gauge, verdicts>>

\* Mutant: the gauge is raised before the stream is open, and stays so if it fails.
OpenStreamGaugeFirst(c) ==
    /\ client[c] = "open"
    /\ gauge' = gauge + 1
    /\ \/ Tell("failure") /\ Drop("protocol") /\ EndTask(c)
       \/ Stage(c, "relay") /\ UNCHANGED <<verdicts, refused, slots>>
    /\ UNCHANGED <<shutdown, accepting, accepted, completed>>

\* handle_connection: open_backend_stream fails, or the relay starts.
OpenStream(c) ==
    /\ client[c] = "open"
    /\ \/ Tell("failure") /\ Drop("protocol") /\ EndTask(c) /\ UNCHANGED gauge
       \/ gauge' = gauge + 1 /\ Stage(c, "relay") /\ UNCHANGED <<verdicts, refused, slots>>
    /\ UNCHANGED <<shutdown, accepting, accepted, completed>>

\* handle_connection: the relay ends.  Both peers' EOF, the idle watchdog and
\* the token are its clean ends; an I/O error is a failure of the backend.
EndRelay(c) ==
    /\ client[c] = "relay"
    /\ gauge' = gauge - 1
    /\ \/ Tell("success") /\ completed' = completed + 1 /\ UNCHANGED refused
       \/ Tell("failure") /\ Drop("protocol") /\ UNCHANGED completed
    /\ EndTask(c)
    /\ UNCHANGED <<shutdown, accepting, accepted>>

StopAccepting ==
    /\ accepting /\ shutdown
    /\ accepting' = FALSE
    /\ UNCHANGED <<shutdown, client, slots, accepted, completed, refused, gauge, verdicts>>

TcpShutdown == Cancel /\ UNCHANGED <<accepting, client, slots, accepted, completed, refused, gauge, verdicts>>

TaskStep(c) == Select(c) \/ OpenStream(c) \/ EndRelay(c)
TcpNext == (\E c \in Clients : Accept(c) \/ TaskStep(c)) \/ StopAccepting \/ TcpShutdown

\* A task is polled and, once the token is cancelled, its relay ends.  Without
\* the token a relay may go on, and opening a stream may take for ever: only
\* the QUIC handshake is under connect_timeout; open_bi and the preamble's and
\* the frames' writes have neither a timeout nor an arm for the token.
TcpProgress ==
    StopAccepting \/ \E c \in Clients : Select(c) \/ (shutdown /\ EndRelay(c))
TcpSpec == TcpInit /\ [][TcpNext]_tcpVars /\ WF_tcpVars(TcpProgress)

-----------------------------------------------------------------------------
\* The sum of the dropped connections over the reasons.
Refusals ==
    refused["acl"] + refused["rate_limit"] + refused["capacity"]
      + refused["no_backend"] + refused["circuit_open"] + refused["protocol"]

\* tcp.rs: `accepted == relayed + sum of dropped` once settled: at any moment,
\* with the tasks that have not settled.  And the circuit hears of every relay
\* and every failed opening once: its successes are the relayed connections,
\* its failures the protocol drops.
TcpAccounted ==
    /\ accepted = completed + Refusals + Cardinality({c \in Clients : client[c] \in Tasks})
    /\ verdicts["success"] = completed
    /\ verdicts["failure"] = refused["protocol"]

\* After the token is cancelled the accept loop stops and every task ends but
\* one that waits in open_backend_stream: a relay that was admitted before the
\* token, or whose stream opens after it, does not go on.
TcpStops == shutdown ~> [](~accepting /\ \A c \in Clients : client[c] \in {"none", "open", "ended"})
=============================================================================
