------------------------------- MODULE MCEdge -------------------------------
(***************************************************************************)
(* The edge's services.  They share the shutdown token and nothing else,   *)
(* so a behaviour is one service's, with the others at rest.  The ACME     *)
(* client outlives the process: its behaviours have restarts.              *)
(***************************************************************************)
EXTENDS UdpIngress, TcpIngress, RawRelay, Relay, Serving, Acme

VARIABLE service
vars == <<service, udpVars, tcpVars, rawVars, relayVars, serveVars, acmeVars>>

\* The frame of each service: the variables of all the others.
udpOwn == <<limits, reloads, worker, batches, lingered, queues, writers, countVars>>
tcpOwn == <<accepting, client, slots, accepted, completed, refused, gauge, verdicts>>
rawOwn == <<denies, version, handling, raw, relaySlots, connSlots, token, watcher>>
relayOwn == <<now, last, armed, sides, moved, ending>>
serveOwn == <<transport, stage, outcome, readiness, acceptor, tunnels, receivers, conns, streams, channel, overdue, cut>>

\* A small batch and a small frame, as the caps may be configured.
Caps ==
    {[datagrams |-> 3, bytes |-> 3, payload |-> 2], [datagrams |-> 1, bytes |-> 2, payload |-> 1],
     [datagrams |-> 1, bytes |-> 4, payload |-> 1]}
Identities == [s \in 1 .. 2 |-> "d"]
StreamConn == [s \in 1 .. 3 |-> IF s = 3 THEN 1 ELSE s]

Init ==
    /\ service \in {"udp", "tcp", "raw", "relay", "serve", "acme"}
    /\ UdpInit /\ TcpInit /\ RelayInit /\ RawInit /\ ServeInit /\ AcmeInit
    \* One initial state for each service that is at rest.
    /\ service # "serve" => transport = "tcp"
    /\ service # "acme" => custody = "file"
    /\ service # "udp" => limits = CHOOSE t \in Caps : validate_ingress_caps(t)
Next ==
    /\ UNCHANGED service
    /\ \/ service = "udp" /\ UdpNext /\ UNCHANGED <<tcpOwn, rawOwn, relayOwn, serveOwn, acmeVars>>
       \/ service = "tcp" /\ TcpNext /\ UNCHANGED <<udpOwn, rawOwn, relayOwn, serveOwn, acmeVars>>
       \/ service = "raw" /\ RawNext /\ UNCHANGED <<udpOwn, tcpOwn, relayOwn, serveOwn, acmeVars>>
       \/ service = "relay" /\ RelayNext /\ UNCHANGED <<udpOwn, tcpOwn, rawOwn, serveOwn, acmeVars>>
       \/ service = "serve" /\ ServeNext /\ UNCHANGED <<udpOwn, tcpOwn, rawOwn, relayOwn, acmeVars>>
       \/ service = "acme" /\ AcmeNext /\ UNCHANGED <<shutdown, udpOwn, tcpOwn, rawOwn, relayOwn, serveOwn>>

\* Each module's fairness, for the service that runs.
Fairness ==
    /\ WF_udpVars(service = "udp" /\ UdpProgress) /\ WF_tcpVars(service = "tcp" /\ TcpProgress)
    /\ WF_rawVars(service = "raw" /\ RawProgress) /\ WF_serveVars(service = "serve" /\ ServeProgress)
    /\ WF_acmeVars(service = "acme" /\ AcmeProgress)
Spec == Init /\ [][Next]_vars /\ Fairness

\* The types of every service, with the permits that its tasks hold.
TypeOK == UdpTypeOK /\ TcpTypeOK /\ RawTypeOK /\ RelayTypeOK /\ ServeTypeOK /\ AcmeTypeOK

\* Both ingresses' counters: received (accepted) = relayed + dropped + in hand,
\* and after the token what a returning UDP writer left.
Accounted == UdpAccounted /\ TcpAccounted

\* What each service owes: a UDP ingress's pipeline empties and a TCP ingress's
\* tasks end after the shutdown, but for what waits for a backend, a relay does not outlive the denial of its
\* device, a stream reaches its handler or ends, and the process exits after
\* the signal.
Settles ==
    /\ service = "udp" => UdpSettles
    /\ service = "tcp" => TcpStops
    /\ service = "raw" => DeniedRelayEnds
    /\ service = "serve" => StreamSettles /\ ShutdownEnds
=============================================================================
