-------------------------- MODULE MCTunnelRegistry --------------------------
(***************************************************************************)
(* Instances of TunnelRegistry.  Two connections present certificates for  *)
(* the same backend, so a reconnect or a clone meets its predecessor; the  *)
(* third belongs to another backend and advertises the control capability. *)
(***************************************************************************)
EXTENDS TunnelRegistry

CONSTANTS c1, c2, c3, b1, b2, k1, k2

\* Registration and revocation races, three pipelines at once.
MCConns == {c1, c2, c3}
MCCn == [c \in MCConns |-> IF c = c3 THEN b2 ELSE b1]
MCKey == [c \in MCConns |-> IF c = c1 THEN k1 ELSE k2]
MCDenylists == {{}, {k1, b2}}

\* Life cycle of two sessions of one backend: eviction, sweep, shutdown.
MCPair == {c1, c2}
MCPairCn == [c \in MCPair |-> b1]
MCPairKey == [c \in MCPair |-> IF c = c1 THEN k1 ELSE k2]
MCPairDenylists == {{}, {k1}}
=============================================================================
