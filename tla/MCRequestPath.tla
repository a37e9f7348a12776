--------------------------- MODULE MCRequestPath ---------------------------
(***************************************************************************)
(* Instances of RequestPath: a wakeable backend and an ordinary one next   *)
(* to it, each with a single connection, so that permits are contended and *)
(* two requests leave no member eligible.                                  *)
(***************************************************************************)
EXTENDS RequestPath

CONSTANTS b1, b2

MCMaxConns == [b \in Backends |-> 1]
=============================================================================
