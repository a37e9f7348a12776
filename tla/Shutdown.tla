------------------------------ MODULE Shutdown ------------------------------
(***************************************************************************)
(* The CancellationToken that startup::run creates and hands to every      *)
(* listener, worker and relay.  It is cancelled once, by shutdown_signal.  *)
(***************************************************************************)
VARIABLE shutdown    \* is the token cancelled?

\* SIGINT or SIGTERM arrived: token.cancel().
Cancel == ~shutdown /\ shutdown' = TRUE
=============================================================================
