------------------------------- MODULE Relay -------------------------------
(***************************************************************************)
(* relay_bidirectional (proxy/relay.rs): bytes are copied both ways until  *)
(* both sides have ended, an error, an idle timeout or a cancellation.     *)
(* The copy loops record their activity in a tracker; the idle watchdog    *)
(* sleeps to the deadline that the last activity implies and compares.     *)
(* The clock counts the tracker's milliseconds.                            *)
(***************************************************************************)
EXTENDS Shutdown, Naturals

CONSTANTS
    IdleTimeout,   \* idle_timeout
    MaxTime        \* bound: how long a relay is followed

ASSUME RelayAssumption == IdleTimeout \in Nat \ {0} /\ MaxTime \in Nat

VARIABLES
    now,        \* milliseconds since the start of the relay
    last,       \* last_activity_ms
    armed,      \* the watchdog's armed_at_ms
    sides,      \* sides whose reads have not reached their end
    moved,      \* did the last millisecond of activity move bytes each way?
    ending     \* "running", a RelayEnd, or "error"

relayVars == <<shutdown, now, last, armed, sides, moved, ending>>

RelayTypeOK ==
    /\ now \in 0 .. MaxTime /\ last \in 0 .. now /\ armed \in 0 .. last
    /\ sides \subseteq {"a", "b"} /\ moved \subseteq {"a", "b"}
    /\ ending \in {"running", "Completed", "IdleTimeout", "Cancelled", "error"}

RelayInit ==
    /\ shutdown = FALSE
    /\ now = 0 /\ last = 0 /\ armed = 0
    /\ sides = {"a", "b"} /\ moved = {}
    /\ ending = "running"

\* The watchdog's deadline.
deadline == armed + IdleTimeout

\* A read from side and the write to the other one: touch().
Copy(side) ==
    /\ ending = "running" /\ side \in sides
    /\ last' = now
    /\ moved' = moved \union {side}
    /\ UNCHANGED <<shutdown, now, armed, sides, ending>>

\* side's reads end: copy_bidirectional shuts the other side's writes down and
\* goes on with the other direction, until both are done.  No touch.
Eof(side) ==
    /\ ending = "running" /\ side \in sides
    /\ sides' = sides \ {side}
    /\ ending' = IF sides' = {} THEN "Completed" ELSE "running"
    /\ UNCHANGED <<shutdown, now, last, armed, moved>>

RelayError ==
    /\ ending = "running"
    /\ ending' = "error"
    /\ UNCHANGED <<shutdown, now, last, armed, sides, moved>>

\* Mutant: the watchdog arms again from the moment it woke.
idle_watchdog_from_now ==
    /\ ending = "running" /\ now >= deadline
    /\ IF last <= armed THEN ending' = "IdleTimeout" /\ UNCHANGED armed
                        ELSE armed' = now /\ UNCHANGED ending
    /\ UNCHANGED <<shutdown, now, last, sides, moved>>

\* idle_watchdog: the deadline has come; return, or arm again from the activity.
idle_watchdog ==
    /\ ending = "running" /\ now >= deadline
    /\ IF last = armed THEN ending' = "IdleTimeout" /\ UNCHANGED armed
                       ELSE armed' = last /\ UNCHANGED ending
    /\ UNCHANGED <<shutdown, now, last, sides, moved>>

RelayCancelled ==
    /\ ending = "running" /\ shutdown
    /\ ending' = "Cancelled"
    /\ UNCHANGED <<shutdown, now, last, armed, sides, moved>>

\* A millisecond passes.  Timers are on time: not past a due watchdog.
Millisecond ==
    /\ ending = "running" /\ now < MaxTime /\ now < deadline
    /\ now' = now + 1 /\ moved' = {}
    /\ UNCHANGED <<shutdown, last, armed, sides, ending>>

RelayShutdown == Cancel /\ UNCHANGED <<now, last, armed, sides, moved, ending>>

RelayNext ==
    \/ \E side \in {"a", "b"} : Copy(side) \/ Eof(side)
    \/ RelayError \/ idle_watchdog \/ RelayCancelled \/ Millisecond \/ RelayShutdown

RelaySpec == RelayInit /\ [][RelayNext]_relayVars

\* "An active transfer re-arms it indefinitely": the relay ends as idle after
\* exactly idle_timeout without activity in either direction, and never runs
\* longer than that without any.
IdleIsExact ==
    /\ ending = "running" => now - last <= IdleTimeout
    /\ ending = "IdleTimeout" => now - last = IdleTimeout
=============================================================================
