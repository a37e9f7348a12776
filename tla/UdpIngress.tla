----------------------------- MODULE UdpIngress -----------------------------
(***************************************************************************)
(* One worker of a UDP ingress (ingress/udp.rs) with its per-backend       *)
(* batches (ingress/batch.rs) and writers (ingress/udp/writer.rs).         *)
(*                                                                         *)
(* Workers of one ingress share nothing but atomic counters, and a peer's  *)
(* datagrams all reach the same worker.  Which member the balancer selects *)
(* and whether the circuit is open are the environment's choices here:     *)
(* they have modules of their own.  Time is abstracted to what it decides: *)
(* a timer tick, a batch's linger, the end of a reconnect backoff.         *)
(***************************************************************************)
EXTENDS Shutdown, Naturals, Sequences, FiniteSets, SequencesExt

CONSTANTS
    Members,        \* the ingress's backends, each with a queue and a writer
    Payloads,       \* sizes that a datagram may have
    Tunables,       \* the [datagrams, bytes, payload] caps that configs hold
    MaxFrame,       \* MAX_ENVELOPE_FRAME
    QueueDepth,     \* queue_depth_per_backend
    MaxDatagrams,   \* bound: datagrams that arrive
    MaxReloads      \* bound: config reloads

\* Caps that validate_ingress_caps lets a loaded configuration have.
validate_ingress_caps(t) ==
    /\ t.payload > 0 /\ t.datagrams > 0 /\ t.bytes > 0
    /\ t.bytes >= t.payload
    /\ t.bytes <= MaxFrame

ASSUME UdpAssumption ==
    /\ IsFiniteSet(Members) /\ Members # {}
    /\ Payloads \subseteq Nat
    /\ Tunables \subseteq [datagrams : Nat, bytes : Nat, payload : Nat]
    /\ \E t \in Tunables : validate_ingress_caps(t)
    /\ {MaxFrame, QueueDepth, MaxDatagrams, MaxReloads} \subseteq Nat /\ QueueDepth > 0

VARIABLES
    limits,     \* the tunables in force
    reloads,    \* how many reloads were applied
    worker,     \* is the recv loop running?
    batches,    \* the batch being filled for each member
    lingered,   \* members whose batch has seen a tick of the linger timer
    queues,     \* the bounded channel to each writer
    writers,    \* each writer: where it stands, the batch in its hands, its stream
    received,   \* IngressCounters: datagrams received,
    relayed,    \*   relayed,
    dropped,    \*   and dropped, for all reasons together
    forgotten,  \* history: datagrams that were queued when their writer returned
    lastSent    \* history: number of the last datagram relayed to each member

udpVars == <<shutdown, limits, reloads, worker, batches, lingered, queues, writers,
             received, relayed, dropped, forgotten, lastSent>>
countVars == <<received, relayed, dropped, forgotten, lastSent>>

Datagram == [no : 1 .. MaxDatagrams, size : Payloads]
IdleWriter == [at |-> "idle", batch |-> <<>>, stream |-> FALSE, cooldown |-> FALSE]

payload_bytes(batch) == FoldLeft(LAMBDA n, d : n + d.size, 0, batch)

\* The datagrams, by their numbers, of a batch, of a queue, of a writer's batch,
\* a queue and the batch being filled, and of a member's whole pipeline.
Numbers(batch) == {batch[i].no : i \in DOMAIN batch}
InQueue(q) == UNION {Numbers(q[j]) : j \in DOMAIN q}
Line(w, q, b) == Numbers(w) \union InQueue(q) \union Numbers(b)
InPipe(m) == Line(writers[m].batch, queues[m], batches[m])

UdpTypeOK ==
    /\ limits \in {t \in Tunables : validate_ingress_caps(t)}
    /\ reloads \in 0 .. MaxReloads /\ worker \in BOOLEAN
    /\ \A m \in Members :
         /\ \A i \in 1 .. Len(batches[m]) : batches[m][i] \in Datagram
         /\ Len(queues[m]) <= QueueDepth
         /\ \A i \in 1 .. Len(queues[m]) : queues[m][i] # <<>>
         /\ writers[m].at \in {"idle", "dial", "write", "stopped"}
         /\ (writers[m].at \in {"dial", "write"}) <=> (writers[m].batch # <<>>)
         /\ (writers[m].at = "write" => writers[m].stream)
    /\ lingered \subseteq {m \in Members : batches[m] # <<>>}
    /\ received \in 0 .. MaxDatagrams /\ relayed \in 0 .. MaxDatagrams
    /\ dropped \in 0 .. MaxDatagrams /\ forgotten \in 0 .. MaxDatagrams

\* spawn_worker: a channel and a writer for every member, then the recv loop.
UdpInit ==
    /\ shutdown = FALSE
    /\ limits \in {t \in Tunables : validate_ingress_caps(t)}
    /\ reloads = 0 /\ worker = TRUE
    /\ batches = [m \in Members |-> <<>>] /\ lingered = {}
    /\ queues = [m \in Members |-> <<>>]
    /\ writers = [m \in Members |-> IdleWriter]
    /\ received = 0 /\ relayed = 0 /\ dropped = 0
    /\ forgotten = 0 /\ lastSent = [m \in Members |-> 0]

-----------------------------------------------------------------------------
(* The recv loop.                                                          *)

record_drop(n) == dropped' = dropped + n

\* enqueue_batch (through flush_backend) for all members of due at once, in
\* terms of the batches in bs: try_send, and a counted drop if the queue is
\* full or its writer gone.
enqueue_batch(bs, due) ==
    LET closed == {m \in due : writers[m].at = "stopped"}
        full   == {m \in due \ closed : Len(queues[m]) = QueueDepth}
        Of(ms) == UNION {{m} \X DOMAIN bs[m] : m \in ms}
    IN  /\ queues' = [m \in Members |-> IF m \in due \ (closed \union full)
                                         THEN Append(queues[m], bs[m]) ELSE queues[m]]
        /\ batches' = [m \in Members |-> IF m \in due THEN <<>> ELSE bs[m]]
        /\ record_drop(Cardinality(Of(full \union closed)))

\* fill_flush: the count or the byte trigger, looked at right after a push.
fill_flush(batch) == Len(batch) >= limits.datagrams \/ payload_bytes(batch) >= limits.bytes

\* handle_datagram turns a datagram away: admit refuses it (access list, rate
\* limit, size), or there is no member to select.
Refuse == record_drop(1) /\ UNCHANGED <<batches, lingered, queues>>

\* handle_datagram pushes an admitted datagram and flushes a full batch.
Push(size, m) ==
    LET pushed == [batches EXCEPT ![m] = Append(@, [no |-> received + 1, size |-> size])]
        due == IF fill_flush(pushed[m]) THEN {m} ELSE {}
    IN  /\ size <= limits.payload
        /\ enqueue_batch(pushed, due)
        /\ lingered' = lingered \ due

handle_datagram ==
    /\ worker /\ received < MaxDatagrams
    /\ received' = received + 1
    /\ Refuse \/ \E size \in Payloads, m \in Members : Push(size, m)
    /\ UNCHANGED <<shutdown, limits, reloads, worker, writers, relayed, forgotten, lastSent>>

\* The linger timer: flush_expired.  A batch that was already there at the
\* last tick is due; one that was opened since is due if the tick is late.
flush_expired ==
    /\ worker
    /\ \E due \in SUBSET {m \in Members : batches[m] # <<>>} :
         /\ lingered \subseteq due
         /\ enqueue_batch(batches, due)
         /\ lingered' = {m \in Members : batches'[m] # <<>>}
    /\ UNCHANGED <<shutdown, limits, reloads, worker, writers, received, relayed, forgotten, lastSent>>

\* apply_reload: the tunables change under the batches; a longer linger
\* makes a batch young again.
apply_reload ==
    /\ worker /\ reloads < MaxReloads
    /\ reloads' = reloads + 1
    /\ limits' \in {t \in Tunables : validate_ingress_caps(t)}
    /\ lingered' \in SUBSET lingered
    /\ UNCHANGED <<shutdown, worker, batches, queues, writers, countVars>>

\* The shutdown arm: flush_all, one last hand-off to the writers.
flush_all ==
    /\ worker /\ shutdown
    /\ worker' = FALSE
    /\ enqueue_batch(batches, {m \in Members : batches[m] # <<>>})
    /\ lingered' = {}
    /\ UNCHANGED <<shutdown, limits, reloads, writers, received, relayed, forgotten, lastSent>>

-----------------------------------------------------------------------------
(* A writer.  Its select is unbiased: after the shutdown it may still take *)
(* batches from its queue before it returns.                               *)

\* Mutant: a batch that an open circuit or the backoff sheds is not counted.
TakeUncounted(m) ==
    LET batch == Head(queues[m])
        w == writers[m]
    IN  /\ w.at = "idle" /\ queues[m] # <<>>
        /\ queues' = [queues EXCEPT ![m] = Tail(@)]
        /\ \/ UNCHANGED writers
           \/ writers' = [writers EXCEPT ![m] =
                            [w EXCEPT !.at = IF w.stream THEN "write" ELSE "dial", !.batch = batch]]
        /\ UNCHANGED <<shutdown, limits, reloads, worker, batches, lingered, received, relayed, dropped, forgotten, lastSent>>

\* BackendWriter::run receives a batch.  write_batch's gates shed it (an open
\* circuit, at any time, or the backoff), or it goes on to dial or to write.
Take(m) ==
    LET batch == Head(queues[m])
        w == writers[m]
    IN  /\ w.at = "idle" /\ queues[m] # <<>>
        /\ queues' = [queues EXCEPT ![m] = Tail(@)]
        /\ \/ /\ record_drop(Len(batch))
              /\ UNCHANGED writers
           \/ /\ ~w.cooldown
              /\ writers' = [writers EXCEPT ![m] =
                               [w EXCEPT !.at = IF w.stream THEN "write" ELSE "dial", !.batch = batch]]
              /\ UNCHANGED dropped
        /\ UNCHANGED <<shutdown, limits, reloads, worker, batches, lingered, received, relayed, forgotten, lastSent>>

\* on_failure: the stream is dropped, the backoff armed, the batch counted.
on_failure(m) ==
    /\ writers' = [writers EXCEPT ![m] = [IdleWriter EXCEPT !.cooldown = TRUE]]
    /\ record_drop(Len(writers[m].batch))
    /\ UNCHANGED <<relayed, lastSent>>

dial(m) ==
    /\ writers[m].at = "dial"
    /\ \/ /\ writers' = [writers EXCEPT ![m] =
                           [@ EXCEPT !.at = "write", !.stream = TRUE, !.cooldown = FALSE]]
          /\ UNCHANGED <<dropped, relayed, lastSent>>
       \/ on_failure(m)
    /\ UNCHANGED <<shutdown, limits, reloads, worker, batches, lingered, queues, received, forgotten>>

\* protocol::encode: a frame longer than MAX_ENVELOPE_FRAME is an error.
\* (The encoding's own overhead comes on top of the payloads.)
encode(batch) == payload_bytes(batch) <= MaxFrame

\* Mutant: a batch whose write failed goes back to its queue.
write_batch_requeues(m) ==
    LET batch == writers[m].batch
    IN  /\ writers[m].at = "write"
        /\ \/ /\ encode(batch)
              /\ relayed' = relayed + Len(batch)
              /\ lastSent' = [lastSent EXCEPT ![m] = Last(batch).no]
              /\ UNCHANGED queues
           \/ /\ Len(queues[m]) < QueueDepth
              /\ queues' = [queues EXCEPT ![m] = Append(@, batch)]
              /\ UNCHANGED <<relayed, lastSent>>
        /\ writers' = [writers EXCEPT ![m] = [@ EXCEPT !.at = "idle", !.batch = <<>>]]
        /\ UNCHANGED <<shutdown, limits, reloads, worker, batches, lingered, received, dropped, forgotten>>

write_batch(m) ==
    LET batch == writers[m].batch
    IN  /\ writers[m].at = "write"
        /\ \/ /\ encode(batch)
              /\ relayed' = relayed + Len(batch)
              /\ lastSent' = [lastSent EXCEPT ![m] = Last(batch).no]
              /\ writers' = [writers EXCEPT ![m] = [@ EXCEPT !.at = "idle", !.batch = <<>>]]
              /\ UNCHANGED dropped
           \/ on_failure(m)
        /\ UNCHANGED <<shutdown, limits, reloads, worker, batches, lingered, queues, received, forgotten>>

\* Instant::now() has passed cooldown_until.
CooldownOver(m) ==
    /\ writers[m].at = "idle" /\ writers[m].cooldown
    /\ writers' = [writers EXCEPT ![m].cooldown = FALSE]
    /\ UNCHANGED <<shutdown, limits, reloads, worker, batches, lingered, queues, countVars>>

\* The writer returns: on the token, whatever its queue holds, or when the
\* worker is gone and the queue is empty.  Its receiver goes with it.
Return(m) ==
    /\ writers[m].at = "idle"
    /\ shutdown \/ (~worker /\ queues[m] = <<>>)
    /\ writers' = [writers EXCEPT ![m] = [IdleWriter EXCEPT !.at = "stopped"]]
    /\ forgotten' = forgotten + Cardinality(InQueue(queues[m]))
    /\ queues' = [queues EXCEPT ![m] = <<>>]
    /\ UNCHANGED <<shutdown, limits, reloads, worker, batches, lingered, received, relayed, dropped, lastSent>>

WriterStep(m) == Take(m) \/ dial(m) \/ write_batch(m) \/ Return(m)
Awaits(m) == writers[m].at \in {"dial", "write"}

UdpShutdown ==
    /\ Cancel
    /\ UNCHANGED <<limits, reloads, worker, batches, lingered, queues, writers, countVars>>

UdpNext ==
    \/ handle_datagram \/ flush_expired \/ apply_reload \/ flush_all
    \/ \E m \in Members : WriterStep(m) \/ CooldownOver(m)
    \/ UdpShutdown

\* The runtime polls the worker and every writer again and again, and the
\* timer ticks.  A dial and a write may take for ever: only the QUIC handshake
\* is under connect_timeout; open_bi, write_preamble and write_frame have
\* neither a timeout nor an arm for the token.
\* (Each can only go on for so long, so one fairness condition serves all.)
UdpProgress == flush_expired \/ flush_all \/ \E m \in Members : ~Awaits(m) /\ WriterStep(m)
UdpSpec == UdpInit /\ [][UdpNext]_udpVars /\ WF_udpVars(UdpProgress)
-----------------------------------------------------------------------------
(* Properties.                                                             *)

\* The counters with what is still in the pipeline, where no datagram is in the
\* hands of two members: before the token every datagram that is received is
\* relayed, dropped for a reason or on its way; after it all but the batches
\* that a returning writer leaves in its channel (CountersClose is about them).
UdpAccounted ==
    /\ received = relayed + dropped + Cardinality(UNION {InPipe(m) : m \in Members}) + forgotten
    /\ \A m, n \in Members : m # n => InPipe(m) \intersect InPipe(n) = {}
    /\ forgotten > 0 => shutdown

\* metrics.rs: "received == relayed + sum of dropped (at quiescence)", and udp.rs:
\* every datagram leaves as a relayed count or exactly one drop reason, "never a
\* silent drop".
CountersClose == (\A m \in Members : InPipe(m) = {}) => received = relayed + dropped

\* A pipeline in order: the batch w in the writer's hands, the queue q, the
\* batch b being filled; above the last datagram relayed, up to the last one
\* received.
Rising(batch) == \A i, j \in DOMAIN batch : i < j => batch[i].no < batch[j].no
Before(b, c) == \A x \in Numbers(b), y \in Numbers(c) : x < y
Ordered(w, q, b, sent, seen) ==
    /\ Rising(w) /\ Rising(b) /\ \A j \in DOMAIN q : Rising(q[j])
    /\ \A i, j \in DOMAIN q : i < j => Before(q[i], q[j])
    /\ \A j \in DOMAIN q : Before(w, q[j]) /\ Before(q[j], b)
    /\ Before(w, b)
    /\ \A x \in Line(w, q, b) : sent < x /\ x <= seen

\* The per-peer order that resolve_worker_count's comment promises: through
\* batches, queue, redials and drops, a member gets datagrams in the order of
\* their arrival.
UdpInOrder == \A m \in Members : Ordered(writers[m].batch, queues[m], batches[m], lastSent[m], received)

\* A datagram never waits for ever but behind a dial or a write that does:
\* linger flushes a partial batch even then, and every other writer empties its
\* queue, also across reloads, failing members and the shutdown.
UdpSettles == <>[](\A m \in Members : batches[m] = <<>> /\ (InPipe(m) = {} \/ Awaits(m)))

\* batch.rs: batch_max_bytes is "sized so one encoded frame stays under
\* MAX_ENVELOPE_FRAME".
FrameFits == \A m \in Members : encode(writers[m].batch)
=============================================================================
