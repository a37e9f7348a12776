---------------------------- MODULE RequestPath ----------------------------
(***************************************************************************)
(* The HTTP request path: proxy_handler and the retry loop it drives       *)
(* (src/src/proxy/handler.rs, handler/attempt.rs, handler/body.rs, and the *)
(* permits of balancer/queue.rs and proxy/pool.rs).                        *)
(*                                                                         *)
(* Every request is a task; a step runs to the next await, or to a shared  *)
(* semaphore another thread may win first.  At an await the client may go  *)
(* away, which drops the task and with it every guard it owns.  Answers of *)
(* the circuit breaker, backends' health and the passing of time are       *)
(* nondeterministic; CircuitBreaker says what the breaker does with them.  *)
(***************************************************************************)
EXTENDS Naturals, FiniteSets

CONSTANTS
    Requests,
    Backends,      \* members of the route's pool
    Wakeable,      \* members with wakeable = true
    Tunnelled,     \* members reached through a tunnel session
    Flaky,         \* members whose health changes
    NoBackend,
    MaxConns,      \* max_connections of each member
    QueueDepth,    \* default_queue_depth
    MaxRetries     \* retry.max_retries

ASSUME RequestPathAssumption ==
    /\ IsFiniteSet(Requests) /\ IsFiniteSet(Backends)
    /\ NoBackend \notin Backends
    /\ Wakeable \subseteq Backends /\ Tunnelled \subseteq Backends /\ Flaky \subseteq Backends
    /\ MaxConns \in [Backends -> Nat \ {0}]
    /\ QueueDepth \in Nat
    /\ MaxRetries \in Nat

VARIABLES
    pc,         \* where the request's task stands
    replayable, \* requests with an idempotent method or an idempotency key
    attempts,   \* max_attempts
    body,       \* ReplayBody: "bytes", "stream", or "taken" once streamed
    attempt,    \* the retry loop's counter
    failed,     \* retry.failed_backends
    last,       \* backend of retry.last_response
    at,         \* backend selected for this attempt
    conn,       \* backend whose guards the request holds: a connection permit
                \* and, if the attempt is a probe, a half-open guard
    queued,     \* requests holding a slot of the request queue
    online,     \* members the health state gives a positive weight
    stalled,    \* requests whose backend stopped sending body frames
    sends       \* history: times the request was handed to a backend

loopVars  == <<replayable, attempts, body, attempt, failed, last>>
guardVars == <<conn, queued>>
vars == <<pc, loopVars, at, guardVars, online, stalled, sends>>

\* The task is at an await, or its response body is being polled.
Awaits == {"prepare", "forward", "park", "backoff", "backoffResponse", "collect", "stream"}
PcStates == Awaits \cup {"new", "loop", "gate", "done"}
TypeOK ==
    /\ pc \in [Requests -> PcStates]
    /\ replayable \subseteq Requests
    /\ attempts \in [Requests -> 0 .. MaxRetries + 1]
    /\ body \in [Requests -> {"none", "bytes", "stream", "taken"}]
    /\ attempt \in [Requests -> 0 .. MaxRetries + 1]
    /\ failed \in [Requests -> SUBSET Backends]
    /\ last \in [Requests -> Backends \cup {NoBackend}]
    /\ at \in [Requests -> Backends \cup {NoBackend}]
    /\ conn \in [Requests -> Backends \cup {NoBackend}]
    /\ queued \subseteq Requests
    /\ online \subseteq Backends
    /\ stalled \subseteq Requests
    /\ sends \in [Requests -> Nat]

Init ==
    /\ pc = [r \in Requests |-> "new"]
    /\ replayable = {}
    /\ attempts = [r \in Requests |-> 0]
    /\ body = [r \in Requests |-> "none"]
    /\ attempt = [r \in Requests |-> 0]
    /\ failed = [r \in Requests |-> {}]
    /\ last = [r \in Requests |-> NoBackend]
    /\ at = [r \in Requests |-> NoBackend]
    /\ conn = [r \in Requests |-> NoBackend]
    /\ queued = {}
    /\ online = Backends
    /\ stalled = {}
    /\ sends = [r \in Requests |-> 0]

Holders(b) == {r \in Requests : conn[r] = b}

\* A positive scored weight: not offline, not fully connection-pressured.
Eligible == {b \in online : Cardinality(Holders(b)) < MaxConns[b]}

Goto(r, from, to) ==
    /\ pc[r] = from
    /\ pc' = [pc EXCEPT ![r] = to]

-----------------------------------------------------------------------------
(* Guards and ends.  A task that ends drops every guard it owns.           *)

DropAttempt(r) ==
    /\ conn' = [conn EXCEPT ![r] = NoBackend]
    /\ at' = [at EXCEPT ![r] = NoBackend]

\* The handler has returned: its locals are gone and nothing is sent any more.
Forget(r) ==
    /\ replayable' = replayable \ {r}
    /\ attempts' = [attempts EXCEPT ![r] = 0]
    /\ body' = [body EXCEPT ![r] = "none"]
    /\ attempt' = [attempt EXCEPT ![r] = 0]
    /\ failed' = [failed EXCEPT ![r] = {}]
    /\ last' = [last EXCEPT ![r] = NoBackend]
    /\ sends' = [sends EXCEPT ![r] = 0]

Finish(r) ==
    /\ pc' = [pc EXCEPT ![r] = "done"]
    /\ DropAttempt(r)
    /\ queued' = queued \ {r}
    /\ stalled' = stalled \ {r}
    /\ Forget(r)
    /\ UNCHANGED online

\* After the loop: the last retryable response is streamed to the client with
\* the request-level guards only; without one the answer is a 502.
Exhausted(r) ==
    \/ /\ last[r] = NoBackend
       /\ Finish(r)
    \/ /\ last[r] # NoBackend
       /\ pc' = [pc EXCEPT ![r] = "stream"]
       /\ DropAttempt(r)
       /\ Forget(r)
       /\ UNCHANGED <<queued, online, stalled>>

\* Mutant of Continue: a skipped backend does not use up an attempt.
ContinueUncounted(r, tried, response) ==
    /\ pc' = [pc EXCEPT ![r] = "loop"]
    /\ failed' = [failed EXCEPT ![r] = @ \cup tried]
    /\ last' = [last EXCEPT ![r] = IF response = NoBackend THEN @ ELSE response]
    /\ DropAttempt(r)
    /\ UNCHANGED <<replayable, attempts, body, attempt, queued, online, stalled, sends>>

\* AttemptOutcome::Continue: the attempt's guards are gone, the loop goes on.
Continue(r, tried, response) ==
    /\ pc' = [pc EXCEPT ![r] = "loop"]
    /\ attempt' = [attempt EXCEPT ![r] = @ + 1]
    /\ failed' = [failed EXCEPT ![r] = @ \cup tried]
    /\ last' = [last EXCEPT ![r] = IF response = NoBackend THEN @ ELSE response]
    /\ DropAttempt(r)
    /\ UNCHANGED <<replayable, attempts, body, queued, online, stalled, sends>>

-----------------------------------------------------------------------------
(* Admission and the replay body.                                          *)

\* Draining, rejected before routing, served from the cache, no route or pool.
AnswerEarly(r) ==
    /\ pc[r] = "new"
    /\ Finish(r)

\* route_and_admit takes a slot of the pool's queue, or answers 503.
Admit(r, retries) ==
    /\ \/ /\ Cardinality(queued) < QueueDepth
          /\ Goto(r, "new", "prepare")
          /\ queued' = queued \cup {r}
          /\ replayable' = IF retries THEN replayable \cup {r} ELSE replayable
          /\ UNCHANGED <<attempts, body, attempt, failed, last,
                         at, conn, online, stalled, sends>>
       \/ /\ Cardinality(queued) >= QueueDepth
          /\ pc[r] = "new"
          /\ Finish(r)

\* Mutant of Prepare: every request gets the retry budget.
PrepareAlwaysRetries(r, large) ==
    /\ Goto(r, "prepare", "loop")
    /\ attempts' = [attempts EXCEPT ![r] = MaxRetries + 1]
    /\ body' = [body EXCEPT ![r] = IF attempts'[r] > 1 /\ ~large THEN "bytes" ELSE "stream"]
    /\ UNCHANGED <<replayable, attempt, failed, last, at, guardVars, online, stalled, sends>>

\* prepare_replay_body: the retry budget is for replayable requests; the body
\* is buffered for replay if there is one and the declared length fits the
\* cap, and streams through otherwise.
Prepare(r, large) ==
    /\ Goto(r, "prepare", "loop")
    /\ attempts' = [attempts EXCEPT ![r] = IF r \in replayable THEN MaxRetries + 1 ELSE 1]
    /\ body' = [body EXCEPT ![r] = IF attempts'[r] > 1 /\ ~large THEN "bytes" ELSE "stream"]
    /\ UNCHANGED <<replayable, attempt, failed, last, at, guardVars, online, stalled, sends>>

\* The body could not be read, decompressed or held.
PrepareRespond(r) ==
    /\ pc[r] = "prepare"
    /\ Finish(r)

-----------------------------------------------------------------------------
(* The retry loop: select_and_gate and build_retry_req.                    *)

\* Less than the connect budget is left before the request's deadline.
OutOfBudget(r) ==
    /\ pc[r] = "loop"
    /\ attempt[r] < attempts[r]
    /\ Exhausted(r)

OutOfAttempts(r) ==
    /\ pc[r] = "loop"
    /\ attempt[r] = attempts[r]
    /\ Exhausted(r)

NoneEligible(r) ==
    /\ pc[r] = "loop"
    /\ attempt[r] < attempts[r]
    /\ Eligible = {}
    /\ Exhausted(r)

\* An eligible member not yet tried if there is one, else any eligible one;
\* which of them the client's rendezvous hash decides.
Select(r, b) ==
    /\ attempt[r] < attempts[r]
    /\ b \in Eligible
    /\ b \notin failed[r] \/ Eligible \subseteq failed[r]
    /\ Goto(r, "loop", "gate")
    /\ at' = [at EXCEPT ![r] = b]
    /\ UNCHANGED <<loopVars, guardVars, online, stalled, sends>>

\* Another request took the last permit between the selection and this.
GateBusy(r) ==
    /\ pc[r] = "gate"
    /\ Cardinality(Holders(at[r])) >= MaxConns[at[r]]
    /\ Continue(r, {at[r]}, NoBackend)

\* The permit is taken and, the circuit being open, dropped again.
GateOpen(r) ==
    /\ pc[r] = "gate"
    /\ Cardinality(Holders(at[r])) < MaxConns[at[r]]
    /\ Continue(r, {at[r]}, NoBackend)

\* The streaming body went with an earlier attempt: stop retrying.
GateConsumed(r) ==
    /\ pc[r] = "gate"
    /\ Cardinality(Holders(at[r])) < MaxConns[at[r]]
    /\ body[r] = "taken"
    /\ Exhausted(r)

\* Mutant of GateForward: the permit is taken without looking at the limit.
GateForwardUnchecked(r) ==
    /\ Goto(r, "gate", "forward")
    /\ body[r] # "taken"
    /\ conn' = [conn EXCEPT ![r] = at[r]]
    /\ body' = [body EXCEPT ![r] = IF @ = "bytes" THEN @ ELSE "taken"]
    /\ sends' = [sends EXCEPT ![r] = @ + 1]
    /\ UNCHANGED <<replayable, attempts, attempt, failed, last, at, queued, online, stalled>>

GateForward(r) ==
    /\ Goto(r, "gate", "forward")
    /\ Cardinality(Holders(at[r])) < MaxConns[at[r]]
    /\ body[r] # "taken"
    /\ conn' = [conn EXCEPT ![r] = at[r]]
    /\ body' = [body EXCEPT ![r] = IF @ = "bytes" THEN @ ELSE "taken"]
    /\ sends' = [sends EXCEPT ![r] = @ + 1]
    /\ UNCHANGED <<replayable, attempts, attempt, failed, last, at, queued, online, stalled>>

-----------------------------------------------------------------------------
(* forward_request returns: handle_response and handle_forward_error.      *)

IsFinal(r) == attempt[r] + 1 >= attempts[r]

\* A transport miss on a wakeable backend: wait for the wake, guards in hand.
ForwardMissed(r) ==
    /\ at[r] \in Wakeable
    /\ Goto(r, "forward", "park")
    /\ UNCHANGED <<loopVars, at, guardVars, online, stalled, sends>>

\* Any other error, or a retryable status: sleep and retry, guards in hand.
\* On the final attempt an error is a 502.
ForwardFailed(r) ==
    \/ /\ ~IsFinal(r)
       /\ \/ Goto(r, "forward", "backoff")
          \/ Goto(r, "forward", "backoffResponse")
       /\ failed' = [failed EXCEPT ![r] = @ \cup {at[r]}]
       /\ UNCHANGED <<replayable, attempts, body, attempt, last, at, guardVars, online, stalled, sends>>
    \/ /\ IsFinal(r)
       /\ pc[r] = "forward"
       /\ Finish(r)

\* A response to hand on: the handler returns it and its body takes the guards
\* along, but a cacheable one is first read to its end.
ForwardAnswered(r) ==
    /\ \/ Goto(r, "forward", "stream") /\ Forget(r)
       \/ Goto(r, "forward", "collect") /\ UNCHANGED <<loopVars, sends>>
    /\ UNCHANGED <<at, guardVars, online, stalled>>

BackoffEnd(r) ==
    /\ \/ pc[r] = "backoff" /\ Continue(r, {}, NoBackend)
       \/ pc[r] = "backoffResponse" /\ Continue(r, {}, at[r])

\* The woken backend is reachable: AttemptOutcome::Continue.
ParkReleased(r) ==
    /\ pc[r] = "park"
    /\ Continue(r, {}, NoBackend)

\* The wake deadline passed or the wake was refused: a 503 with Retry-After.
ParkRefused(r) ==
    /\ pc[r] = "park"
    /\ Finish(r)

-----------------------------------------------------------------------------
(* The response body: collected for the cache, or streamed by GuardedBody. *)

\* store_and_respond read the whole body, or failed to.
CollectEnd(r) ==
    /\ pc[r] = "collect"
    /\ r \notin stalled
    /\ Finish(r)

StreamEnd(r) ==
    /\ pc[r] = "stream"
    /\ r \notin stalled
    /\ Finish(r)

\* The backend, still connected, stops sending frames.
Stall(r) ==
    /\ pc[r] \in {"collect", "stream"}
    /\ r \notin stalled
    /\ stalled' = stalled \cup {r}
    /\ UNCHANGED <<pc, loopVars, at, guardVars, online, sends>>

\* GuardedBody's idle timer.
IdleAbort(r) ==
    /\ pc[r] = "stream"
    /\ r \in stalled
    /\ Finish(r)

-----------------------------------------------------------------------------

\* The client goes away: the task, or the body it handed over, is dropped.
Disconnect(r) ==
    /\ pc[r] \in Awaits
    /\ Finish(r)

\* A health broadcast, or its going stale.
HealthChange(b) ==
    /\ online' = IF b \in online THEN online \ {b} ELSE online \cup {b}
    /\ UNCHANGED <<pc, loopVars, at, guardVars, stalled, sends>>

Attempt(r) ==
    \/ OutOfAttempts(r) \/ NoneEligible(r) \/ OutOfBudget(r)
    \/ \E b \in Backends : Select(r, b)
    \/ GateBusy(r) \/ GateOpen(r) \/ GateConsumed(r) \/ GateForward(r)
    \/ ForwardMissed(r) \/ ForwardFailed(r) \/ ForwardAnswered(r)
    \/ BackoffEnd(r) \/ ParkReleased(r) \/ ParkRefused(r)

Client(r) ==
    \/ AnswerEarly(r)
    \/ \E retries \in BOOLEAN : Admit(r, retries)
    \/ \E large \in BOOLEAN : Prepare(r, large)
    \/ PrepareRespond(r)
    \/ Disconnect(r)

Response(r) == CollectEnd(r) \/ StreamEnd(r) \/ Stall(r) \/ IdleAbort(r)

Next ==
    \/ \E r \in Requests : Client(r) \/ Attempt(r) \/ Response(r)
    \/ \E b \in Flaky : HealthChange(b)

Spec == Init /\ [][Next]_vars

\* forward_request on a tunnelled member: acquire_stream awaits open_bi, which
\* pends for as long as the peer grants no stream.
Opening(r) == pc[r] = "forward" /\ at[r] \in Tunnelled

\* Connecting, handshakes, the wait for response headers, the park and the
\* backoff carry a timeout, and so does a stalled streamed body.  Nothing
\* obliges a client to send its request body, a backend to end a response or a
\* tunnel peer to grant a stream.
Fairness ==
    \A r \in Requests : WF_vars((~Opening(r) /\ Attempt(r)) \/ IdleAbort(r))

FairSpec == Spec /\ Fairness

-----------------------------------------------------------------------------
(* Properties.                                                             *)

\* "A non-idempotent POST/PATCH a backend already committed must not be
\* resent": whatever mix of busy members, open circuits, errors, wakes and
\* backoffs a request meets, it is handed out once per attempt it is allowed,
\* and a body that streams is handed out once at all.
NoReplay ==
    \A r \in Requests :
        /\ sends[r] <= IF r \in replayable THEN MaxRetries + 1 ELSE 1
        /\ body[r] = "stream" => sends[r] = 0
        /\ body[r] = "taken" => sends[r] = 1

\* Permits follow the exchange: max_connections and the queue depth hold, a
\* connection permit belongs to a request with an attempt under way on that
\* backend, a queue slot to a request in progress, and a finished request,
\* however it finished, holds nothing.
PermitsAccounted ==
    /\ \A b \in Backends : Cardinality(Holders(b)) <= MaxConns[b]
    /\ Cardinality(queued) <= QueueDepth
    /\ \A r \in Requests :
        /\ conn[r] # NoBackend => conn[r] = at[r] /\ pc[r] \in Awaits \ {"prepare"}
        /\ (r \in queued) <=> (pc[r] \notin {"new", "done"})

\* A request whose body has been prepared gets an answer, or waits on a tunnel
\* peer that grants no stream: the loop ends although members come and go,
\* circuits are open and permits are contended.
Answered ==
    \A r \in Requests :
        (pc[r] = "loop") ~> (pc[r] \in {"collect", "stream", "done"} \/ []Opening(r))

=============================================================================
