# Verification of Reduction

Reduction is a reverse proxy and load balancer. It terminates HTTP/1.1, HTTP/2 and QUIC, picks a
backend of a pool by a weighted rendezvous hash, retries on another member when one fails, and
reaches backends over TCP, QUIC, or *reverse tunnels* that the backends open themselves. It also
takes in UDP datagrams and raw TCP connections, renews its certificates over ACME, and applies most
changes of its files without a restart. This directory holds TLA+ modules that model it, the TLC
configurations that check them on small instances, and TLAPS proofs of nearly all of the safety
properties for every instance.

Source paths below are relative to `src/src/`. `PROJECT.json` maps each definition to the lines it models.

## 1. Inventory

| Component | State | Operations | Hard behaviour | What makes it correct |
|---|---|---|---|---|
| Tunnel registry and registration (`tunnel/registry.rs`, `tunnel/listener.rs`, `tunnel/listener/registration.rs`) | sessions per backend, control peers, pre-registration permits, denylist channel | accept, establish, admit, register, re-check, ack, serve, deregister, sweep, evict, shut down | one task per connection, a sweep task, requests that evict, shutdown; locks per bucket, held for part of an operation | no session without its task, caps hold, no denied session overlooked, permits come back |
| Tunnel wire protocol (`tunnel/protocol.rs`, the control loop) | a byte stream, a heartbeat deadline | preamble, frames, `select!` of four arms | a read that is dropped half-way | frames are read as they were written, or the stream ends |
| Wake and park (`proxy/handler/attempt/wake.rs`, `tunnel/registry.rs`) | a `Notify` per backend, refusals on file | park, dispatch, wait for a session or a TCP connect, refuse, time out | check-then-wait races with the signal | no lost wake-up, a refusal heard, every park ends |
| Circuit breaker (`circuit.rs`) | four independent atomics per backend | check, record success or failure, drop a probe guard, remove | calls of worker threads interleave access by access; guards outlive the period they belong to | never stuck, probes bounded, open circuits probed |
| HTTP request path (`proxy/handler.rs`, `proxy/handler/*`, `proxy/guarded_body.rs`, `balancer/queue.rs`) | per request: attempt, body, tried members, permits | admit, prepare, select, gate, forward, retry, park, collect or stream | permits shared by all requests, retries, cancellation at every await, stalls | no forbidden replay, no leaked permit, an answer, proven identity headers |
| Balancer and health (`balancer/`, `health/`) | health table, weights | score, select, update, go stale | stale reads, limits, rounding | an eligible member if there is one, and the same one for the same client |
| Connection pool (`proxy/pool*`) | pooled connections, permits | acquire, reuse, warm up, drain | a reload drains while an acquire is under way | what is pooled for a removed address goes |
| Response cache (`cache.rs`, `cache_control.rs`, `proxy/handler/cache.rs`, `policy.rs`) | LRU entries | get, put, clear | a put after the clear of a reload | a hit is what the origin would answer |
| Configuration and reload (`config/`, `config_reload.rs`) | published routing state | load, validate, rebuild, diff, publish, clear, drain, warm up | requests in flight use the old state; some sections take effect only at a restart | a loaded configuration can be run with, and what is inert is said to be |
| Watched files (`fs_watch.rs`, `fs_util.rs`, `tls/reload*`, `tunnel/revocation_reload.rs`) | a generation per watcher, debounce threads | event, debounce, read, swap in | half-written files, two files of one load, two loaders of one file | what runs is what was saved, or the last good load |
| UDP and TCP ingress (`ingress/`) | bounded queues, counters, writer streams | receive, batch, write, redial; accept, relay | full queues, backoff, reloads, shutdown, writes without a timeout | accepted = relayed + dropped, in order |
| Raw relay (`proxy/raw_relay*`, `proxy/relay.rs`, `proxy/raw_authz.rs`) | relay permits, activity stamp, two watchers per relay | admit, dial, copy both ways, half-close, idle watchdog, cancel | a denial that races the start of the relay | ends when idle or denied, not before |
| QUIC and TCP listeners (`transport/`) | handshake and pending-read permits, channels | accept, handshake, read the stream type, hand on | full channel, slow peers, accept errors | streams are handed on or end |
| Startup, readiness, shutdown (`startup/`, `health_endpoint.rs`) | sockets, readiness, the shutdown token | build, bind, announce, serve, drain, force | a step that fails, a socket that is held | ready means ready, drained or forced in bounded time |
| TLS and identity (`tls/certs.rs`, `tls/identity.rs`, `startup/tls.rs`) | verifiers, resolvers | build by policy, verify, extract | many policies, ACME, denylists | who is served is who was proven |
| ACME (`tls/acme.rs`, `tls/secret_state.rs`) | certificate, challenge certificates, the secret blob | provision, renew, back off, persist | orders that fail half-way, crashes, two custodies | the last good certificate is served and renewed |
| Router, access control, rate limiter, retry backoff, compression, redirect, metrics, tracing | tables, counters, encoder | mostly pure functions | mapped addresses, widths, streaming | longest prefix, deny before allow, bodies whole |

How they interact: a listener hands a request to the request path, which asks the router for a
pool, the queue for a slot, the balancer (with health and connection pressure) for a member, the
pool for a permit and a connection, and the breaker for admission, and reports the outcome to the
breaker. A tunnelled member is reached through a session of the registry. A request that misses a
cold member parks on the registry's `Notify`, which `register` signals. Reloads publish new routing
tables, denylists and certificates through watch channels that all of these read. The edge services
(ingress, raw relays, listeners) share the shutdown token, the balancer and the breakers.

## 2. Modules

| Module | Models | Granularity of a step |
|---|---|---|
| `TunnelRegistry` | registry, registration pipeline, revocation sweep, eviction, shutdown | what happens under one bucket lock or between two awaits |
| `CircuitBreaker` | one backend's breaker and its users, calls atomic | one call |
| `BreakerThreads` | the same, access by access | one access to an atomic or to the mutex |
| `RequestPath` | the retry loop, its permits and the response body | to the next await, or to a semaphore that another thread may win |
| `WakePark` | the park inside a request's attempt | `notified()`, the look at the registry and the await are separate steps |
| `WakeRefusal` | `WakePark`, with the requests remembered that a refusal found parked | |
| `Reload` | the reload task, cache, queues, limits and the connection pool under requests | one phase of the task; a request to its next await |
| `FileWatch` | watchers, debounce threads, an operator's saves, what is loaded | one read of a file, one publication |
| `Control` | a tunnel's control stream | one byte read, one frame written |
| `Compress` | decompression of requests, the compressed response body | one poll |
| `Startup` | the steps of `startup::run` and the sockets | one step |
| `Rules` | access control, selection, routes, headers, caching, backoff, validation | a question and its answer |
| `Settings` | the configuration's sections, what a reload applies and reports | a question and its answer |
| `Trust` | TLS policies, handshakes, identities, denylist and allowlist | a question and its answer |
| `UdpIngress`, `TcpIngress` | the two ingresses | one datagram, batch or write; a task to its next await |
| `RawRelay`, `Relay` | raw streams and their watchers; one relay and its watchdog | to the next await; one millisecond |
| `Serving` | listeners, channels, drain, forced close | to the next await |
| `Acme` | provisioning and renewal, through restarts | one call to the CA or to the store |
| `Shutdown` | the token that the edge's services share | |
| `MCParts`, `MCEdge`, `MCAttempt`, the other `MC*` | instances; the first three put several modules into one run | |
| `TunnelRegistryProofs`, `CircuitBreakerProofs`, `RequestPathProofs`, `WakeParkProofs`, `ReloadProofs` | theorems about the module of that name | |
| `BreakerThreadsProofs` | that calls which do not overlap implement `CircuitBreaker`, on any number of workers | |
| `EdgeProofs` | theorems about the services of `MCEdge` and about all of them together | |
| `PartsProofs` | theorems about the other parts of `MCParts` and about all of them together | |

**TunnelRegistry.** `pc[c]` is where connection `c`'s task stands in
`handle_tunnel_connection`; a connection carries at most one session, so it names its session.
`registered` and `claim` are the map from backend id to sessions, `present` its keys: a bucket may
be present and empty. `deregister` is two steps, as in the code: retain under the lock
(`Deregister`, `Evict`), then, if that emptied the bucket, remove it (`DropBucket`, `EvictBucket`).
`register` pushes under the lock (`Register`) and files a control peer after it (`Recheck`, which
also looks at the denylist again). The sweep holds the watch channel's `Ref`, so nothing is
published meanwhile, and visits the buckets in any order. `ShutdownNotify` and `ShutdownClear` are
the two halves of `shutdown_all`. The peer, the operator and requests do what they like.

**CircuitBreaker and BreakerThreads.** `state`, `failures`, `inflight` and `opened_at` are the
fields of `BackendBreaker`; counters wrap at `Wrap`, which stands for 2^32. A user is idle, has been
admitted (with a half-open guard or not), and records up to two outcomes, as the call sites do.
`probing` and `stray` are history: who was admitted in the present half-open period, and whether a
guard of an earlier one was dropped in it. `BreakerThreads` splits every call into its accesses;
`Workers` bounds the calls under way. The refinement mapping `Shown`, under which a call takes effect
when it returns, shows that calls that do not overlap implement `CircuitBreaker`: by TLC with one worker, by
proof for every behaviour on any number of workers in which no call begins while another is under way.
Overlapping calls do not implement it, which is the run `BreakerTwoWorkers`.

**RequestPath.** One task per request. `conn` is the backend whose connection permit (and half-open
guard) the request holds, `queued` the slots of the pool's queue, `body` the replay body,
`attempt`/`attempts` the loop. Open circuits, errors, statuses, elapsed deadlines and health are free
choices; which of several eligible members is selected is the rendezvous hash's choice and free too.
A client may go away at every await, which drops the task and its guards. `Stall` is a backend that
stops sending body frames; `IdleAbort` is the timer of `GuardedBody`.

**WakePark.** `reach` and `refusal` are the two futures of the `select!`, each a small state machine
over the `Notify`; `notifying` holds the signals that `register` or `note_refusal` has still to send
after changing the state. The two futures belong to one task, so neither moves while the other is
between `notified()` and its await. A refusal is one entry, which the first request to look takes;
`WakeRefusal` adds the history that tells who was parked when it was filed. `RequestPath` sees only the outcome of a park (`ParkReleased`, `ParkRefused`).

**Reload.** The reload task takes the newest configuration of its channel (`Publish`, or
`TakeUnbuildable`), then clears the cache, cleans up and spawns a drain, and warms up. Requests
resolve their route in the state published at that moment and keep it (`snap`). `slot` tells a
permit of the present queue from one of a queue that a reload removed. `late` and `gone` are history:
addresses pooled after they had gone (an entry of the cache carries the same mark), and holders of a permit of a pool that was removed. QUIC
connections leave the pool while a stream opens on them; HTTP/2 ones are shared.

**FileWatch.** A consumer (configuration, denylist, server and client pair, trust store) is loaded
from one or two files by a watcher's thread; the reload task is a second loader of the denylist.
The operator saves by rename or truncates and writes. `lost` is history and names the three ways a
save is passed over: before the watcher is registered, superseded by an event on the other side's
files (one generation for both), or quarantined half saved. Two facts about time are assumed in the
guard of `Wake`: the two writes of an in-place save, and the read and the publication of a load, are
closer together than the debounce. `WatchAssumption` says what the deployment has: a file is loaded by
one consumer, the configuration and the denylist have one file each, and a watcher watches the files
that it loads and no others. (A server and a
client pair that share a file are loaded by the same `CertWatcher` thread, one after the other.)

**Control.** The peer writes frames as bytes; the proxy reads them byte by byte with
`read_preamble` and `read_frame`, whose state is lost when another arm of the `select!` wins. Peers
speak the current, a newer or a legacy version. **Compress.** The encoder holds input back and
leaves for a blocking thread for chunks over the threshold; trailers pass through `compress_frame`, and
the client's body ends with them, whatever is given after.
**Startup.** The steps are a sequence (`Steps`); each may fail, for a reason of its own or of the socket it binds (held by
another listener or process, a privileged port, an address the host does not have), the data plane's
configuration and bind included, which come after readiness was announced.

**Rules, Settings, Trust.** A state is one question: an access list and its addresses, a pool of
scored candidates, a set of headers, a request and an origin, a configuration, a changed file, a
deployment and a peer. Operators translate the functions of the source; the properties compare them with
what the answer must be. What the code does in a loop or by a sort of the library is a recursive function (`Scan`,
`SortedUpTo`, with `Pow2` for shifts), so that it can be proved about. Hashes are free distances, including the one that rounds to 0; a number's
width is `Word`; IPv4 addresses have `V4Bits` bits.

**The edge.** `UdpIngress` is one worker with its batches, queues and writers; `forgotten` is
history and counts what a writer that returns on the token leaves in its channel (`UdpCounters`). `TcpIngress` is the accept loop and its
tasks; `verdicts` is history, what the breaker was told. `RawRelay` models a watch channel as value and version, so that
`changed()` and `borrow()` are what they are in tokio. `Relay` has a clock of milliseconds; the
watchdog fires at its deadline, never later. `Serving` has both listeners, axum's accept loop
as external steps, and the tunnel listener, whose endpoint closes at the same token (`tunnels`): a stream may have its
answer from a tunnelled backend (`acquire_stream`). `cut` is history: a request in flight lost its connection before the drain
timeout. `Acme` outlives the process: `store` survives `Exit`, `env` is what the launch injected, and
`custody` is chosen at the start from `Custodies`; `load` reads the file or, under the barrel's custody, `env`.

## 3. Runs

| Run | Instance | Shows |
|---|---|---|
| `TunnelRegistry` | 3 connections, 2 for one backend; 1 request; budget of 2; both caps 1 | `NoGhostSession`, `HardBackendCap`, `SoftCapOvershoot`, `RevokedIsOwed` (3.3 million states) |
| `TunnelLifecycle` | 2 connections of one backend, shutdown | `RevokedTornDown`, `PermitReturned`, `ShutdownEmpties` |
| `Attempt` | the breaker: 3 users, threshold 2, limit 2; the park: 2 requests for one backend of either kind | `NeverWedged`, `ProbeBound`, `OpenIsProbed`, `HalfOpenKeepsProbing`; `NoLostWake`, `ParkEnds` |
| `BreakerOneWorker` | the breaker of `Attempt`, access by access | `ImplementsCircuitBreaker` |
| `Request` | 3 requests, queue of 2, two members with 1 connection each, 1 retry | `NoReplay`, `PermitsAccounted`, `Answered` |
| `Parts` | one part at a time, see below | eleven invariants (0.9 million states) |
| `Edge` | one service at a time, see below | `TypeOK`, `Accounted`, `UdpInOrder`, `DenialOwed`, `IdleIsExact`, `StoreKeepsCert`, `Settles`, `Renewed` |
| `UdpFrame` | the UDP ingress of `Edge` | **violated**: a batch that no frame holds |
| `QuicDrain` | the listeners of `Edge`, QUIC | **violated**: a stream in flight is cut at once |
| `AcmeFirstStart` | no earlier certificate, either custody | **violated**: it never serves |
| `BreakerTwoWorkers` | 2 users on 2 threads | **violated**: open for ever |
| `BreakerStrayGuards` | the breaker of `Attempt` | **violated**: half-open, nobody in flight, and nobody admitted |

Ten more configurations, beside those of `PROJECT.json`, hold one property each that TLC refutes; they are the evidence for the rest of section 4:

| Configuration, module | Property | Counterexample |
|---|---|---|
| `LostSession.cfg`, `MCTunnelRegistry` | `AckMeansRegistered` | acknowledged, serving, and not in the registry |
| `WakeRefusal.cfg`, `WakeRefusal` | `RefusalReleases` | of two requests parked for a backend that is refused one waits on |
| `StaleCache.cfg`, `MCParts` | `FlushIsEnough` | an entry of the old table outlives the flush |
| `ReloadReports.cfg`, `MCParts` | `InertIsReported` | an inert change is not reported |
| `CompressTrailers.cfg`, `MCParts` | `NoSilentTruncation` | the body ends without its last data and without an error |
| `Readiness.cfg`, `MCParts` | `ReadyMeansServing` | ready before the data plane is bound |
| `UdpCounters.cfg`, `MCEdge` | `CountersClose` | datagrams counted nowhere after the shutdown |
| `TunnelDrain.cfg`, `MCEdge` | `DrainsInFlight` | over TCP, an answer from a tunnelled backend is cut at once |
| `AcmeChallenges.cfg`, `Acme` | `ChallengesDropped` | a failed order leaves its challenge certificates |
| `AcmeBarrel.cfg`, `Acme` | `RenewalKeepsCert` | a renewal stores a blob without the certificate |

`Attempt`: `NeverWedged` – the fields agree with the state (an open circuit has its timestamp), and a half-open circuit whose
guards are all gone has every slot free; `ProbeBound` – probes are counted and bounded; `OpenIsProbed`,
`HalfOpenKeepsProbing`. `ProbeBound`, `HalfOpenKeepsProbing` and the half-open part of `NeverWedged` except periods in which a
guard of an earlier one was dropped; what happens then is `BreakerStrayGuards`.

`Parts` asks of its modules, each on its own:

* Reload: `StaleIsLate` – after the flush an entry of another routing table is one that a request
  of the old table stored late, and there is no other way (that there is this one is `StaleCache`); `OrphanIsLate` – a
  connection pooled for a removed address was put there late or is owed to a drain; `Bounded` – types with the pool's cap, and no
  queue admits more than its depth but for the holders of a removed queue's permits.
* FileWatch: `FollowsFile`, `PairMatches`.
* Rules: `Placement` – an IPv4 host is one host in either notation, to access control, rate limiter, balancer and
  the ingress protocol, and only the loss of its own member moves a client; `HitIsAnswer` – a
  hit is what the origin would have answered this client, and no two cache keys are written alike.
* Rules and Settings: `SafeConfig` – a configuration that validates has unambiguous routes, delays
  that grow and stay in their bounds, an identity for every handshake and sockets of its own; what is
  serialised is read back. (What a reload says of the parts it cannot apply is `ReloadReports`.)
* Rules and Trust: `ProvenIdentity` – whoever is served, denied or named to a backend is who the
  handshake proved; a denylist and an allowlist mean the keys they name.
* Control and Compress: `ByteStreams` – frames acted on are the frames written, in order; a compressed body
  gives what it was given, in order and once, wherever the encoder is. (That its client gets all of it or an error fails with
  trailers, `CompressTrailers`.)
* Startup: `ReadyIsKept` – a start that fails after `/readyz` said ready fails over the data plane, every other policy, file
  and socket having been found good before; a process that serves has every listener it planned.

`Edge` asks: `Accounted` (both ingresses' counters at any moment, with `forgotten` after the token), `UdpInOrder`, `DenialOwed`,
`IdleIsExact`; `StoreKeepsCert` – under either custody no write loses the account, and only an account created again under the barrel,
in a process launched without one, loses the certificate; `Renewed`; and in `Settles` that a UDP pipeline empties unless its writer waits for a
backend, that after the shutdown no TCP connection is accepted and every TCP task ends unless it waits for a stream to open, that a denied
relay ends, a stream reaches its handler or ends, and the process exits.

Every property of a passing run has a mutant in `PROJECT.json`, a plausible bug in one definition
for which TLC reports the property violated.

**Bounds.** Three connections are the fewest that overshoot the soft cap while two of one backend
meet: one leaving, one registering in the same bucket, one elsewhere. Two denylists, one empty, let a
denial be published and withdrawn. Three breaker users give two probes and one user left over from an
earlier state of the circuit; `Wrap` is above what three users can count to, so that a wrapped
counter is told from a large one. Three requests on a queue of two and members with one connection each
make both limits bind, and one retry lets a request fail or skip a busy member and go on to the other. Requests
parked for different backends share nothing, so one backend is enough. A connection is not reused
after its task ended, and a request runs once: a reconnect is another connection.
In `Parts`, two edits over three configurations (two that move the only route between an HTTP/2
and a QUIC backend, one that does not build; saving the published one again is the reload that changes
no route) let a pool go and come back under two requests; two saves let one supersede the other or fall between the two reads of a load;
three frames let a half-read frame be followed by another; three chunks let one be away while another
is pulled; tables and configurations vary in one respect at a time, as `validate` looks at them, and
routes in any combination of up to three. In `Edge`, four datagrams fill a batch, a
queue of two and the writer's hands; three connections meet a cap of two; one publication per channel
can fall at each point of a stream's life; ten milliseconds hold three idle timeouts; two domains let an order
fail after the first challenge was installed.
The services of `Edge`, and the parts of `Parts`, share nothing but the shutdown token and what other
modules leave free, so that a behaviour of one with the others at rest is enough.

**Fairness.** *TunnelLifecycle:* every await of the pipeline has a timeout, so a task moves on
(weak fairness of each `Pipeline`); the sweep task and the shutdown path are ordinary tasks.
*Attempt, the breaker:* the recovery time passes, and requests keep coming to the backend. *Request:*
connects, handshakes, the wait for response headers, the park and the backoff have timeouts; the
`open_bi` of a tunnel session has none, so no fairness is assumed of a forward to a tunnelled member
and `Answered` excepts a request that waits there for ever. *Attempt, the park:* a `select!` polls every branch
each time its task runs, in random order, hence strong fairness of a branch that the other keeps
interrupting and of the deadline; the clock runs. *Edge:* tasks are polled; header reads
and handshakes have timeouts; the linger and backoff timers fire; opening a stream to a backend, its preamble and the
frames of the ingresses have no timeout and do not watch the token (`pool/quic.rs:154-159`, `tunnel/registry.rs:306`,
`ingress/tcp.rs:222-237`, `ingress/udp/writer.rs:57-66`, `149`), so no fairness is assumed of them, and `Settles` excepts what waits there; a cancelled token ends a relay, without
it a relay may go on for ever; axum takes streams off its channel as long as it serves; drain timeouts
pass. *Acme:* a call to the CA or the store returns, with success or error, and a process that is down is started
again; `Renewed` supposes in its own premise that errors and polling timeouts end some day. Clients, peers,
operators and backends are never assumed to do anything.

## 4. Disagreements found

In parentheses the run, or the configuration of section 3, that shows it.

1. `ingress/batch.rs:73`: the byte limit is looked at after the push, so a batch that validation
   holds to be safe may not fit a frame; it is dropped and counted as the backend's failure. (`UdpFrame`)
2. `transport/quic_listener.rs:127`: the QUIC listener closes its endpoint when the signal comes; what
   the drain waits for is cut, against the README's "Drains in-flight connections and tunnel sessions". (`QuicDrain`)
3. `tunnel/listener.rs:263-267`: the tunnel listener closes its endpoint at the same token, so over TCP too a request to a
   tunnelled backend is cut. (`TunnelDrain`)
4. `startup/tls.rs:104`: the first certificate is awaited before anything listens that could answer
   its challenge. (`AcmeFirstStart`)
5. `circuit.rs:147-148` against `175-176`: on two threads the circuit can be left open without a
   time stamp, from which nothing leads out. (`BreakerTwoWorkers`)
6. `circuit.rs:66-73`: a guard dropped in a later half-open period frees a slot it does not hold. Two of them take the counter
   below zero; it wraps, and a half-open circuit with nobody in flight admits nobody any more. (`BreakerStrayGuards`)
7. `tunnel/registry.rs:192-195`: `deregister` removes an emptied bucket after letting go of its lock, and
   with it a session registered meanwhile, although its peer gets a `RegisterAck`. (`LostSession`)
8. `tunnel/registry.rs:82-84`: a refusal "release[s] any parked waiter at once" but is one entry, which the first of them
   takes; the others wait for their deadline. (`WakeRefusal`)
9. `proxy/handler/attempt/respond.rs:62`: a response of the old routing table may be cached after the flush that was to exclude
   it, and is served until its TTL. (`StaleCache`)
10. `config/watcher.rs:50`: changes of `balancer.drain_timeout_secs` (read once for the shutdown,
    `startup/mod.rs:118`), `client_auth`, the redirect, the health endpoint and the ingress sections are not reported as inert. (`ReloadReports`)
11. `proxy/compress_body.rs:263`: trailers go out before the data that the encoder still holds, and the body ends with
    them: a silent truncation. (`CompressTrailers`)
12. `startup/mod.rs:121`: readiness is announced before the data plane is configured and bound, either of which may fail. (`Readiness`)
13. `ingress/udp/writer.rs:74-79`: a writer that returns on the token leaves its channel's batches uncounted, against
    "never a silent drop". (`UdpCounters`)
14. `tls/acme.rs:281`, `295`, `306`, `312`: these early returns leave the challenge certificates installed that are dropped "on
    failure" elsewhere. (`AcmeChallenges`)
15. `tls/secret_state.rs:105`: under the barrel's custody `load` answers from the environment of the launch, so the first renewal of a process
    that was launched without a state stores a new account over the vault's certificate (`acme.rs:412-413`). (`AcmeBarrel`)

Observed while modelling, without a run of their own:

* `attempt.rs:191-196`: a wake that succeeds on the last attempt ends in a 502.
* `respond.rs:39`: no idle timeout covers a response that is collected for the cache.
* `config_reload.rs:137-138` removes breakers under the ids of *pools*, while breakers are filed under
  the ids of backends; a connection limit keeps the size it was made with (`pool.rs:125`); a
  configuration saved between the start and the first poll of the reload task becomes its baseline (`:56`).
* `health_endpoint.rs` is bound only after the TLS setup: under ACME `/livez` refuses until then.
* `transport/tcp.rs:114`: the accept backoff does not watch the shutdown token, and TCP handshakes have no cap.
* `handler.rs:141`: with `client_auth = "optional"` a certificate without a usable name is served as
  anonymous and not looked up in the denylist, which is kept by identity.
* `config/types/sections.rs:217`: nothing validates "Must be < `[timeouts] request_secs`".
* `proxy/handler/policy.rs:42`, `cache_control.rs:16`: only the first line of a repeated header is read.
* `ingress/tcp.rs:222-237`, `ingress/udp/writer.rs:149`: a peer that grants no credit holds a frame's write, and its task or writer, for ever, shutdown or not.

## 5. Proofs

All theorems hold for every value of the constants that satisfies the named assumptions, which TLC
also evaluates in the runs.

* `TunnelRegistryProofs` (from `ConstantsAssumption`: finite `Conns`, positive caps, disjoint names and
  keys). `TypeCorrect` includes the pre-registration budget. `NoGhost` is inductive with it.
  `RevocationComplete`: `RevokedIsOwed` is inductive given `NoGhostSession`; the argument is that the
  sweep blocks publication, so a bucket it has visited can gain a denied session only through a
  task that has still to re-check. `SoftCapBounded` needs `PermitHeld` (a task keeps its permit
  from before the check until after the push): when the check passes fewer than `MaxTotal`
  are registered and at most `PendingCap` are between check and push. `HardCapHolds` needs
  that the name binding holds from the admission gate on.
* `CircuitBreakerProofs`. The inductive invariant `BreakerInv` adds to `FieldsAgree` and `ProbeBound`
  that every probe of the present period holds a guard, so that no drop takes the counter below
  zero as long as no stray guard came before it; `NeverWedged` follows, its half-open part because without a guard
  there is no probe, and the counter is the number of probes.
* `RequestPathProofs` (from `RequestPathAssumption`: finite sets, positive `MaxConns`). `RequestInv` ties, for
  each request, the phase to the loop (`LoopInv`: how often it was sent, what became of its body, that
  an attempt is left) and to what it holds (`HoldsInv`); `LimitsInv` bounds the holders of each
  backend. `NeverReplayed` and `PermitsHold` follow.
* `WakeParkProofs`. `NoLostWake` is inductive once a request that is not parked is known to have no
  future under way.
* `ReloadProofs` (from `Reload`'s assumption on its tables). `ReloadInv` has the phases of the task
  (`TaskInv`: while it applies a configuration that one is published) and what a request keeps of the
  state it was routed in (`RequestInv`). `StaleEntriesAreLate` needs `CacheInv`: `prev_routes` and
  `prev_backends` are those of the published state except between publication and flush, so an
  entry stored in time was routed under one of the two and the flush takes it. `OrphansAreLate` needs
  `OrphanInv`: between publication and cleanup the addresses that the diff found gone are owed a
  drain. `AdmissionBounded` needs that a permit of a removed queue has its holder in the history.
* `PartsProofs`.
  *Startup:* `StartupInv` ties the sockets held to the step that was reached; after
  the announcement only the data plane's configuration and bind are left that can fail.
  *FileWatch* (from `WatchAssumption`): `FollowsFile` speaks of a moment when nothing is under way, and is
  inductive once it is said what is under way otherwise. `Following` says that a consumer whose last save
  was not lost has a thread of the newest generation asleep, or a thread or the task that holds what was
  saved, or runs with it; a thread that an event superseded need not be waited for, since the event
  woke another. `DiskInv` and `DenylistInv` do the same for a save in progress and for the
  second loader of the denylist. `PairsAlwaysMatch` rests on the check that a load makes.
  *Control:* `StreamInv` says that the bytes taken by the read in progress and the bytes left are together
  the encoding of the frames not yet handled (`Remains`), which holds as long as the stream is read
  and however its bytes are cut up, because every arm that drops a read half-way also leaves the loop. `RepliesInv`, `BeatsInv` and `EffectsInv` are
  about what is answered. The encoding is a table of short frames and `MAX_FRAME_SIZE` a constant; the number of frames is free.
  *Compress:* what was emitted, followed by what the encoder holds, is what was pulled (`InStep`), wherever the encoder is. Nothing is proved of a body with trailers beyond that.
  *Rules, Settings and Trust:* a question is one of those that are asked (`Asked`); the answers are computed.
  The theorems that give an answer for inputs of any size rest on induction over the naturals. The library's
  induction theorem has an operator as a parameter, which the provers cannot instantiate; `Induct` states it of a set,
  and is proved from the well-foundedness of `<`. `Recursion` then shows that a recursive definition is satisfied by
  the function it names, which gives `Pow2Def`, `ScanDef` and `SortedDef`.
  `RuleDenotes`: a rule keeps its meaning when it is folded to IPv4, for every `V4Bits` and `BlockBits`; the argument is that
  dropping host bits and then block bits drops both (`DivOfDiv`, `Pow2Sum`).
  `SelectsLocally`, for a pool of any size: `SelectedIsBest` says that the scan returns the first of the backends with the highest
  score, by induction over its steps; there is only one such backend, and it stays the best of fewer. It needs that scores are
  ordered although they are compared by cross-multiplication (`OutscoresOrdered`).
  `RoutesRight`, for a table of any length: the sorted table has the routes of the file, longest prefix first (`SortedIs`), so the first
  match is a longest one, and two prefixes of one path of one length are equal, which `validate_routes` excludes.
  `BackoffRight`: the saturating shift never falls, up to and beyond the width of the word (`ShlGrows`).
  `EverySchemaUsable` goes through the sections; `WrittenIsRead` is the round trip of a backend, whatever its fields hold.
  The lemma `TextNamesKey` shows that `decode_spki_hex` and `normalize_spki_hex` name the same
  key for every length of a hash, `KeyAnswer` that `write_cache_key` can be undone part by part.
  *Together:* a step of the whole is a step of one part that leaves the others alone (`PartsOf`), which gives
  `EverythingBounded`, `StreamsAreWhole`, `IdentityAlwaysProven`, `HitsAreAnswers`, `RequestsPlaced` and `ConfigsSafe`.
* `EdgeProofs` (from the assumptions of the edge's modules).
  *UDP:* the arrival numbers of what a member has been sent, what its writer holds, its queue and its batch
  are in this order increasing (`Ordered`), which no step of the ingress disturbs: losing a part keeps the rest in
  order, and a writer that comes back starts behind what was sent. The counters need that the members' pipelines hold
  disjoint sets of arrivals, so that what leaves one is what the total loses (`Spends`).
  *TCP:* every client is counted in one class, and the permits are those of the tasks in flight.
  *Raw relays:* `DenialOwed` is not inductive, because a watcher that has ended says nothing by itself;
  `OffIsCancelled` adds that the watcher of a running relay is off only when its token is cancelled, and `RawInv` that no watcher has
  seen a version that was not published. *Relay:* the watchdog is armed at or before the last activity and its
  deadline never lies in the past. *Serving:* types, permits and the handshake cap. *ACME:*
  `AcmeBlobs` says that from the order on the state in the task's hands has an account, and that what is persisted after the
  polling has the fresh certificate (`PersistsFresh`). `AcmeStoreKeepsCert` follows for either custody: there are two writes of the
  store; the last one carries both, and the one of a new account carries what `load` answered, which is the store under the file's
  custody and the launch's environment under the barrel's.
* `BreakerThreadsProofs` (from `ThreadsAssumption`). `SerialCallsImplement` supposes of the behaviour, not of the
  constants, that no call begins while another is under way (`Serial`); without it the statement is false, as `BreakerTwoWorkers` shows.
  The invariant `ThreadInv` says that at most one call is under way (`OneCall`)
  and, for each place in a call, how the fields differ from what the call found (`Calls`: `InCheck`, `InSuccess`,
  `InFailure`, `InDrop`); every access is then a stutter of `CircuitBreaker`, and the return one of its actions.

Only model-checked:

* everything under fairness (`RevokedTornDown`, `PermitReturned`, `ShutdownEmpties`, `OpenIsProbed`,
  `HalfOpenKeepsProbing`, `Answered`, `ParkEnds`, `Settles`, `Renewed`), which the prover does not handle;
* the other answers of `Rules`, `Settings` and `Trust` beyond the questions that are asked: a theorem about `MCSpec` speaks of
  the inputs in the actions (three backends in a pool, the tables of `AskSection`), and only the theorems and lemmas named
  above as being about any rule, pool, table, delay, text or key go further.

## 6. Not modelled

TLS handshakes, QUIC, bitcode, zstd, TOML, axum and the async runtime are libraries: a call succeeds, fails, or takes as long as its
timeout, and an encoding is a table. Token buckets are the governor crate's: whether a client is within its rate is a free choice.
Metrics and logging have no state that control reads, but for the gauge of active connections. The health
subscriber's source, the redirect's answer and error texts are data without a decision. Cache entries leave by a free eviction,
whether by TTL, LRU or byte budget. Examples, benches and test fixtures are not part of the proxy.

## 7. Plan

Done: every component of the inventory has a module and a run, and every invariant and every action property of
the passing runs a theorem. Left:

1. `Reload` and `RequestPath` composed, so that retries and parks run across a reload.
