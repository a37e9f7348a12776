------------------------------- MODULE Reload -------------------------------
(***************************************************************************)
(* A configuration reload against requests in flight: the reload task of   *)
(* config_reload.rs, the response cache (cache.rs), the queues and the     *)
(* connection limits that are kept per id, and the connection pool         *)
(* (proxy/pool.rs, pool/quic.rs) with its drains and its warm-up.          *)
(*                                                                         *)
(* The reload task is one task; it publishes, flushes, cleans up and warms *)
(* up in that order while requests run on other threads.  A request reads  *)
(* the published state once and keeps its copy.  Sending a request to a    *)
(* backend is RequestPath's; here a backend answers or fails.              *)
(***************************************************************************)
EXTENDS Naturals, FiniteSets

CONSTANTS
    Configs,      \* configurations that parse and validate
    Initial,      \* the one the process started with
    Content,      \* of each: routes, pool, addr and conns (see IsConfig)
    Transport,    \* of each backend: "h2", "quic" or "plain"
    Paths, PoolIds, Backends, Addrs, Requests,
    None,
    MaxBackends,  \* balancer.max_backends
    QueueDepth,   \* default_queue_depth, fixed at startup
    PoolCap,      \* h2_conns_per_backend, max_idle_quic_per_host
    MaxEdits      \* bound: saves of the configuration file

\* The routed paths, and of each configured backend its pool, its address and
\* its max_connections.
IsConfig(x) ==
    /\ DOMAIN x.routes \subseteq Paths /\ x.routes \in [DOMAIN x.routes -> PoolIds]
    /\ DOMAIN x.pool \subseteq Backends /\ x.pool \in [DOMAIN x.pool -> PoolIds]
    /\ x.addr \in [DOMAIN x.pool -> Addrs]
    /\ x.conns \in [DOMAIN x.pool -> Nat \ {0}]

ASSUME ReloadAssumption ==
    /\ Initial \in Configs
    /\ \A c \in Configs : IsConfig(Content[c])
    /\ Transport \in [Backends -> {"h2", "quic", "plain"}]
    /\ IsFiniteSet(Requests) /\ IsFiniteSet(Backends)
    /\ None \notin Configs \cup PoolIds \cup Backends \cup Paths
    /\ MaxBackends \in Nat /\ QueueDepth \in Nat /\ PoolCap \in Nat /\ MaxEdits \in Nat

VARIABLES
    channel,   \* the configuration in the config watch channel
    unseen,    \* the reload task has not taken it yet
    edits,     \* saves so far
    published, \* the configuration the reloadable state was built from
    prev,      \* prev_routes and prev_backends: the configuration they are of
    pc,        \* where the reload task stands
    taken,     \* the configuration it is applying
    removed,   \* pool ids and addresses the diff found gone
    warming,   \* dials its warm-up may still make, per backend
    drains,    \* drain tasks: [addrs, phase]
    cache,     \* entry of each path: the configuration it was routed under
    queues,    \* pool ids with a queue
    limits,    \* permits of each backend's connection semaphore, 0 if none yet
    pooled,    \* connections in the pool for each address
    late,      \* history: addresses pooled while absent from the published state
    at,        \* where each request stands
    path,      \* the path it asks for
    snap,      \* the configuration it resolved its route in
    target,    \* the backend of its attempt
    slot,      \* its queue permit: "none", "current", or "old" if of a removed queue
    gone       \* history: holders of a permit whose pool was removed meanwhile

taskVars    == <<pc, taken, removed, warming>>
editVars    == <<channel, unseen, edits>>
requestVars == <<at, path, snap, target, slot>>
vars == <<editVars, published, prev, taskVars, drains, cache, queues, limits,
          pooled, late, requestVars, gone>>

-----------------------------------------------------------------------------
(* What a configuration says.                                              *)

\* Backends are grouped by the pools that routes name; a pool nobody routes
\* to, or without members, is not built.
build_backend_pools ==
    [c \in Configs |->
        LET Members(p) == {b \in DOMAIN Content[c].pool : Content[c].pool[b] = p}
        IN  [p \in {q \in {Content[c].routes[x] : x \in DOMAIN Content[c].routes} : Members(q) # {}}
                |-> Members(p)]]

Pools(c) == DOMAIN build_backend_pools[c]
Builds(c) == \A p \in Pools(c) : Cardinality(build_backend_pools[c][p]) <= MaxBackends

backend_addresses ==
    [c \in Configs |-> {Content[c].addr[b] : b \in UNION {build_backend_pools[c][p] : p \in Pools(c)}}]

\* Mutant: the diff the wrong way round.
diff_added_backends(old, new) ==
    [addrs |-> backend_addresses[new] \ backend_addresses[old], ids |-> Pools(new) \ Pools(old)]

diff_removed_backends(old, new) ==
    [addrs |-> backend_addresses[old] \ backend_addresses[new], ids |-> Pools(old) \ Pools(new)]

\* The comparison of routes and backends that decides on a flush.
SameRouting(c, d) == Content[c] = Content[d]

\* The pool a request resolved.
PoolOf(r) == Content[snap[r]].routes[path[r]]

Nothing == [addrs |-> {}, ids |-> {}]
Warm == [b \in Backends |-> 0]

\* How many connections warm_up may open to each backend: cleartext ones are not
\* pooled and skipped, HTTP/2 ones opened up to the cap, of QUIC ones one.
WarmDials(c) ==
    [b \in Backends |->
        CASE b \notin DOMAIN Content[c].pool \/ Transport[b] = "plain" -> 0
          [] OTHER -> IF Transport[b] = "h2" THEN PoolCap ELSE 1]

NoEntry == [cfg |-> None, late |-> FALSE]
Entries == [cfg : Configs, late : BOOLEAN] \cup {NoEntry}

ReloadTypeOK ==
    /\ channel \in Configs /\ unseen \in BOOLEAN /\ edits \in 0 .. MaxEdits
    /\ published \in Configs /\ prev \in Configs
    /\ pc \in {"idle", "clear", "cleanup", "warm"}
    /\ taken \in Configs
    /\ removed \in [addrs : SUBSET Addrs, ids : SUBSET PoolIds]
    /\ warming \in [Backends -> Nat]
    /\ drains \subseteq [n : 1 .. MaxEdits, addrs : SUBSET Addrs, phase : {"sleep", "evict"}]
    /\ cache \in [Paths -> Entries]
    /\ queues \subseteq PoolIds
    /\ limits \in [Backends -> Nat]
    /\ pooled \in [Addrs -> 0 .. PoolCap]
    /\ late \subseteq Addrs
    /\ at \in [Requests -> {"idle", "enqueue", "gate", "dial", "forward"}]
    /\ path \in [Requests -> Paths \cup {None}]
    /\ snap \in [Requests -> Configs \cup {None}]
    /\ target \in [Requests -> Backends \cup {None}]
    /\ slot \in [Requests -> {"none", "current", "old"}]
    /\ gone \subseteq Requests

Init ==
    /\ channel = Initial /\ unseen = FALSE /\ edits = 0
    /\ published = Initial /\ prev = Initial
    /\ pc = "idle" /\ taken = Initial /\ removed = Nothing /\ warming = Warm
    /\ drains = {}
    /\ cache = [k \in Paths |-> NoEntry]
    /\ queues = {}
    /\ limits = [b \in Backends |-> 0]
    /\ pooled = [a \in Addrs |-> 0]
    /\ late = {}
    /\ at = [r \in Requests |-> "idle"]
    /\ path = [r \in Requests |-> None]
    /\ snap = [r \in Requests |-> None]
    /\ target = [r \in Requests |-> None]
    /\ slot = [r \in Requests |-> "none"]
    /\ gone = {}

-----------------------------------------------------------------------------
(* The connection pool.                                                    *)

\* A fresh or returned connection is pooled below the cap, dropped at it.
Deposit(a) ==
    /\ pooled' = [pooled EXCEPT ![a] = IF @ < PoolCap THEN @ + 1 ELSE @]
    /\ late' = IF a \in backend_addresses[published] THEN late ELSE late \cup {a}

drain_backends(addrs) ==
    /\ pooled' = [a \in Addrs |-> IF a \in addrs THEN 0 ELSE pooled[a]]
    /\ late' = late \ addrs

\* Mutant: one drain task at a time.
spawn_single_drain ==
    drains' = IF removed.addrs = {} \/ drains # {} THEN drains
              ELSE {[n |-> edits, addrs |-> removed.addrs, phase |-> "sleep"]}

spawn_backend_drain ==
    drains' = IF removed.addrs = {} THEN drains
              ELSE drains \cup {[n |-> edits, addrs |-> removed.addrs, phase |-> "sleep"]}

-----------------------------------------------------------------------------
(* The operator and the reload task.                                       *)

\* reload_config: a save that parses and validates enters the channel, which
\* keeps only the last; any other save is rejected and changes nothing.
reload_config(c) ==
    /\ edits < MaxEdits
    /\ edits' = edits + 1
    /\ channel' = c
    /\ unseen' = TRUE
    /\ UNCHANGED <<published, prev, taskVars, drains, cache, queues, limits, pooled, late,
                   requestVars, gone>>

\* The task takes the newest configuration; if its pools do not build, it
\* keeps the current state and waits for the next change.
TakeUnbuildable ==
    /\ pc = "idle" /\ unseen
    /\ ~ Builds(channel)
    /\ unseen' = FALSE
    /\ UNCHANGED <<channel, edits, published, prev, taskVars, drains, cache, queues, limits, pooled, late,
                   requestVars, gone>>

\* The removed ids and addresses are found against the state being replaced.
Publish ==
    /\ pc = "idle" /\ unseen
    /\ Builds(channel)
    /\ unseen' = FALSE
    /\ taken' = channel
    /\ removed' = diff_removed_backends(published, channel)
    /\ published' = channel
    /\ late' = late \ backend_addresses[channel]
    /\ pc' = "clear"
    /\ UNCHANGED <<channel, edits, prev, warming, drains, cache, queues, limits, pooled, requestVars, gone>>

\* Mutant: the baseline stays that of the process start.
ClearStaleBaseline ==
    /\ pc = "clear"
    /\ cache' = IF SameRouting(taken, prev) THEN cache ELSE [k \in Paths |-> NoEntry]
    /\ pc' = "cleanup"
    /\ UNCHANGED <<editVars, published, prev, taken, removed, warming, drains, queues, limits, pooled,
                   late, requestVars, gone>>

\* ResponseCache::clear, only when routes or backends changed.
Clear ==
    /\ pc = "clear"
    /\ cache' = IF SameRouting(taken, prev) THEN cache ELSE [k \in Paths |-> NoEntry]
    /\ prev' = IF SameRouting(taken, prev) THEN prev ELSE taken
    /\ pc' = "cleanup"
    /\ UNCHANGED <<editVars, published, taken, removed, warming, drains, queues, limits,
                   pooled, late, requestVars, gone>>

\* The queues of removed pools go, a drain task is spawned for the removed
\* addresses, and every configured backend, routed or not, is to be warmed up.
\* (The breaker entries filed under the ids of removed pools go too.)
Cleanup ==
    /\ pc = "cleanup"
    /\ queues' = queues \ removed.ids
    /\ slot' = [r \in Requests |->
                  IF slot[r] = "current" /\ PoolOf(r) \in removed.ids THEN "old" ELSE slot[r]]
    /\ gone' = gone \cup {r \in Requests : slot[r] # "none" /\ PoolOf(r) \notin Pools(published)}
    /\ spawn_backend_drain
    /\ warming' = WarmDials(taken)
    /\ removed' = Nothing
    /\ pc' = "warm"
    /\ UNCHANGED <<editVars, published, prev, taken, cache, limits, pooled, late, at, path, snap, target>>

\* One dial of the warm-up.  HTTP/2 connections are opened up to the cap; a QUIC
\* backend gets one, unless one is pooled already.
WarmConnect(b) ==
    /\ pc = "warm" /\ warming[b] > 0
    /\ warming' = [warming EXCEPT ![b] = @ - 1]
    /\ IF Transport[b] = "quic" /\ pooled[Content[taken].addr[b]] > 0
       THEN UNCHANGED <<pooled, late>>
       ELSE Deposit(Content[taken].addr[b])
    /\ UNCHANGED <<editVars, published, prev, pc, taken, removed, drains, cache, queues, limits,
                   requestVars, gone>>

\* A dial failed, or enough connections were there: on to the next backend.
WarmStop(b) ==
    /\ pc = "warm" /\ warming[b] > 0
    /\ warming' = [warming EXCEPT ![b] = 0]
    /\ UNCHANGED <<editVars, published, prev, pc, taken, removed, drains, cache, queues, limits,
                   pooled, late, requestVars, gone>>

WarmEnd ==
    /\ pc = "warm" /\ warming = Warm
    /\ pc' = "idle"
    /\ UNCHANGED <<editVars, published, prev, taken, removed, warming, drains, cache, queues, limits, pooled, late, requestVars, gone>>

\* After the grace period the drain looks which addresses are still absent ...
DrainCheck(d) ==
    /\ d \in drains /\ d.phase = "sleep"
    /\ drains' = (drains \ {d}) \cup
                   {[d EXCEPT !.addrs = @ \ backend_addresses[published], !.phase = "evict"]}
    /\ UNCHANGED <<editVars, published, prev, taskVars, cache, queues, limits, pooled, late,
                   requestVars, gone>>

\* ... and evicts those.
DrainEvict(d) ==
    /\ d \in drains /\ d.phase = "evict"
    /\ drains' = drains \ {d}
    /\ drain_backends(d.addrs)
    /\ UNCHANGED <<editVars, published, prev, taskVars, cache, queues, limits, requestVars, gone>>

-----------------------------------------------------------------------------
(* Requests.                                                               *)

End(r) ==
    /\ at' = [at EXCEPT ![r] = "idle"]
    /\ path' = [path EXCEPT ![r] = None]
    /\ snap' = [snap EXCEPT ![r] = None]
    /\ target' = [target EXCEPT ![r] = None]
    /\ slot' = [slot EXCEPT ![r] = "none"]
    /\ gone' = gone \ {r}

\* ResponseCache::get: a live entry answers the request, without a route.
Hit(r, k) ==
    /\ at[r] = "idle"
    /\ cache[k] # NoEntry
    /\ UNCHANGED vars

\* The least recently used entry makes room for another path.
Displace(k) ==
    /\ cache[k] # NoEntry
    /\ cache' = [cache EXCEPT ![k] = NoEntry]
    /\ UNCHANGED <<editVars, published, prev, taskVars, drains, queues, limits, pooled, late,
                   requestVars, gone>>

\* A miss, or a request that may not use the cache; an expired entry is popped.
\* The route and the pool are cloned out of the published state; without them
\* the request is answered 404 or 502.
resolve_backend_pool(r, k) ==
    /\ at[r] = "idle"
    /\ cache' \in {cache, [cache EXCEPT ![k] = NoEntry]}
    /\ k \in DOMAIN Content[published].routes
    /\ Content[published].routes[k] \in Pools(published)
    /\ at' = [at EXCEPT ![r] = "enqueue"]
    /\ path' = [path EXCEPT ![r] = k]
    /\ snap' = [snap EXCEPT ![r] = published]
    /\ UNCHANGED <<editVars, published, prev, taskVars, drains, queues, limits, pooled, late, target, slot, gone>>

Admitted(p, s) == {r \in Requests : slot[r] = s /\ PoolOf(r) = p}

\* The pool's queue is made if it is not there; a full one answers 503.
Enqueue(r) ==
    /\ at[r] = "enqueue"
    /\ queues' = queues \cup {PoolOf(r)}
    /\ IF Cardinality(Admitted(PoolOf(r), "current")) < QueueDepth
       THEN /\ slot' = [slot EXCEPT ![r] = "current"]
            /\ at' = [at EXCEPT ![r] = "gate"]
            /\ UNCHANGED <<path, snap, target, gone>>
       ELSE End(r)
    /\ UNCHANGED <<editVars, published, prev, taskVars, drains, cache, limits, pooled, late>>

AddrOf(r, b) == Content[snap[r]].addr[b]

\* select_and_gate: the semaphore of the member is made if it is not there.  A
\* pooled HTTP/2 connection is shared, a pooled QUIC one taken out while its
\* stream opens; otherwise one is dialled.
Gate(r, b) ==
    /\ at[r] = "gate"
    /\ b \in build_backend_pools[snap[r]][PoolOf(r)]
    /\ limits' = [limits EXCEPT ![b] = IF @ = 0 THEN Content[snap[r]].conns[b] ELSE @]
    /\ target' = [target EXCEPT ![r] = b]
    /\ IF Transport[b] = "h2" /\ pooled[AddrOf(r, b)] > 0
       THEN /\ at' = [at EXCEPT ![r] = "forward"]
            /\ UNCHANGED pooled
       ELSE /\ at' = [at EXCEPT ![r] = "dial"]
            /\ pooled' = IF Transport[b] = "quic" /\ pooled[AddrOf(r, b)] > 0
                         THEN [pooled EXCEPT ![AddrOf(r, b)] = @ - 1] ELSE pooled
    /\ UNCHANGED <<editVars, published, prev, taskVars, drains, cache, queues, late, path, snap, slot, gone>>

\* Cleartext connections are handed out and never pooled.
Pooled(b) == Transport[b] # "plain"

\* The connection is up; a TLS one goes into the pool.
Dialled(r) ==
    /\ at[r] = "dial" /\ Transport[target[r]] # "quic"
    /\ at' = [at EXCEPT ![r] = "forward"]
    /\ IF Pooled(target[r]) THEN Deposit(AddrOf(r, target[r])) ELSE UNCHANGED <<pooled, late>>
    /\ UNCHANGED <<editVars, published, prev, taskVars, drains, cache, queues, limits, path, snap,
                   target, slot, gone>>

\* The stream is open, on the pooled QUIC connection or a fresh one: the
\* connection goes back into the pool.
DialledQuic(r) ==
    /\ at[r] = "dial" /\ Transport[target[r]] = "quic"
    /\ at' = [at EXCEPT ![r] = "forward"]
    /\ Deposit(AddrOf(r, target[r]))
    /\ UNCHANGED <<editVars, published, prev, taskVars, drains, cache, queues, limits, path, snap,
                   target, slot, gone>>

\* store_and_respond: the whole body is collected, then put into the cache.
Put(r) ==
    /\ at[r] = "forward"
    /\ cache' = [cache EXCEPT ![path[r]] =
                   [cfg |-> snap[r], late |-> ~ SameRouting(snap[r], published)]]
    /\ End(r)
    /\ UNCHANGED <<editVars, published, prev, taskVars, drains, queues, limits, pooled, late>>

\* Answered without a put: streamed, not cacheable, failed, or the client left.
Finish(r) ==
    /\ at[r] \in {"dial", "forward"}
    /\ End(r)
    /\ UNCHANGED <<editVars, published, prev, taskVars, drains, cache, queues, limits, pooled, late>>

\* A backend closes a pooled connection; it is pruned at the next use.
ConnLost(a) ==
    /\ pooled[a] > 0
    /\ pooled' = [pooled EXCEPT ![a] = @ - 1]
    /\ late' = IF pooled[a] = 1 THEN late \ {a} ELSE late
    /\ UNCHANGED <<editVars, published, prev, taskVars, drains, cache, queues, limits,
                   requestVars, gone>>

-----------------------------------------------------------------------------
ReloadTask ==
    \/ TakeUnbuildable \/ Publish \/ Clear \/ Cleanup \/ WarmEnd
    \/ \E b \in Backends : WarmConnect(b) \/ WarmStop(b)

RequestStep(r) ==
    \/ \E k \in Paths : Hit(r, k) \/ resolve_backend_pool(r, k)
    \/ Enqueue(r)
    \/ \E b \in Backends : Gate(r, b)
    \/ Dialled(r) \/ DialledQuic(r) \/ Put(r) \/ Finish(r)

Next ==
    \/ \E c \in Configs : reload_config(c)
    \/ ReloadTask
    \/ \E d \in drains : DrainCheck(d) \/ DrainEvict(d)
    \/ \E r \in Requests : RequestStep(r)
    \/ \E k \in Paths : Displace(k)
    \/ \E a \in Addrs : ConnLost(a)

Spec == Init /\ [][Next]_vars

-----------------------------------------------------------------------------
(* Properties.                                                             *)

\* What the flush of a reload does achieve: whatever was in the cache under another
\* routing table is gone (apply_config_reload publishes first and then clears), so
\* that an entry of such a table can only have been stored since, by a request that
\* resolved its route before.  That there are such entries is FlushIsEnough's matter.
StaleIsLate ==
    pc # "clear" =>
        \A k \in Paths : (cache[k] # NoEntry /\ ~ SameRouting(cache[k].cfg, published)) => cache[k].late

\* "Flushing on reload trades a briefly cold cache for correctness": once the flush
\* of a reload is done, no entry of another routing table is left to be served until
\* its TTL "for a path that now routes elsewhere".
FlushIsEnough ==
    pc # "clear" => \A k \in Paths : cache[k] # NoEntry => SameRouting(cache[k].cfg, published)

\* Once a reload has spawned its drain, a connection pooled for an address
\* that is not in the published state is either owed to a drain task or was
\* put there after the address had gone (a dial or a QUIC stream in flight, a
\* warm-up of a backend without a route).
OrphanIsLate ==
    pc \notin {"clear", "cleanup"} =>
        \A a \in Addrs : (pooled[a] > 0 /\ a \notin backend_addresses[published]) =>
            a \in late \/ \E d \in drains : a \in d.addrs

\* A pool admits at most queue_depth requests at once, whatever reloads do in
\* between, except for those that kept the permit of a queue from before the
\* pool was removed.
AdmissionBound ==
    \A p \in PoolIds :
        Cardinality({r \in Requests : slot[r] # "none" /\ PoolOf(r) = p} \ gone) <= QueueDepth
=============================================================================
