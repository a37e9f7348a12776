---------------------------- MODULE ReloadProofs ----------------------------
(***************************************************************************)
(* What a reload may leave behind, for any configurations, any number of   *)
(* requests and any number of edits (Reload): stale cache entries,         *)
(* connections to removed addresses, requests admitted past queue_depth.   *)
(***************************************************************************)
EXTENDS Reload, FiniteSetTheorems, TLAPS

-----------------------------------------------------------------------------
(* What a configuration says is of the right type.                         *)

\* build_backend_pools groups backends that are configured.
LEMMA PoolMembers ==
  ASSUME NEW c \in Configs, NEW p \in Pools(c), NEW b \in build_backend_pools[c][p]
  PROVE  /\ p \in PoolIds /\ b \in Backends /\ b \in DOMAIN Content[c].pool
         /\ Content[c].addr[b] \in Addrs /\ Content[c].conns[b] \in Nat
<1>1. IsConfig(Content[c])
  BY ReloadAssumption
<1>2. p \in {Content[c].routes[x] : x \in DOMAIN Content[c].routes}
      /\ b \in {d \in DOMAIN Content[c].pool : Content[c].pool[d] = p}
  BY DEF build_backend_pools, Pools
<1>3. QED
  BY <1>1, <1>2 DEF IsConfig

\* The addresses of a configuration are addresses, its pool ids pool ids.
LEMMA ConfigTypes ==
  ASSUME NEW c \in Configs
  PROVE  backend_addresses[c] \subseteq Addrs /\ Pools(c) \subseteq PoolIds
<1>1. Pools(c) \subseteq PoolIds
  <2>1. IsConfig(Content[c])
    BY ReloadAssumption
  <2>2. ASSUME NEW p \in Pools(c) PROVE p \in {Content[c].routes[x] : x \in DOMAIN Content[c].routes}
    BY DEF build_backend_pools, Pools
  <2>3. QED
    BY <2>1, <2>2 DEF IsConfig
<1>2. backend_addresses[c] \subseteq Addrs
  <2>1. backend_addresses[c] =
          {Content[c].addr[b] : b \in UNION {build_backend_pools[c][p] : p \in Pools(c)}}
    BY DEF backend_addresses
  <2>2. QED
    BY <2>1, PoolMembers
<1>3. QED
  BY <1>1, <1>2

-----------------------------------------------------------------------------
(* The inductive invariants.                                               *)

\* The reload task: while it applies a configuration, that one is published,
\* and was edited in; what it is to remove is not in the published state.
TaskInv ==
    /\ unseen \/ pc # "idle" => edits > 0
    /\ pc # "idle" => taken = published
    /\ removed.ids \cap Pools(published) = {}
    /\ \A b \in Backends : warming[b] > 0 => pc = "warm" /\ b \in DOMAIN Content[taken].pool

\* A request in flight has a route and a pool of the configuration it resolved
\* them in, and a member of that pool once it was gated.
RequestInv ==
    \A r \in Requests :
        /\ at[r] # "idle" => /\ snap[r] \in Configs /\ path[r] \in Paths
                             /\ PoolOf(r) \in Pools(snap[r])
        /\ at[r] \in {"dial", "forward"} => target[r] \in build_backend_pools[snap[r]][PoolOf(r)]
        /\ at[r] \in {"idle", "enqueue"} => slot[r] = "none"

\* The invariant of the reload: its types, its task and its requests.
ReloadInv == ReloadTypeOK /\ TaskInv /\ RequestInv

\* The process starts in it.
LEMMA ReloadInitially == Init => ReloadInv
<1> SUFFICES ASSUME Init PROVE ReloadInv
  OBVIOUS
<1> USE ReloadAssumption DEF Init
<1>1. ReloadTypeOK
  <2>1. cache \in [Paths -> Entries]
    BY DEF Entries
  <2>2. removed \in [addrs : SUBSET Addrs, ids : SUBSET PoolIds] /\ warming \in [Backends -> Nat]
    BY DEF Nothing, Warm
  <2>3. pooled \in [Addrs -> 0 .. PoolCap] /\ edits \in 0 .. MaxEdits
    OBVIOUS
  <2>4. /\ at \in [Requests -> {"idle", "enqueue", "gate", "dial", "forward"}]
        /\ path \in [Requests -> Paths \cup {None}]
        /\ snap \in [Requests -> Configs \cup {None}]
        /\ target \in [Requests -> Backends \cup {None}]
        /\ slot \in [Requests -> {"none", "current", "old"}]
    OBVIOUS
  <2>5. QED
    BY <2>1, <2>2, <2>3, <2>4 DEF ReloadTypeOK
<1>2. TaskInv
  BY DEF TaskInv, Nothing, Warm
<1>3. RequestInv
  BY DEF RequestInv
<1>4. QED
  BY <1>1, <1>2, <1>3 DEF ReloadInv

\* The operator's saves and the reload task keep the types.
LEMMA TaskTypes ==
  ReloadInv /\ (ReloadTask \/ \E c \in Configs : reload_config(c)) => ReloadInv'
<1> SUFFICES ASSUME ReloadInv, ReloadTask \/ \E c \in Configs : reload_config(c) PROVE ReloadInv'
  OBVIOUS
<1> USE ReloadAssumption DEF ReloadInv
<1>0. requestVars' = requestVars \/ Cleanup
  BY DEF ReloadTask, reload_config, TakeUnbuildable, Publish, Clear, WarmConnect, WarmStop, WarmEnd
<1>1. RequestInv'
  <2>1. CASE requestVars' = requestVars
    BY <2>1 DEF RequestInv, requestVars, PoolOf
  <2>2. CASE Cleanup
    BY <2>2 DEF Cleanup, RequestInv, PoolOf, ReloadTypeOK
  <2>3. QED
    BY <1>0, <2>1, <2>2
<1> SUFFICES ReloadTypeOK' /\ TaskInv'
  BY <1>1
<1>2. ASSUME NEW c \in Configs, reload_config(c) PROVE ReloadTypeOK' /\ TaskInv'
  BY <1>2 DEF reload_config, ReloadTypeOK, TaskInv, taskVars, requestVars
<1>3. CASE TakeUnbuildable
  BY <1>3 DEF TakeUnbuildable, ReloadTypeOK, TaskInv, taskVars, requestVars
<1>4. CASE Publish
  <2>1. removed' \in [addrs : SUBSET Addrs, ids : SUBSET PoolIds]
        /\ removed'.ids \cap Pools(channel) = {}
    BY <1>4, ConfigTypes DEF Publish, diff_removed_backends, ReloadTypeOK
  <2>2. Pools(channel) = Pools(published)'
    BY <1>4 DEF Publish, Pools, build_backend_pools
  <2>3. QED
    BY <1>4, <2>1, <2>2 DEF Publish, ReloadTypeOK, TaskInv, requestVars
<1>5. CASE Clear
  <2>1. cache' \in [Paths -> Entries]
    BY <1>5 DEF Clear, ReloadTypeOK, Entries
  <2>2. QED
    BY <1>5, <2>1 DEF Clear, ReloadTypeOK, TaskInv, editVars, requestVars, Pools
<1>6. CASE Cleanup
  <2>1. edits \in 1 .. MaxEdits
    BY <1>6 DEF Cleanup, TaskInv, ReloadTypeOK
  <2>2. drains' \subseteq [n : 1 .. MaxEdits, addrs : SUBSET Addrs, phase : {"sleep", "evict"}]
    BY <1>6, <2>1 DEF Cleanup, ReloadTypeOK, spawn_backend_drain
  <2>3. warming' \in [Backends -> Nat]
        /\ \A b \in Backends : warming'[b] > 0 => b \in DOMAIN Content[taken].pool
    BY <1>6 DEF Cleanup, WarmDials
  <2>4. slot' \in [Requests -> {"none", "current", "old"}]
    BY <1>6 DEF Cleanup, ReloadTypeOK
  <2>5. ReloadTypeOK'
    BY <1>6, <2>2, <2>3, <2>4 DEF Cleanup, ReloadTypeOK, Nothing, editVars
  <2>6. TaskInv'
    BY <1>6, <2>3 DEF Cleanup, TaskInv, Nothing, editVars
  <2>7. QED
    BY <2>5, <2>6
<1>7. ASSUME NEW b \in Backends, WarmConnect(b) PROVE ReloadTypeOK' /\ TaskInv'
  <2>1. taken \in Configs /\ b \in DOMAIN Content[taken].pool /\ IsConfig(Content[taken])
    BY <1>7 DEF WarmConnect, TaskInv, ReloadTypeOK
  <2>2. Content[taken].addr[b] \in Addrs
    BY <2>1 DEF IsConfig
  <2>3. pooled' \in [Addrs -> 0 .. PoolCap] /\ late' \subseteq Addrs
    BY <1>7, <2>2 DEF WarmConnect, Deposit, ReloadTypeOK
  <2>4. warming' \in [Backends -> Nat]
        /\ \A d \in Backends : warming'[d] > 0 => warming[d] > 0
    BY <1>7 DEF WarmConnect, ReloadTypeOK
  <2>5. QED
    BY <1>7, <2>3, <2>4 DEF WarmConnect, ReloadTypeOK, TaskInv, editVars, requestVars, Pools
<1>8. ASSUME NEW b \in Backends, WarmStop(b) PROVE ReloadTypeOK' /\ TaskInv'
  BY <1>8 DEF WarmStop, ReloadTypeOK, TaskInv, editVars, requestVars, Pools
<1>9. CASE WarmEnd
  BY <1>9 DEF WarmEnd, ReloadTypeOK, TaskInv, editVars, requestVars, Pools, Warm
<1>10. QED
  BY <1>1, <1>2, <1>3, <1>4, <1>5, <1>6, <1>7, <1>8, <1>9 DEF ReloadTask

\* Requests and the ends of pooled connections keep them.
LEMMA RequestTypes ==
  ASSUME ReloadInv, NEW r \in Requests, RequestStep(r)
  PROVE  ReloadInv'
<1> USE ReloadAssumption DEF ReloadInv
<1>1. ASSUME NEW k \in Paths, Hit(r, k) PROVE ReloadInv'
  BY <1>1 DEF Hit, vars, editVars, taskVars, requestVars, ReloadTypeOK, TaskInv, RequestInv, PoolOf, Pools
<1>2. ASSUME NEW k \in Paths, resolve_backend_pool(r, k) PROVE ReloadInv'
  <2>1. cache' \in [Paths -> Entries]
    BY <1>2 DEF resolve_backend_pool, ReloadTypeOK, Entries
  <2>2. QED
    BY <1>2, <2>1 DEF resolve_backend_pool, ReloadTypeOK, TaskInv, RequestInv, PoolOf, editVars, taskVars, Pools
<1>3. CASE Enqueue(r)
  <2>1. PoolOf(r) \in PoolIds
    BY <1>3, ConfigTypes DEF Enqueue, RequestInv
  <2>2. QED
    BY <1>3, <2>1, SMTT(30) DEF Enqueue, End, ReloadTypeOK, TaskInv, RequestInv, PoolOf, editVars, taskVars, Pools
<1>4. ASSUME NEW b \in Backends, Gate(r, b) PROVE ReloadInv'
  <2>1. snap[r] \in Configs /\ PoolOf(r) \in Pools(snap[r]) /\ b \in build_backend_pools[snap[r]][PoolOf(r)]
    BY <1>4 DEF Gate, RequestInv
  <2>2. AddrOf(r, b) \in Addrs /\ Content[snap[r]].conns[b] \in Nat
    BY <2>1, PoolMembers DEF AddrOf
  <2>3. pooled' \in [Addrs -> 0 .. PoolCap] /\ limits' \in [Backends -> Nat]
    BY <1>4, <2>2 DEF Gate, ReloadTypeOK
  <2>4. ReloadTypeOK'
    BY <1>4, <2>3 DEF Gate, ReloadTypeOK, editVars, taskVars
  <2>5. QED
    BY <1>4, <2>1, <2>4 DEF Gate, ReloadTypeOK, TaskInv, RequestInv, PoolOf, editVars, taskVars, Pools
<1>5. CASE Dialled(r) \/ DialledQuic(r)
  <2>1. snap[r] \in Configs /\ PoolOf(r) \in Pools(snap[r]) /\ target[r] \in build_backend_pools[snap[r]][PoolOf(r)]
    BY <1>5 DEF Dialled, DialledQuic, RequestInv
  <2>2. AddrOf(r, target[r]) \in Addrs
    BY <2>1, PoolMembers DEF AddrOf
  <2>3. pooled' \in [Addrs -> 0 .. PoolCap] /\ late' \subseteq Addrs
    BY <1>5, <2>2 DEF Dialled, DialledQuic, Deposit, ReloadTypeOK
  <2>4. QED
    BY <1>5, <2>3 DEF Dialled, DialledQuic, ReloadTypeOK, TaskInv, RequestInv, PoolOf, editVars, taskVars, Pools
<1>6. CASE Put(r)
  <2>1. snap[r] \in Configs /\ path[r] \in Paths
    BY <1>6 DEF Put, RequestInv
  <2>2. cache' \in [Paths -> Entries]
    BY <1>6, <2>1 DEF Put, ReloadTypeOK, Entries, SameRouting
  <2>3. QED
    BY <1>6, <2>2 DEF Put, End, ReloadTypeOK, TaskInv, RequestInv, PoolOf, editVars, taskVars, Pools
<1>7. CASE Finish(r)
  BY <1>7 DEF Finish, End, ReloadTypeOK, TaskInv, RequestInv, PoolOf, editVars, taskVars, Pools
<1>8. QED
  BY <1>1, <1>2, <1>3, <1>4, <1>5, <1>6, <1>7 DEF RequestStep

\* Every step of the task, of a request, of a drain and of the pool keeps it.
LEMMA ReloadInvStep == ReloadInv /\ [Next]_vars => ReloadInv'
<1> SUFFICES ASSUME ReloadInv, [Next]_vars PROVE ReloadInv'
  OBVIOUS
<1> USE ReloadAssumption
<1>1. CASE ReloadTask \/ \E c \in Configs : reload_config(c)
  BY <1>1, TaskTypes
<1>2. ASSUME NEW r \in Requests, RequestStep(r) PROVE ReloadInv'
  BY <1>2, RequestTypes
<1>3. ASSUME NEW d \in drains, DrainCheck(d) \/ DrainEvict(d) PROVE ReloadInv'
  <2>1. drains' \subseteq [n : 1 .. MaxEdits, addrs : SUBSET Addrs, phase : {"sleep", "evict"}]
    <3> DEFINE Drains == [n : 1 .. MaxEdits, addrs : SUBSET Addrs, phase : {"sleep", "evict"}]
               e == [d EXCEPT !.addrs = @ \ backend_addresses[published], !.phase = "evict"]
    <3>1. drains \subseteq Drains /\ d \in Drains
      BY DEF ReloadInv, ReloadTypeOK
    <3>2. e \in Drains
      <4>1. d.addrs \ backend_addresses[published] \in SUBSET Addrs
        BY <3>1
      <4>2. QED
        BY <3>1, <4>1
    <3> HIDE DEF Drains, e
    <3>3. drains' = (drains \ {d}) \cup {e} \/ drains' = drains \ {d}
      BY <1>3 DEF DrainCheck, DrainEvict, e
    <3>4. QED
      BY <3>1, <3>2, <3>3 DEF Drains
  <2>2. pooled' \in [Addrs -> 0 .. PoolCap] /\ late' \subseteq Addrs
    BY <1>3 DEF DrainCheck, DrainEvict, drain_backends, ReloadInv, ReloadTypeOK
  <2>3. QED
    BY <1>3, <2>1, <2>2 DEF DrainCheck, DrainEvict, ReloadInv, ReloadTypeOK, TaskInv, RequestInv, PoolOf,
         editVars, taskVars, requestVars, Pools
<1>4. ASSUME NEW k \in Paths, Displace(k) PROVE ReloadInv'
  <2>1. cache' \in [Paths -> Entries]
    BY <1>4 DEF Displace, ReloadInv, ReloadTypeOK, Entries
  <2>2. QED
    BY <1>4, <2>1 DEF Displace, ReloadInv, ReloadTypeOK, TaskInv, RequestInv, PoolOf,
         editVars, taskVars, requestVars, Pools
<1>5. ASSUME NEW a \in Addrs, ConnLost(a) PROVE ReloadInv'
  BY <1>5 DEF ConnLost, ReloadInv, ReloadTypeOK, TaskInv, RequestInv, PoolOf, editVars, taskVars, requestVars, Pools
<1>6. CASE UNCHANGED vars
  BY <1>6 DEF vars, ReloadInv, ReloadTypeOK, TaskInv, RequestInv, PoolOf, editVars, taskVars, requestVars, Pools
<1>7. QED
  BY <1>1, <1>2, <1>3, <1>4, <1>5, <1>6 DEF Next

\* Types hold, with the caps they contain (the pool's, the bound of edits), and
\* a request in flight keeps to the configuration it was routed in, whatever
\* apply_config_reload publishes meanwhile.
THEOREM ReloadTypeCorrect == Spec => [](ReloadTypeOK /\ RequestInv)
<1>1. ReloadInv => ReloadTypeOK /\ RequestInv
  BY SMTT(30) DEF ReloadInv
<1>2. QED
  BY <1>1, ReloadInitially, ReloadInvStep, PTL DEF Spec

-----------------------------------------------------------------------------
(* The cache.                                                              *)

\* prev_routes and prev_backends are those of the published state except
\* between the publication and the flush, and an entry that was in time was
\* routed under one of the two.
CacheInv ==
    /\ pc # "clear" => SameRouting(prev, published)
    /\ \A k \in Paths : cache[k] # NoEntry /\ ~ cache[k].late =>
         SameRouting(cache[k].cfg, prev) \/ SameRouting(cache[k].cfg, published)

\* Every step keeps what is known of the routing cache.
LEMMA CacheStep == ReloadInv /\ CacheInv /\ [Next]_vars => CacheInv'
<1> SUFFICES ASSUME ReloadInv, CacheInv, [Next]_vars PROVE CacheInv'
  OBVIOUS
<1>1. CASE UNCHANGED <<pc, prev, published, cache>>
  BY <1>1 DEF CacheInv, SameRouting
<1>2. CASE Publish
  BY <1>2 DEF Publish, CacheInv, SameRouting
<1>3. CASE Clear
  BY <1>3 DEF Clear, CacheInv, SameRouting, ReloadInv, TaskInv
<1>4. CASE Cleanup \/ WarmEnd
  BY <1>4 DEF Cleanup, WarmEnd, CacheInv, SameRouting
<1>5. ASSUME NEW r \in Requests, NEW k \in Paths, resolve_backend_pool(r, k) PROVE CacheInv'
  BY <1>5 DEF resolve_backend_pool, CacheInv, SameRouting, ReloadInv, ReloadTypeOK, taskVars
<1>6. ASSUME NEW k \in Paths, Displace(k) PROVE CacheInv'
  BY <1>6 DEF Displace, CacheInv, SameRouting, ReloadInv, ReloadTypeOK, taskVars
<1>7. ASSUME NEW r \in Requests, Put(r) PROVE CacheInv'
  BY <1>7 DEF Put, CacheInv, SameRouting, ReloadInv, ReloadTypeOK, taskVars
<1>8. QED
  BY <1>1, <1>2, <1>3, <1>4, <1>5, <1>6, <1>7
  DEF Next, ReloadTask, RequestStep, reload_config, TakeUnbuildable, WarmConnect, WarmStop, DrainCheck, DrainEvict,
      Hit, Enqueue, Gate, Dialled, DialledQuic, Finish, ConnLost, vars, taskVars

\* For any configurations and requests, whatever is stale in the cache after
\* the flush was put there by a request that the reload overtook
\* (apply_config_reload, store_and_respond).
THEOREM StaleEntriesAreLate == Spec => []StaleIsLate
<1>1. Init => CacheInv
  BY DEF Init, CacheInv, SameRouting
<1>2. CacheInv => StaleIsLate
  BY DEF CacheInv, StaleIsLate, SameRouting
<1>3. QED
  BY <1>1, <1>2, CacheStep, ReloadInitially, ReloadInvStep, PTL DEF Spec

-----------------------------------------------------------------------------
(* The connection pool.                                                    *)

\* OrphanIsLate at any moment: between the publication and the cleanup the
\* drain is still to be spawned, for the addresses that the diff found gone.
OrphanInv ==
    \A a \in Addrs : pooled[a] > 0 /\ a \notin backend_addresses[published] =>
        \/ a \in late
        \/ \E d \in drains : a \in d.addrs
        \/ pc \in {"clear", "cleanup"} /\ a \in removed.addrs

\* Every step keeps what is known of the pooled connections.
LEMMA OrphanStep == ReloadInv /\ OrphanInv /\ [Next]_vars => OrphanInv'
<1> SUFFICES ASSUME ReloadInv, OrphanInv, [Next]_vars, NEW a \in Addrs,
                    pooled'[a] > 0, a \notin backend_addresses[published']
             PROVE  \/ a \in late'
                    \/ \E d \in drains' : a \in d.addrs
                    \/ pc' \in {"clear", "cleanup"} /\ a \in removed'.addrs
  BY DEF OrphanInv, backend_addresses, build_backend_pools, Pools
<1> DEFINE Owed == \/ a \in late'
                   \/ \E d \in drains' : a \in d.addrs
                   \/ pc' \in {"clear", "cleanup"} /\ a \in removed'.addrs
<1> USE ReloadAssumption DEF ReloadInv, ReloadTypeOK
<1>0. /\ pooled[a] \in Nat
      /\ pooled[a] > 0 /\ a \notin backend_addresses[published] =>
           \/ a \in late
           \/ \E d \in drains : a \in d.addrs
           \/ pc \in {"clear", "cleanup"} /\ a \in removed.addrs
  BY DEF OrphanInv
<1>1. CASE UNCHANGED <<pc, removed, published, drains, pooled, late>>
  BY <1>0, <1>1
<1>2. CASE Publish
  BY <1>0, <1>2 DEF Publish, diff_removed_backends
<1>3. CASE Clear
  BY <1>0, <1>3 DEF Clear
<1>4. CASE Cleanup
  <2>1. drains \subseteq drains' /\ (a \in removed.addrs => \E d \in drains' : a \in d.addrs)
    <3> DEFINE new == [n |-> edits, addrs |-> removed.addrs, phase |-> "sleep"]
    <3>1. removed.addrs # {} => new \in drains'
      BY <1>4 DEF Cleanup, spawn_backend_drain
    <3>2. new.addrs = removed.addrs
      OBVIOUS
    <3> HIDE DEF new
    <3>3. a \in removed.addrs => \E d \in drains' : a \in d.addrs
      BY <3>1, <3>2
    <3>4. drains \subseteq drains'
      BY <1>4 DEF Cleanup, spawn_backend_drain
    <3>5. QED
      BY <3>3, <3>4
  <2>2. QED
    BY <1>0, <1>4, <2>1 DEF Cleanup
<1>5. CASE WarmEnd
  BY <1>0, <1>5 DEF WarmEnd
<1>6. ASSUME NEW d \in drains, DrainCheck(d) PROVE Owed
  <2> DEFINE e == [d EXCEPT !.addrs = @ \ backend_addresses[published], !.phase = "evict"]
  <2>1. d \in [n : 1 .. MaxEdits, addrs : SUBSET Addrs, phase : {"sleep", "evict"}]
    OBVIOUS
  <2>2. e.addrs = d.addrs \ backend_addresses[published]
    BY <2>1
  <2> HIDE DEF e
  <2>3. drains' = (drains \ {d}) \cup {e} /\ UNCHANGED <<pc, removed, published, pooled, late>>
    BY <1>6 DEF DrainCheck, taskVars, e
  <2>4. ASSUME NEW c \in drains, a \in c.addrs PROVE \E x \in drains' : a \in x.addrs
    <3>1. CASE c = d
      BY <2>2, <2>3, <2>4, <3>1
    <3>2. CASE c # d
      BY <2>3, <2>4, <3>2
    <3>3. QED
      BY <3>1, <3>2
  <2>5. QED
    BY <1>0, <2>3, <2>4
<1>7. ASSUME NEW d \in drains, DrainEvict(d) PROVE Owed
  <2>1. a \notin d.addrs /\ pooled[a] > 0
    BY <1>7 DEF DrainEvict, drain_backends
  <2>2. QED
    BY <1>0, <1>7, <2>1 DEF DrainEvict, drain_backends, taskVars
<1>8. ASSUME NEW x \in Addrs, Deposit(x) \/ UNCHANGED <<pooled, late>>,
             UNCHANGED <<pc, removed, published, drains>>
      PROVE  Owed
  <2>1. CASE a = x /\ Deposit(x)
    BY <1>8, <2>1 DEF Deposit
  <2>2. CASE a # x \/ UNCHANGED <<pooled, late>>
    <3>1. pooled'[a] = pooled[a] /\ late \subseteq late'
      BY <1>8, <2>2 DEF Deposit
    <3>2. QED
      BY <1>0, <1>8, <3>1
  <2>3. QED
    BY <1>8, <2>1, <2>2
<1>9. ASSUME NEW b \in Backends, WarmConnect(b) PROVE Owed
  <2>1. taken \in Configs /\ b \in DOMAIN Content[taken].pool /\ IsConfig(Content[taken])
    BY <1>9 DEF WarmConnect, TaskInv
  <2>2. Content[taken].addr[b] \in Addrs
    BY <2>1 DEF IsConfig
  <2>3. QED
    BY <1>8, <1>9, <2>2 DEF WarmConnect
<1>10. ASSUME NEW r \in Requests, Dialled(r) \/ DialledQuic(r) PROVE Owed
  <2>1. AddrOf(r, target[r]) \in Addrs
    BY <1>10, PoolMembers DEF Dialled, DialledQuic, RequestInv, AddrOf
  <2>2. QED
    BY <1>8, <1>10, <2>1 DEF Dialled, DialledQuic, taskVars
<1>11. ASSUME NEW r \in Requests, NEW b \in Backends, Gate(r, b) PROVE Owed
  <2>1. pooled[a] > 0
    BY <1>0, <1>11 DEF Gate
  <2>2. QED
    BY <1>0, <1>11, <2>1 DEF Gate, taskVars
<1>12. ASSUME NEW x \in Addrs, ConnLost(x) PROVE Owed
  BY <1>0, <1>12 DEF ConnLost, taskVars
<1>13. QED
  BY <1>1, <1>2, <1>3, <1>4, <1>5, <1>6, <1>7, <1>9, <1>10, <1>11, <1>12
  DEF Next, ReloadTask, RequestStep, reload_config, TakeUnbuildable, WarmStop, Hit, resolve_backend_pool,
      Enqueue, Put, Finish, Displace, vars, taskVars

\* For any configurations and requests, every connection to an address that a
\* reload removed is drained, but for those that were pooled after that
\* (spawn_backend_drain, drain_backends).
THEOREM OrphansAreLate == Spec => []OrphanIsLate
<1>1. Init => OrphanInv
  BY DEF Init, OrphanInv
<1>2. OrphanInv => OrphanIsLate
  BY DEF OrphanInv, OrphanIsLate
<1>3. QED
  BY <1>1, <1>2, OrphanStep, ReloadInitially, ReloadInvStep, PTL DEF Spec

-----------------------------------------------------------------------------
(* Admission.                                                              *)

\* A permit of a removed queue belongs to a request that the history knows,
\* and the permits of each queue in force are within its depth.
AdmitInv ==
    /\ \A r \in Requests : slot[r] = "old" => r \in gone
    /\ \A p \in PoolIds : Cardinality(Admitted(p, "current")) <= QueueDepth

\* The sets of holders are finite, and a smaller one has no more members.
LEMMA FewerAdmitted ==
  ASSUME NEW S, NEW T, S \subseteq T, T \subseteq Requests
  PROVE  /\ IsFiniteSet(S) /\ IsFiniteSet(T)
         /\ Cardinality(S) \in Nat /\ Cardinality(T) \in Nat
         /\ Cardinality(S) <= Cardinality(T)
  BY ReloadAssumption, FS_Subset, FS_CardinalityType, SMTT(30)

\* Every step keeps what is known of the permits.
LEMMA AdmitStep == ReloadInv /\ AdmitInv /\ [Next]_vars => AdmitInv'
<1> SUFFICES ASSUME ReloadInv, AdmitInv, [Next]_vars PROVE AdmitInv'
  OBVIOUS
<1> USE ReloadAssumption DEF ReloadInv, ReloadTypeOK
<1>1. ASSUME \A p \in PoolIds : Admitted(p, "current")' \subseteq Admitted(p, "current"),
             \A r \in Requests : slot'[r] = "old" => r \in gone'
      PROVE  AdmitInv'
  <2>1. \A p \in PoolIds : Admitted(p, "current") \subseteq Requests
    BY DEF Admitted
  <2>2. QED
    BY <1>1, <2>1, FewerAdmitted DEF AdmitInv
<1>2. CASE UNCHANGED <<slot, snap, path, gone>>
  BY <1>2 DEF AdmitInv, Admitted, PoolOf
<1>3. CASE Cleanup
  <2>1. \A p \in PoolIds : Admitted(p, "current")' \subseteq Admitted(p, "current")
    BY <1>3 DEF Cleanup, Admitted, PoolOf
  <2>2. \A r \in Requests : slot'[r] = "old" => r \in gone'
    BY <1>3 DEF Cleanup, AdmitInv, TaskInv
  <2>3. QED
    BY <1>1, <2>1, <2>2
<1>4. ASSUME NEW r \in Requests, NEW k \in Paths, resolve_backend_pool(r, k) PROVE AdmitInv'
  <2>1. slot[r] = "none"
    BY <1>4 DEF resolve_backend_pool, RequestInv
  <2>2. QED
    BY <1>1, <1>4, <2>1 DEF resolve_backend_pool, Admitted, PoolOf, AdmitInv
<1>5. ASSUME NEW r \in Requests, End(r) PROVE AdmitInv'
  BY <1>1, <1>5 DEF End, Admitted, PoolOf, AdmitInv
<1>6. ASSUME NEW r \in Requests, Enqueue(r) PROVE AdmitInv'
  <2>0. PICK p : p = PoolOf(r)
    OBVIOUS
  <2> DEFINE A == Admitted(p, "current")
  <2>1. CASE Cardinality(A) < QueueDepth
    <3>1. slot' = [slot EXCEPT ![r] = "current"] /\ UNCHANGED <<snap, path, gone>>
      BY <1>6, <2>0, <2>1 DEF Enqueue
    <3>2. p \in PoolIds
      BY <1>6, <2>0, ConfigTypes DEF Enqueue, RequestInv
    <3>3. \A q \in PoolIds : q # p => Admitted(q, "current")' = Admitted(q, "current")
      BY <2>0, <3>1 DEF Admitted, PoolOf
    <3>4. Admitted(p, "current")' = A \cup {r}
      BY <2>0, <3>1 DEF Admitted, PoolOf
    <3>5. IsFiniteSet(A) /\ Cardinality(A) \in Nat
      BY FewerAdmitted DEF Admitted
    <3>6. \A q \in Requests : slot'[q] = "old" => q \in gone'
      BY <3>1 DEF AdmitInv
    <3> HIDE DEF A
    <3>7. Cardinality(A \cup {r}) = Cardinality(A) \/ Cardinality(A \cup {r}) = Cardinality(A) + 1
      BY <3>5, FS_AddElement
    <3>8. Cardinality(A \cup {r}) <= QueueDepth
      BY <2>1, <3>5, <3>7
    <3>9. \A q \in PoolIds : Cardinality(Admitted(q, "current")') <= QueueDepth
      BY <3>2, <3>3, <3>4, <3>8 DEF AdmitInv
    <3>10. QED
      BY <3>6, <3>9 DEF AdmitInv
  <2>2. CASE ~(Cardinality(A) < QueueDepth)
    BY <1>5, <1>6, <2>0, <2>2 DEF Enqueue
  <2>3. QED
    BY <2>1, <2>2
<1>7. QED
  BY <1>2, <1>3, <1>4, <1>5, <1>6
  DEF Next, ReloadTask, RequestStep, reload_config, TakeUnbuildable, Publish, Clear, WarmConnect, WarmStop, WarmEnd,
      DrainCheck, DrainEvict, Hit, Gate, Dialled, DialledQuic, Put, Finish, Displace, ConnLost, vars, requestVars

\* For any depth and number of requests, reloads let a pool have more requests
\* than queue_depth only through permits of a queue that was removed under
\* them (remove_backend of balancer/queue.rs, apply_config_reload).
THEOREM AdmissionBounded == Spec => []AdmissionBound
<1>1. Init => AdmitInv
  <2>1. Init => \A p \in PoolIds : Admitted(p, "current") = {}
    BY DEF Init, Admitted
  <2>2. QED
    <3>1. Cardinality({}) = 0 /\ 0 <= QueueDepth
      BY FS_EmptySet, ReloadAssumption
    <3>2. Init => \A r \in Requests : slot[r] = "none"
      BY DEF Init
    <3>3. QED
      BY <2>1, <3>1, <3>2 DEF AdmitInv
<1>2. ReloadInv /\ AdmitInv => AdmissionBound
  <2> SUFFICES ASSUME ReloadInv, AdmitInv, NEW p \in PoolIds
               PROVE  Cardinality({r \in Requests : slot[r] # "none" /\ PoolOf(r) = p} \ gone) <= QueueDepth
    BY DEF AdmissionBound
  <2> DEFINE S == {r \in Requests : slot[r] # "none" /\ PoolOf(r) = p} \ gone
  <2>1. S \subseteq Admitted(p, "current") /\ Admitted(p, "current") \subseteq Requests
    BY DEF Admitted, AdmitInv, ReloadInv, ReloadTypeOK
  <2>2. Cardinality(Admitted(p, "current")) <= QueueDepth
    BY DEF AdmitInv
  <2>3. QED
    BY <2>1, <2>2, FewerAdmitted, ReloadAssumption
<1>3. QED
  BY <1>1, <1>2, AdmitStep, ReloadInitially, ReloadInvStep, PTL DEF Spec
=============================================================================
