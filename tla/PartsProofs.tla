---------------------------- MODULE PartsProofs -----------------------------
(***************************************************************************)
(* What the run of MCParts checks, for every instance: the start of the    *)
(* process (Startup), what is loaded from files (FileWatch), a body that   *)
(* is compressed (Compress), a tunnel's control stream (Control), the      *)
(* questions to Rules, Settings and Trust, and, with ReloadProofs, all of  *)
(* them together.                                                          *)
(***************************************************************************)
EXTENDS MCParts, ReloadProofs, SequenceTheorems, WellFoundedInduction, NaturalsInduction

-----------------------------------------------------------------------------
(* Startup.                                                                *)

\* How far run has come when a step is next.
LEMMA StepNumbers ==
  ASSUME step \in 0 .. 13
  PROVE  /\ Now = "ingress" => step = 6
         /\ Now = "redirect" => step = 7
         /\ Now = "tunnel" => step = 8
         /\ Now = "health" => step = 10
         /\ Now = "ready" => step = 12
         /\ Now = "data" => step = 13
         /\ Now \in {"tls", "balancing", "revocation", "state", "reload", "gc", "warm", "authz"} => step \notin {6, 7, 8, 10, 12, 13}
BY DEF Now, Steps

\* Readiness has been announced.
LEMMA Announced ==
  ASSUME NEW n \in 0 .. 14, \E i \in 1 .. n : Steps[i] = "ready" PROVE n >= 13
BY DEF Steps

\* The plan of listeners, as StartupInit lets it be and nothing changes it.
PlanInv ==
    /\ plan \in [Listeners -> Sockets \cup {Off}] /\ Validated(plan) /\ plan["data"] # Off
    /\ {plan["redirect"][1], plan["health"][1]} \subseteq {"tcp", "off"} /\ plan["tunnel"][1] \in {"udp", "off"}

\* How far run has come, and who has which socket.
StartupInv ==
    /\ PlanInv /\ StartupTypeOK
    /\ \A l, k \in bound : l # k => plan[l] # plan[k]
    /\ run = "starting" => step <= 13 /\ "data" \notin bound
    /\ run = "serving" => step = 14 /\ "data" \in bound
    /\ run = "failed" => bound = {} /\ step <= 13
    /\ run # "failed" =>
         /\ step > 6 /\ plan["ingress"] # Off => "ingress" \in bound
         /\ step > 7 /\ plan["redirect"] # Off => "redirect" \in bound
         /\ step > 10 /\ plan["health"] # Off => "health" \in bound
         /\ step > 12 /\ plan["health"] # Off => readyz = "ready"
    /\ "tunnel" \in bound => tunnel = "listening"
    /\ tunnel = "spawned" => plan["tunnel"] # Off
    /\ run = "starting" /\ step <= 8 => tunnel = "none"

\* A failure keeps the invariant.
LEMMA FailStep ==
  ASSUME StartupInv, run = "starting", Fail, UNCHANGED plan PROVE StartupInv'
<1>1. PlanInv'
  BY DEF StartupInv, PlanInv
<1>2. StartupTypeOK'
  BY DEF StartupInv, StartupTypeOK, Fail, Validated
<1>3. QED
  BY <1>1, <1>2 DEF StartupInv, Fail

\* Every step of the start keeps the invariant.
LEMMA StartupInvStep == StartupInv /\ [StartupNext]_startupVars => StartupInv'
<1> SUFFICES ASSUME StartupInv, [StartupNext]_startupVars PROVE StartupInv'
  OBVIOUS
<1>1. UNCHANGED plan
  BY DEF StartupNext, startupVars, build_tls_setup, build_balancing, setup_revocation_watcher, RawRelayAuthz_new,
         MayFail, Infallible, spawn_ingress_listeners, spawn_http_redirect, spawn_health_endpoint,
         spawn_tunnel_listener, run_tunnel_listener, set_ready, bind_data_plane
<1>2. PlanInv' /\ Validated(plan')
  BY <1>1 DEF StartupInv, PlanInv, Validated
<1>3. run = "starting" => step \in 0 .. 13
  BY DEF StartupInv, StartupTypeOK, Steps
<1>4. Len(Steps) = 14
  BY DEF Steps
<1> USE DEF Listeners
<1>5. ASSUME NEW s \in {"tls", "balancing", "revocation", "authz"}, MayFail(s) PROVE StartupInv'
  <2>1. CASE Fail
    BY <1>1, <1>5, <2>1, FailStep DEF MayFail, Goes
  <2>2. ASSUME Done, UNCHANGED <<bound, tunnel, readyz, run>> PROVE StartupInv'
    <3>1. run = "starting" /\ step \in 0 .. 13 /\ step \notin {6, 7, 8, 10, 12, 13} /\ step' = step + 1
      BY <1>3, <1>5, <2>2, StepNumbers DEF MayFail, Goes, Done
    <3>2. QED
      BY <1>1, <1>2, <1>4, <2>2, <3>1 DEF StartupInv, StartupTypeOK
  <2>3. QED
    BY <1>5, <2>1, <2>2 DEF MayFail
<1>6. ASSUME NEW s, Infallible(s) PROVE StartupInv'
  <2>1. /\ run = "starting" /\ step \in 0 .. 13 /\ step \notin {6, 7, 8, 10, 12, 13} /\ step' = step + 1
        /\ UNCHANGED <<bound, tunnel, readyz, run>>
    BY <1>3, <1>6, StepNumbers DEF Infallible, Goes, Done
  <2>2. QED
    BY <1>1, <1>2, <1>4, <2>1 DEF StartupInv, StartupTypeOK
<1>7. ASSUME NEW l \in {"ingress", "redirect", "health"}, NEW answer, BindNow(l, answer), run = "starting",
             \/ l = "ingress" /\ step = 6 /\ answer = readyz
             \/ l = "redirect" /\ step = 7 /\ answer = readyz
             \/ l = "health" /\ step = 10 /\ answer = "starting"
      PROVE  StartupInv'
  <2>1. CASE Fail
    BY <1>1, <1>7, <2>1, FailStep
  <2>2. ASSUME plan[l] = Off, Done, UNCHANGED <<bound, readyz, tunnel, run>> PROVE StartupInv'
    BY <1>1, <1>2, <1>3, <1>4, <1>7, <2>2 DEF StartupInv, StartupTypeOK, Done
  <2>3. ASSUME Free(l), Done, bound' = bound \cup {l}, readyz' = answer, UNCHANGED <<tunnel, run>> PROVE StartupInv'
    <3>1. \A j, k \in bound' : j # k => plan'[j] # plan'[k]
      BY <1>1, <2>3 DEF StartupInv, Free
    <3>2. StartupTypeOK'
      BY <1>1, <1>2, <1>3, <1>4, <1>7, <2>3 DEF StartupInv, StartupTypeOK, Done
    <3>3. QED
      BY <1>1, <1>2, <1>3, <1>7, <2>3, <3>1, <3>2 DEF StartupInv, Done
  <2>4. QED
    BY <1>7, <2>1, <2>2, <2>3 DEF BindNow
<1>8. CASE spawn_ingress_listeners \/ spawn_http_redirect \/ spawn_health_endpoint
  BY <1>3, <1>7, <1>8, StepNumbers DEF spawn_ingress_listeners, spawn_http_redirect, spawn_health_endpoint, Goes
<1>9. CASE spawn_tunnel_listener
  <2>1. run = "starting" /\ step = 8 /\ step' = 9 /\ UNCHANGED <<bound, readyz, run>>
    BY <1>3, <1>9, StepNumbers DEF spawn_tunnel_listener, Goes, Done
  <2>2. tunnel' = (IF plan["tunnel"] = Off THEN "none" ELSE "spawned") /\ tunnel = "none"
    BY <1>9, <2>1 DEF spawn_tunnel_listener, StartupInv
  <2>3. QED
    BY <1>1, <1>2, <1>4, <2>1, <2>2 DEF StartupInv, StartupTypeOK
<1>10. CASE run_tunnel_listener
  <2>1. UNCHANGED <<step, readyz, run>> /\ tunnel = "spawned" /\ run # "failed" /\ tunnel' \in {"listening", "failed"}
    BY <1>10 DEF run_tunnel_listener
  <2>2. bound' = bound \/ (Free("tunnel") /\ bound' = bound \cup {"tunnel"} /\ tunnel' = "listening")
    BY <1>10 DEF run_tunnel_listener
  <2>3. \A j, k \in bound' : j # k => plan'[j] # plan'[k]
    BY <1>1, <2>2 DEF StartupInv, Free
  <2>4. StartupTypeOK'
    BY <1>1, <1>2, <2>1, <2>2 DEF StartupInv, StartupTypeOK
  <2>5. QED
    BY <1>1, <1>2, <2>1, <2>2, <2>3, <2>4 DEF StartupInv
<1>11. CASE set_ready
  <2>1. run = "starting" /\ step = 12 /\ step' = 13 /\ UNCHANGED <<bound, tunnel, run>>
    BY <1>3, <1>11, StepNumbers DEF set_ready, Goes, Done
  <2>2. readyz' = IF "health" \in bound THEN "ready" ELSE readyz
    BY <1>11 DEF set_ready
  <2>3. QED
    BY <1>1, <1>2, <1>4, <2>1, <2>2 DEF StartupInv, StartupTypeOK
<1>12. CASE bind_data_plane
  <2>1. CASE Fail
    BY <1>1, <1>12, <2>1, FailStep DEF bind_data_plane, Goes
  <2>2. ASSUME Free("data"), Done, bound' = bound \cup {"data"}, run' = "serving", UNCHANGED <<tunnel, readyz>>
        PROVE  StartupInv'
    <3>1. run = "starting" /\ step = 13 /\ step' = 14
      BY <1>3, <1>12, <2>2, StepNumbers DEF bind_data_plane, Goes, Done
    <3>2. \A j, k \in bound' : j # k => plan'[j] # plan'[k]
      BY <1>1, <2>2 DEF StartupInv, Free
    <3>3. StartupTypeOK'
      BY <1>1, <1>2, <1>4, <2>2, <3>1 DEF StartupInv, StartupTypeOK
    <3>4. QED
      BY <1>1, <1>2, <2>2, <3>1, <3>2, <3>3 DEF StartupInv
  <2>3. QED
    BY <1>12, <2>1, <2>2 DEF bind_data_plane
<1>13. CASE UNCHANGED startupVars
  BY <1>2, <1>13 DEF StartupInv, StartupTypeOK, startupVars
<1>14. QED
  BY <1>5, <1>6, <1>8, <1>9, <1>10, <1>11, <1>12, <1>13
     DEF StartupNext, build_tls_setup, build_balancing, setup_revocation_watcher, RawRelayAuthz_new

\* A process that has just begun has no socket.
LEMMA StartupInitially == StartupInit => StartupInv
<1> SUFFICES ASSUME StartupInit PROVE StartupInv
  OBVIOUS
<1>1. PlanInv
  BY DEF StartupInit, PlanInv
<1>2. 0 \in 0 .. Len(Steps)
  BY DEF Steps
<1>3. StartupTypeOK
  BY <1>1, <1>2 DEF StartupInit, StartupTypeOK, PlanInv
<1>4. QED
  BY <1>1, <1>3 DEF StartupInit, StartupInv

\* What the invariant says of the announcement.
LEMMA StartupPromises == StartupInv => ReadyIsKept
<1> SUFFICES ASSUME StartupInv PROVE ReadyIsKept
  OBVIOUS
<1>1. run = "failed" /\ (\E i \in 1 .. step : Steps[i] = "ready") => Now = "data"
  <2>1. PICK n \in 0 .. 14 : n = step
    BY DEF StartupInv, StartupTypeOK, Steps
  <2>2. SUFFICES ASSUME run = "failed", \E i \in 1 .. n : Steps[i] = "ready" PROVE Now = "data"
    BY <2>1
  <2>3. step = 13
    BY <2>1, <2>2, Announced DEF StartupInv
  <2>4. QED
    BY <2>3 DEF Now, Steps
<1>2. ASSUME run = "serving"
      PROVE  /\ \A l \in Listeners \ {"tunnel"} : plan[l] # Off => l \in bound
             /\ \A l, k \in bound : l # k => plan[l] # plan[k]
             /\ plan["health"] # Off => readyz = "ready"
  BY <1>2 DEF StartupInv, Listeners
<1>3. QED
  BY <1>1, <1>2 DEF ReadyIsKept

\* For any addresses that validate accepts and whichever binds fail: after
\* readiness was announced only the data plane's own step can end the start, and a
\* process that serves has every listener and says that it is ready
\* (startup::run, health_endpoint.rs).
THEOREM StartupKeepsReady == StartupSpec => []ReadyIsKept
  BY StartupInitially, StartupInvStep, StartupPromises, PTL DEF StartupSpec

-----------------------------------------------------------------------------
(* Files and what is loaded from them.                                     *)

\* The files of a consumer.
LEMMA Reads ==
  ASSUME NEW c \in Consumers
  PROVE  /\ ReadsOf(c) \subseteq Files /\ First[c] \in ReadsOf(c) /\ First[c] \in Files
         /\ ReadsOf(c) \subseteq Triggers[WatcherOf[c]] /\ WatcherOf[c] \in Watchers
         /\ NoFile \notin ReadsOf(c)
         /\ Second[c] = NoFile => ReadsOf(c) = {First[c]}
         /\ Second[c] # NoFile => Second[c] \in ReadsOf(c) /\ ReadsOf(c) = {First[c], Second[c]}
         /\ \A d \in Consumers : c # d => ReadsOf(c) \cap ReadsOf(d) = {}
<1>1. First[c] \in Files /\ Second[c] \in Files \cup {NoFile} /\ NoFile \notin Files /\ WatcherOf[c] \in Watchers
  BY WatchAssumption
<1>2. {First[c], Second[c]} \ {NoFile} \subseteq Triggers[WatcherOf[c]]
  BY WatchAssumption
<1>3. \A d \in Consumers : c # d => {First[c], Second[c]} \cap {First[d], Second[d]} \subseteq {NoFile}
  BY WatchAssumption
<1>4. \A d \in Consumers : c # d => ReadsOf(c) \cap ReadsOf(d) = {}
  BY <1>3 DEF ReadsOf
<1>5. QED
  BY <1>1, <1>2, <1>4 DEF ReadsOf

\* The denylist and the configuration are one file each, and not the same.
LEMMA SingleFiles ==
  /\ "config" \in Consumers /\ "denylist" \in Consumers
  /\ ReadsOf("config") = {First["config"]} /\ ReadsOf("denylist") = {First["denylist"]}
  /\ \A c \in Consumers : c # "config" => First["config"] \notin ReadsOf(c)
  /\ First["denylist"] # First["config"]
BY WatchAssumption, Reads

\* What an event on a file makes a thread load.
LEMMA LoadIs ==
  ASSUME NEW k, k.w \in Watchers, k.file \in Triggers[k.w]
  PROVE  /\ LoadOf(k) \in Consumers /\ WatcherOf[LoadOf(k)] = k.w /\ k.file \in ReadsOf(LoadOf(k))
         /\ \A c \in Consumers : k.file \in ReadsOf(c) => c = LoadOf(k)
<1>1. PICK c \in Consumers : WatcherOf[c] = k.w /\ k.file \in ReadsOf(c)
  <2>1. PICK c \in Consumers : WatcherOf[c] = k.w /\ k.file \in {First[c], Second[c]}
    BY WatchAssumption
  <2>2. k.file # NoFile
    BY WatchAssumption DEF Files
  <2>3. QED
    BY <2>1, <2>2 DEF ReadsOf
<1>2. c \in Affected(k.w, k.file)
  BY <1>1 DEF Affected
<1>3. LoadOf(k) \in Affected(k.w, k.file)
  BY <1>2 DEF LoadOf
<1>4. QED
  BY <1>3, Reads DEF Affected

\* The files that a load has read by where it stands.
Got(k) ==
    CASE k.at \in {"sleep", "first"} -> {}
      [] k.at = "second" -> {First[LoadOf(k)]}
      [] k.at = "publish" -> ReadsOf(LoadOf(k))

\* A debounce thread of a registered watcher.
Thread(k) ==
    /\ k = [w |-> k.w, gen |-> k.gen, file |-> k.file, at |-> k.at, got |-> k.got]
    /\ k.w \in watching /\ k.gen \in 1 .. generation[k.w] /\ k.file \in Triggers[k.w]
    /\ k.at \in {"sleep", "first", "second", "publish"}
    /\ k.got \in [Got(k) -> Contents]
    /\ k.at = "second" => Second[LoadOf(k)] # NoFile

\* The types; an in-place save has one more event to come, so that a watcher
\* has seen two for every save at most.
WatchBase ==
    /\ disk \in [Files -> Contents] /\ saved \in [Files -> Contents]
    /\ saving \in Files \cup {NoFile} /\ saves \in 0 .. MaxSaves
    /\ watching \subseteq Watchers
    /\ generation \in [Watchers -> Nat]
    /\ \A w \in Watchers : generation[w] + (IF saving = NoFile THEN 0 ELSE 1) <= 2 * saves
    /\ \A k \in workers : Thread(k)
    /\ running = [c \in Consumers |-> running[c]]
    /\ \A c \in Consumers : running[c] \in [ReadsOf(c) -> Contents]
    /\ untaken \in BOOLEAN
    /\ task \in [at : {"idle", "read"}, gen : Nat, got : Contents]
    /\ lost \in [Consumers -> {"no", "missed", "shadowed", "quarantined"}]

\* A file holds what was saved in it.  It does not while an in-place save is
\* under way, when it does not parse, and when load_or_recover has moved the
\* configuration away.
DiskInv ==
    /\ \A f \in Files : saved[f].as # "missing" /\ (disk[f].as = "missing" => f = First["config"])
    /\ \A f \in Files :
         saving # f /\ (f = First["config"] => lost["config"] = "no") => disk[f] = saved[f] \/ ~Parses(f, saved[f])

\* The reload task's re-read of the denylist: read after the last event, it is
\* what was saved.
DenyFile == First["denylist"]
DenyWatcher == WatcherOf["denylist"]
UpToDate == task.gen = generation[DenyWatcher] /\ saving # DenyFile /\ lost["denylist"] = "no"
DenylistInv ==
    /\ task.gen <= generation[DenyWatcher]
    /\ task.at = "read" /\ UpToDate /\ Parses(DenyFile, saved[DenyFile]) => task.got = saved[DenyFile]

\* A consumer waits for its last save to be complete, or for a thread that is
\* asleep and will not find itself superseded.
Threads(c) == {k \in workers : k.w = WatcherOf[c] /\ k.file \in ReadsOf(c)}
Waiting(c) == saving \in ReadsOf(c) \/ \E k \in Threads(c) : k.at = "sleep" /\ Newest(k)

\* Or it is served: whatever has been read for it is what was saved, and that
\* runs or is being loaded.
Agrees(k) == \A f \in DOMAIN k.got : k.got[f] = saved[f]
Supplied(c) ==
    /\ \A k \in Threads(c) : k.at # "sleep" => Agrees(k)
    /\ c = "denylist" /\ task.at = "read" => task.got = saved[DenyFile]
    /\ running[c] = SavedOf(c) \/ \E k \in Threads(c) : k.at # "sleep"

Following == \A c \in Consumers : lost[c] = "no" /\ Loads(c, SavedOf(c)) => Waiting(c) \/ Supplied(c)

WatchInv == WatchBase /\ DiskInv /\ DenylistInv /\ Following /\ PairMatches

\* Startup has loaded every file.
LEMMA WatchInitially == WatchInit => WatchInv
<1> SUFFICES ASSUME WatchInit PROVE WatchInv
  OBVIOUS
<1>1. PICK v \in Versions : v = CHOOSE x \in Versions : TRUE
  BY WatchAssumption
<1>2. /\ disk = [f \in Files |-> Good(v)] /\ saved = [f \in Files |-> Good(v)]
      /\ saving = NoFile /\ saves = 0 /\ watching = {}
      /\ generation = [w \in Watchers |-> 0] /\ workers = {}
      /\ running = [c \in Consumers |-> [f \in ReadsOf(c) |-> Good(v)]]
      /\ untaken = FALSE /\ task = Idle(Good(v)) /\ lost = [c \in Consumers |-> "no"]
  BY <1>1 DEF WatchInit
<1>3. Good(v) \in Contents /\ Good(v).as = "good"
  BY DEF Good, Contents
<1>4. task \in [at : {"idle", "read"}, gen : Nat, got : Contents] /\ task.at = "idle" /\ task.gen = 0
  BY <1>2, <1>3 DEF Idle
<1>5. WatchBase
  <2>1. disk \in [Files -> Contents] /\ saved \in [Files -> Contents]
    BY <1>2, <1>3
  <2>2. running = [c \in Consumers |-> running[c]] /\ \A c \in Consumers : running[c] \in [ReadsOf(c) -> Contents]
    BY <1>2, <1>3
  <2>3. saves \in 0 .. MaxSaves
    BY <1>2, WatchAssumption
  <2>4. generation \in [Watchers -> Nat] /\ \A w \in Watchers : generation[w] + (IF saving = NoFile THEN 0 ELSE 1) <= 2 * saves
    BY <1>2
  <2>5. lost \in [Consumers -> {"no", "missed", "shadowed", "quarantined"}]
    BY <1>2
  <2>6. QED
    BY <1>2, <1>4, <2>1, <2>2, <2>3, <2>4, <2>5 DEF WatchBase
<1>6. DiskInv
  BY <1>2, <1>3 DEF DiskInv
<1>7. DenylistInv
  <2>1. DenyWatcher \in Watchers
    BY SingleFiles, Reads DEF DenyWatcher
  <2>2. generation[DenyWatcher] = 0
    BY <1>2, <2>1
  <2>3. task.gen <= generation[DenyWatcher] /\ task.at # "read"
    BY <1>4, <2>2
  <2>4. QED
    BY <2>3 DEF DenylistInv
<1>8. Following
  <2>1. ASSUME NEW c \in Consumers PROVE running[c] = SavedOf(c)
    BY <1>2, Reads DEF SavedOf
  <2>2. QED
    BY <1>2, <1>4, <2>1 DEF Following, Supplied, Threads
<1>9. PairMatches
  <2>1. ASSUME NEW c \in Pairs PROVE First[c] \in ReadsOf(c) /\ Second[c] \in ReadsOf(c) /\ c \in Consumers
    BY WatchAssumption, Reads
  <2>2. QED
    BY <1>2, <1>3, <2>1 DEF PairMatches
<1>10. QED
  BY <1>5, <1>6, <1>7, <1>8, <1>9 DEF WatchInv

\* What an event on f does: who hears of it, the new threads, and whose last
\* save is lost by it.
Hears(f) == {w \in watching : f \in Triggers[w]}
\* An event wakes a thread of each watcher that hears of it, and no other.
LEMMA EventDoes ==
  ASSUME WatchBase, NEW f \in Files, Event(f)
  PROVE  /\ generation' \in [Watchers -> Nat]
         /\ \A w \in Watchers : generation'[w] = IF w \in Hears(f) THEN generation[w] + 1 ELSE generation[w]
         /\ workers \subseteq workers'
         /\ \A k \in workers' : k \in workers \/
              /\ k = [w |-> k.w, gen |-> generation[k.w] + 1, file |-> f, at |-> "sleep", got |-> << >>]
              /\ k.w \in Hears(f)
         /\ \A w \in Hears(f) : [w |-> w, gen |-> generation[w] + 1, file |-> f, at |-> "sleep", got |-> << >>] \in workers'
         /\ lost' \in [Consumers -> {"no", "missed", "shadowed", "quarantined"}]
         /\ \A c \in Consumers : f \in ReadsOf(c) /\ lost'[c] = "no" => WatcherOf[c] \in Hears(f)
         /\ \A c \in Consumers : f \notin ReadsOf(c) /\ lost'[c] = "no" =>
              lost[c] = "no" /\ \A w \in Hears(f) : c \notin Shadowed(w, f)
<1> DEFINE ws == Hears(f)
           New == {[w |-> w, gen |-> generation[w] + 1, file |-> f, at |-> "sleep", got |-> << >>] : w \in ws}
<1>1. /\ generation' = [w \in Watchers |-> generation[w] + IF w \in ws THEN 1 ELSE 0]
      /\ workers' = workers \cup New
      /\ lost' = Noted(ws, f)
  BY DEF Event, Hears
<1>2. /\ generation' \in [Watchers -> Nat]
      /\ \A w \in Watchers : generation'[w] = IF w \in ws THEN generation[w] + 1 ELSE generation[w]
  BY <1>1 DEF WatchBase
<1>3. \A k \in New : k.w \in ws /\ k = [w |-> k.w, gen |-> generation[k.w] + 1, file |-> f, at |-> "sleep", got |-> << >>]
  OBVIOUS
<1>4. lost' \in [Consumers -> {"no", "missed", "shadowed", "quarantined"}]
  BY <1>1 DEF Noted, WatchBase
<1>5. ASSUME NEW c \in Consumers, f \in ReadsOf(c), lost'[c] = "no" PROVE WatcherOf[c] \in ws
  BY <1>1, <1>5 DEF Noted
<1>6. ASSUME NEW c \in Consumers, f \notin ReadsOf(c), lost'[c] = "no"
      PROVE  lost[c] = "no" /\ \A w \in ws : c \notin Shadowed(w, f)
  BY <1>1, <1>6 DEF Noted
<1> HIDE DEF ws, New
<1>7. QED
  BY <1>1, <1>2, <1>3, <1>4, <1>5, <1>6 DEF ws, New

\* A thread that is new is one.
LEMMA NewThread ==
  ASSUME NEW k, NEW f, NEW w, k = [w |-> w, gen |-> generation[w] + 1, file |-> f, at |-> "sleep", got |-> << >>],
         w \in watching, f \in Triggers[w], generation[w] \in Nat, generation'[w] = generation[w] + 1, watching' = watching
  PROVE  Thread(k)'
<1>1. k.w = w /\ k.gen = generation[w] + 1 /\ k.file = f /\ k.at = "sleep" /\ k.got = << >>
  OBVIOUS
<1>2. Got(k) = {}
  BY <1>1 DEF Got
<1>3. << >> \in [{} -> Contents]
  OBVIOUS
<1>4. k.gen \in 1 .. generation'[k.w]
  BY <1>1
<1>5. QED
  BY <1>1, <1>2, <1>3, <1>4 DEF Thread, Got, LoadOf, Affected, ReadsOf

\* A thread is one as long as its watcher counts on.
LEMMA ThreadStays ==
  ASSUME NEW k, Thread(k), watching \subseteq watching', generation[k.w] \in Nat, generation'[k.w] \in Nat,
         generation[k.w] <= generation'[k.w]
  PROVE  Thread(k)'
<1>1. k.gen \in 1 .. generation'[k.w]
  BY DEF Thread
<1>2. QED
  BY <1>1 DEF Thread, Got, LoadOf, Affected, ReadsOf

\* An event keeps the types of the watchers and of their threads.
LEMMA EventTypes ==
  ASSUME WatchBase, NEW f \in Files, Event(f), watching' = watching
  PROVE  \A k \in workers' : Thread(k)'
<1>1. ASSUME NEW k \in workers PROVE Thread(k)'
  <2>1. k.w \in watching /\ Thread(k)
    BY DEF WatchBase, Thread
  <2>2. k.w \in Watchers /\ generation[k.w] \in Nat
    BY <2>1 DEF WatchBase
  <2>3. generation'[k.w] \in Nat /\ generation[k.w] <= generation'[k.w]
    BY <2>2, EventDoes
  <2>4. QED
    BY <2>1, <2>2, <2>3, ThreadStays
<1>2. ASSUME NEW k, NEW w \in Hears(f),
             k = [w |-> w, gen |-> generation[w] + 1, file |-> f, at |-> "sleep", got |-> << >>]
      PROVE  Thread(k)'
  <2>1. w \in watching /\ f \in Triggers[w] /\ w \in Watchers /\ generation[w] \in Nat
    BY DEF Hears, WatchBase
  <2>2. generation'[w] = generation[w] + 1
    BY <2>1, EventDoes
  <2>3. QED
    BY <1>2, <2>1, <2>2, NewThread
<1>3. QED
  BY <1>1, <1>2, EventDoes

\* A thread of a consumer loads that consumer, and has read files of its only.
LEMMA ThreadsOf ==
  ASSUME WatchBase, NEW c \in Consumers, NEW k \in Threads(c)
  PROVE  LoadOf(k) = c /\ k \in workers /\ Thread(k) /\ k.w = WatcherOf[c] /\ DOMAIN k.got = Got(k) /\ Got(k) \subseteq ReadsOf(c)
<1>1. k \in workers /\ Thread(k) /\ k.w = WatcherOf[c] /\ k.file \in ReadsOf(c)
  BY DEF Threads, WatchBase
<1>2. k.w \in Watchers /\ k.file \in Triggers[k.w]
  BY <1>1 DEF Thread, WatchBase
<1>3. LoadOf(k) = c
  BY <1>1, <1>2, LoadIs
<1>4. DOMAIN k.got = Got(k) /\ Got(k) \subseteq ReadsOf(c)
  BY <1>1, <1>3, Reads DEF Thread, Got
<1>5. QED
  BY <1>1, <1>3, <1>4

\* A consumer follows its files through an event on one of them: either a new
\* thread will load it, or its save is lost.
LEMMA EventOwn ==
  ASSUME WatchBase, NEW f \in Files, Event(f), NEW c \in Consumers, f \in ReadsOf(c), lost'[c] = "no"
  PROVE  Waiting(c)'
<1>1. PICK w \in Watchers : w = WatcherOf[c]
  BY Reads
<1>2. w \in Hears(f)
  BY <1>1, EventDoes
<1>3. PICK k \in workers' : k = [w |-> w, gen |-> generation[w] + 1, file |-> f, at |-> "sleep", got |-> << >>]
  BY <1>2, EventDoes
<1>4. generation'[w] = generation[w] + 1
  BY <1>2, EventDoes
<1>5. k.w = WatcherOf[c] /\ k.file \in ReadsOf(c) /\ k.at = "sleep" /\ generation'[k.w] = k.gen
  BY <1>1, <1>3, <1>4
<1>6. QED
  BY <1>5 DEF Waiting, Threads, Newest, ReadsOf

\* And through an event on a file of another.
LEMMA EventOther ==
  ASSUME WatchBase, NEW f \in Files, Event(f), saving \in {NoFile, f},
         \A g \in Files : g # f => saved'[g] = saved[g], running' = running, task' = task,
         NEW c \in Consumers, f \notin ReadsOf(c), lost'[c] = "no", Waiting(c) \/ Supplied(c)
  PROVE  Waiting(c)' \/ Supplied(c)'
<1>1. lost[c] = "no" /\ \A w \in Hears(f) : c \notin Shadowed(w, f)
  BY EventDoes
<1>2. Threads(c) \subseteq Threads(c)'
  BY EventDoes DEF Threads, ReadsOf
<1>3. \A k \in Threads(c)' : k.at # "sleep" => k \in Threads(c)
  BY EventDoes DEF Threads, ReadsOf
<1>4. CASE Waiting(c)
  <2>1. saving \notin ReadsOf(c)
    BY Reads
  <2>2. PICK k \in Threads(c) : k.at = "sleep" /\ Newest(k)
    BY <1>4, <2>1 DEF Waiting
  <2>3. k \in workers /\ k.w = WatcherOf[c] /\ k.w \in Watchers /\ k.file \in ReadsOf(c) /\ generation[k.w] = k.gen
    BY <2>2, Reads DEF Threads, Newest
  <2>4. k.w \notin Hears(f)
    <3> SUFFICES ASSUME k.w \in Hears(f) PROVE FALSE
      OBVIOUS
    <3>1. c \in Affected(k.w, k.file) /\ c \notin Affected(k.w, f)
      BY <2>3 DEF Affected
    <3>2. k \in {j \in workers : j.w = k.w /\ j.at = "sleep" /\ j.gen = generation[k.w]}
      BY <2>2, <2>3
    <3>3. Affected(k.w, k.file)
            \in {Affected(k.w, i.file) : i \in {j \in workers : j.w = k.w /\ j.at = "sleep" /\ j.gen = generation[k.w]}}
      BY <3>2
    <3>4. c \in UNION {Affected(k.w, i.file) : i \in {j \in workers : j.w = k.w /\ j.at = "sleep" /\ j.gen = generation[k.w]}}
      BY <3>1, <3>3
    <3>5. c \in Shadowed(k.w, f)
      BY <3>1, <3>4 DEF Shadowed
    <3>6. QED
      BY <1>1, <3>5
  <2>5. generation'[k.w] = k.gen
    BY <2>3, <2>4, EventDoes
  <2>6. QED
    BY <1>2, <2>2, <2>5 DEF Waiting, Newest
<1>5. CASE Supplied(c)
  <2>1. \A g \in ReadsOf(c) : saved'[g] = saved[g]
    BY Reads
  <2>2. ASSUME NEW k \in Threads(c)', k.at # "sleep" PROVE Agrees(k)'
    <3>1. k \in Threads(c)
      BY <1>3, <2>2
    <3>2. DOMAIN k.got \subseteq ReadsOf(c)
      BY <3>1, ThreadsOf
    <3>3. Agrees(k)
      BY <1>5, <2>2, <3>1 DEF Supplied
    <3>4. QED
      BY <2>1, <3>2, <3>3 DEF Agrees
  <2>3. c = "denylist" /\ task'.at = "read" => task'.got = saved'[DenyFile]
    BY <1>5, <2>1, SingleFiles DEF Supplied, DenyFile
  <2>4. SavedOf(c)' = SavedOf(c)
    BY <2>1 DEF SavedOf, ReadsOf
  <2>5. running'[c] = SavedOf(c)' \/ \E k \in Threads(c)' : k.at # "sleep"
    BY <1>2, <1>5, <2>4 DEF Supplied
  <2>6. QED
    BY <2>2, <2>3, <2>5 DEF Supplied, DenyFile
<1>6. QED
  BY <1>4, <1>5

\* So every consumer follows through every event.
LEMMA EventFollowing ==
  ASSUME WatchBase, Following, NEW f \in Files, Event(f), saving \in {NoFile, f},
         \A g \in Files : g # f => saved'[g] = saved[g], running' = running, task' = task
  PROVE  Following'
<1> SUFFICES ASSUME NEW c \in Consumers, lost'[c] = "no", Loads(c, SavedOf(c))'
             PROVE  Waiting(c)' \/ Supplied(c)'
  BY DEF Following
<1>1. CASE f \in ReadsOf(c)
  BY <1>1, EventOwn
<1>2. CASE f \notin ReadsOf(c)
  <2>1. \A g \in ReadsOf(c) : saved'[g] = saved[g]
    BY <1>2, Reads
  <2>2. SavedOf(c)' = SavedOf(c)
    BY <2>1 DEF SavedOf, ReadsOf
  <2>3. Loads(c, SavedOf(c))
    BY <2>2 DEF Loads, build_certified_key, ReadsOf, Parses
  <2>4. lost[c] = "no"
    BY <1>2, EventDoes
  <2>5. Waiting(c) \/ Supplied(c)
    BY <2>3, <2>4 DEF Following
  <2>6. QED
    BY <1>2, <2>5, EventOther
<1>3. QED
  BY <1>1, <1>2

\* A step that touches nothing a consumer depends on.
LEMMA Untouched ==
  ASSUME NEW c \in Consumers, Threads(c)' = Threads(c), saved' = saved, generation' = generation,
         running'[c] = running[c], c = "denylist" => task' = task,
         saving \in ReadsOf(c) => saving' = saving, Waiting(c) \/ Supplied(c)
  PROVE  Waiting(c)' \/ Supplied(c)'
<1>1. CASE Waiting(c)
  BY <1>1 DEF Waiting, Newest, ReadsOf
<1>2. CASE Supplied(c)
  BY <1>2 DEF Supplied, Agrees, SavedOf, ReadsOf, DenyFile
<1>3. QED
  BY <1>1, <1>2

\* A thread that retires, or goes on with its load.
MovesOn(k) ==
    /\ workers \ {k} \subseteq workers'
    /\ \A j \in workers' : j \in workers \/ (j.w = k.w /\ j.file = k.file)

\* It concerns its own consumer only.
LEMMA ThreadOther ==
  ASSUME WatchBase, NEW k \in workers, MovesOn(k), NEW c \in Consumers, c # LoadOf(k)
  PROVE  Threads(c)' = Threads(c)
<1>1. k \notin Threads(c)
  BY ThreadsOf
<1>2. k.w \in Watchers /\ k.file \in Triggers[k.w]
  BY DEF WatchBase, Thread
<1>3. k.file \notin ReadsOf(c)
  BY <1>2, LoadIs
<1>4. Threads(c)' \subseteq Threads(c)
  BY <1>3 DEF Threads, MovesOn, ReadsOf
<1>5. Threads(c) \subseteq Threads(c)'
  BY <1>1 DEF Threads, MovesOn, ReadsOf
<1>6. QED
  BY <1>4, <1>5

\* What a step of a thread leaves.
LEMMA StepGoes ==
  ASSUME NEW k \in workers, NEW to, NEW got, Step(k, to, got)
  PROVE  /\ MovesOn(k)
         /\ \E j \in workers' : j = [w |-> k.w, gen |-> k.gen, file |-> k.file, at |-> to, got |-> got]
         /\ \A j \in workers' : j \in workers \ {k}
              \/ j = [w |-> k.w, gen |-> k.gen, file |-> k.file, at |-> to, got |-> got]
<1>1. PICK n : n = [w |-> k.w, gen |-> k.gen, file |-> k.file, at |-> to, got |-> got]
  OBVIOUS
<1>2. n.w = k.w /\ n.file = k.file
  BY <1>1
<1>3. workers' = (workers \ {k}) \cup {n}
  BY <1>1 DEF Step
<1>4. QED
  BY <1>1, <1>2, <1>3 DEF MovesOn

\* A thread that retires is one of those.
LEMMA RetireGoes ==
  ASSUME NEW k \in workers, Retire(k)
  PROVE  MovesOn(k)
BY DEF Retire, MovesOn

\* A thread's own consumer waits on if another thread was what it waited for.
LEMMA WaitsOn ==
  ASSUME NEW k \in workers, MovesOn(k), NEW c \in Consumers, Waiting(c), ~(k.at = "sleep" /\ Newest(k)),
         saving' = saving, generation' = generation
  PROVE  Waiting(c)'
<1>1. \A j \in Threads(c) : j # k => j \in Threads(c)'
  BY DEF Threads, MovesOn, ReadsOf
<1>2. QED
  BY <1>1 DEF Waiting, Newest, ReadsOf

\* It is served once a thread is loading and agrees with what was saved.
LEMMA LoadServes ==
  ASSUME WatchBase, NEW k \in workers, NEW c \in Consumers, c = LoadOf(k), NEW to, to # "sleep", NEW got, Step(k, to, got),
         saved' = saved, \A f \in DOMAIN got : got[f] = saved[f],
         \A j \in Threads(c) : j # k /\ j.at # "sleep" => Agrees(j),
         c = "denylist" /\ task'.at = "read" => task'.got = saved[DenyFile]
  PROVE  Supplied(c)'
<1>1. k.w = WatcherOf[c] /\ k.file \in ReadsOf(c)
  BY LoadIs DEF WatchBase, Thread
<1>2. PICK n \in workers' : n = [w |-> k.w, gen |-> k.gen, file |-> k.file, at |-> to, got |-> got]
  BY StepGoes
<1>3. n.w = k.w /\ n.file = k.file /\ n.at = to /\ n.got = got
  BY <1>2
<1>4. n \in Threads(c)' /\ n.at # "sleep"
  BY <1>1, <1>3 DEF Threads, ReadsOf
<1>5. Agrees(n)'
  BY <1>3 DEF Agrees
<1>6. \A j \in workers' : j \in workers \ {k} \/ j = n
  BY <1>2, StepGoes
<1>7. \A j \in Threads(c)' : j.at # "sleep" => Agrees(j)'
  BY <1>5, <1>6 DEF Threads, Agrees, ReadsOf
<1>8. QED
  BY <1>4, <1>7 DEF Supplied, DenyFile

\* What was saved last in a consumer's files is on disk, if it loads and is not
\* being written.
LEMMA OnDisk ==
  ASSUME WatchBase, DiskInv, NEW c \in Consumers, lost[c] = "no", Loads(c, SavedOf(c)), saving \notin ReadsOf(c)
  PROVE  \A f \in ReadsOf(c) : disk[f] = saved[f] /\ Parses(f, saved[f])
<1> SUFFICES ASSUME NEW f \in ReadsOf(c) PROVE disk[f] = saved[f] /\ Parses(f, saved[f])
  OBVIOUS
<1>1. SavedOf(c)[f] = saved[f]
  BY DEF SavedOf
<1>2. Parses(f, saved[f])
  BY <1>1 DEF Loads, build_certified_key
<1>3. f \in Files /\ saving # f
  BY Reads
<1>4. f = First["config"] => lost["config"] = "no"
  BY SingleFiles
<1>5. QED
  BY <1>2, <1>3, <1>4 DEF DiskInv

\* A step of a thread leaves every consumer following if it leaves its own.
LEMMA ThreadFollowing ==
  ASSUME WatchBase, Following, NEW k \in workers, MovesOn(k), NEW d \in Consumers, d = LoadOf(k),
         saved' = saved, saving' = saving, generation' = generation, task' = task, lost' = lost,
         \A c \in Consumers : c # d => running'[c] = running[c],
         lost[d] = "no" /\ Loads(d, SavedOf(d)) /\ (Waiting(d) \/ Supplied(d)) => Waiting(d)' \/ Supplied(d)'
  PROVE  Following'
<1> SUFFICES ASSUME NEW c \in Consumers, lost'[c] = "no", Loads(c, SavedOf(c))'
             PROVE  Waiting(c)' \/ Supplied(c)'
  BY DEF Following
<1>1. Loads(c, SavedOf(c))
  BY DEF Loads, build_certified_key, ReadsOf, Parses, SavedOf
<1>2. Waiting(c) \/ Supplied(c)
  BY <1>1 DEF Following
<1>3. CASE c = d
  BY <1>1, <1>2, <1>3
<1>4. CASE c # d
  <2>1. Threads(c)' = Threads(c)
    BY <1>4, ThreadOther
  <2>2. QED
    BY <1>2, <1>4, <2>1, Untouched
<1>5. QED
  BY <1>3, <1>4

\* A superseded thread is not what its consumer waits for.
LEMMA WakeStaleOwn ==
  ASSUME WatchBase, NEW k \in workers, WakeStale(k), NEW d \in Consumers, d = LoadOf(k), Waiting(d) \/ Supplied(d)
  PROVE  Waiting(d)' \/ Supplied(d)'
<1>1. MovesOn(k) /\ k.at = "sleep" /\ ~Newest(k) /\ saving' = saving /\ generation' = generation
  BY RetireGoes DEF WakeStale
<1>2. CASE Waiting(d)
  BY <1>1, <1>2, WaitsOn
<1>3. CASE Supplied(d)
  <2>1. \A j : j \in workers' <=> j \in workers /\ j # k
    BY DEF WakeStale, Retire
  <2>2. \A j : j \in Threads(d)' /\ j.at # "sleep" <=> j \in Threads(d) /\ j.at # "sleep"
    BY <1>1, <2>1 DEF Threads, ReadsOf
  <2>3. saved' = saved /\ task' = task /\ running' = running
    BY DEF WakeStale
  <2>4. \A j \in Threads(d)' : j.at # "sleep" => Agrees(j)'
    BY <1>3, <2>2, <2>3 DEF Supplied, Agrees
  <2>5. running'[d] = SavedOf(d)' \/ \E j \in Threads(d)' : j.at # "sleep"
    BY <1>3, <2>2, <2>3 DEF Supplied, SavedOf, ReadsOf
  <2>6. d = "denylist" /\ task'.at = "read" => task'.got = saved'[DenyFile]
    BY <1>3, <2>3 DEF Supplied
  <2>7. QED
    BY <2>4, <2>5, <2>6 DEF Supplied, DenyFile
<1>4. QED
  BY <1>2, <1>3

\* The newest thread, once awake, serves it: no other load is under way, and
\* what the reload task has read of the denylist was read after the event.
LEMMA WakeOwn ==
  ASSUME WatchBase, DenylistInv, NEW k \in workers, Wake(k), NEW d \in Consumers, d = LoadOf(k),
         lost[d] = "no", Loads(d, SavedOf(d))
  PROVE  Supplied(d)'
<1>1. k.w \in Watchers /\ k.w = WatcherOf[d] /\ generation[k.w] \in Nat /\ k.gen \in Nat
  BY LoadIs DEF WatchBase, Thread
<1>2. \A j \in Threads(d) : j.at = "sleep"
  BY <1>1 DEF Wake, Threads
<1>3. d = "denylist" /\ task.at = "read" => task.got = saved[DenyFile]
  <2> SUFFICES ASSUME d = "denylist", task.at = "read" PROVE task.got = saved[DenyFile]
    OBVIOUS
  <2>1. k.w = DenyWatcher
    BY <1>1 DEF DenyWatcher
  <2>2. ~(task.gen < k.gen) /\ generation[k.w] = k.gen /\ saving \notin Triggers[k.w]
    BY DEF Wake, Newest
  <2>3. task.gen \in Nat /\ task.gen <= generation[DenyWatcher]
    BY DEF WatchBase, DenylistInv
  <2>4. task.gen = generation[DenyWatcher]
    BY <1>1, <2>1, <2>2, <2>3
  <2>5. DenyFile \in ReadsOf(d) /\ ReadsOf(d) \subseteq Triggers[k.w]
    BY <1>1, Reads DEF DenyFile
  <2>6. UpToDate
    BY <2>2, <2>4, <2>5 DEF UpToDate
  <2>7. Parses(DenyFile, saved[DenyFile])
    BY <2>5 DEF Loads, build_certified_key, SavedOf
  <2>8. QED
    BY <2>6, <2>7 DEF DenylistInv
<1>4. Step(k, "first", << >>) /\ saved' = saved /\ task' = task
  BY DEF Wake
<1>5. \A f \in DOMAIN << >> : << >>[f] = saved[f]
  OBVIOUS
<1>6. QED
  BY <1>2, <1>3, <1>4, <1>5, LoadServes

\* The first read of a load finds what was saved, unless another event is to come.
LEMMA ReadFirstOwn ==
  ASSUME WatchBase, DiskInv, NEW k \in workers, ReadFirst(k), NEW d \in Consumers, d = LoadOf(k),
         lost[d] = "no", Loads(d, SavedOf(d)), Waiting(d) \/ Supplied(d)
  PROVE  Waiting(d)' \/ Supplied(d)'
<1>1. k.at = "first" /\ saved' = saved /\ task' = task /\ saving' = saving /\ generation' = generation
  BY DEF ReadFirst
<1>2. PICK f : f = First[d]
  OBVIOUS
<1>3. f \in ReadsOf(d)
  BY <1>2, Reads
<1>4. PICK to \in {"publish", "second"} : to = IF Second[d] = NoFile THEN "publish" ELSE "second"
  OBVIOUS
<1>5. IF ~Parses(f, disk[f]) THEN Retire(k) ELSE Step(k, to, [g \in {f} |-> disk[f]])
  BY <1>2, <1>4 DEF ReadFirst
<1>6. CASE Waiting(d)
  <2>1. MovesOn(k)
    BY <1>5, StepGoes, RetireGoes
  <2>2. QED
    BY <1>1, <1>6, <2>1, WaitsOn
<1>7. CASE Supplied(d) /\ ~Waiting(d)
  <2>1. disk[f] = saved[f] /\ Parses(f, saved[f])
    BY <1>3, <1>7, OnDisk DEF Waiting
  <2>2. Step(k, to, [g \in {f} |-> disk[f]])
    BY <1>5, <2>1
  <2>3. PICK got : got = [g \in {f} |-> disk[f]]
    OBVIOUS
  <2>4. \A g \in DOMAIN got : got[g] = saved[g]
    BY <2>1, <2>3
  <2>5. \A j \in Threads(d) : j # k /\ j.at # "sleep" => Agrees(j)
    BY <1>7 DEF Supplied
  <2>6. d = "denylist" /\ task'.at = "read" => task'.got = saved[DenyFile]
    BY <1>1, <1>7 DEF Supplied
  <2>7. Step(k, to, got) /\ to # "sleep"
    BY <2>2, <2>3
  <2>8. QED
    BY <1>1, <2>4, <2>5, <2>6, <2>7, LoadServes
<1>8. QED
  BY <1>6, <1>7

\* And so does the second.
LEMMA ReadSecondOwn ==
  ASSUME WatchBase, DiskInv, NEW k \in workers, ReadSecond(k), NEW d \in Consumers, d = LoadOf(k),
         lost[d] = "no", Loads(d, SavedOf(d)), Waiting(d) \/ Supplied(d)
  PROVE  Waiting(d)' \/ Supplied(d)'
<1>1. k.at = "second" /\ saved' = saved /\ task' = task /\ saving' = saving /\ generation' = generation
  BY DEF ReadSecond
<1>2. PICK got : got = [f \in ReadsOf(d) |-> IF f = First[d] THEN k.got[f] ELSE disk[f]]
  OBVIOUS
<1>3. Step(k, "publish", got)
  BY <1>2 DEF ReadSecond
<1>4. CASE Waiting(d)
  BY <1>1, <1>3, <1>4, StepGoes, WaitsOn
<1>5. CASE Supplied(d) /\ ~Waiting(d)
  <2>1. \A f \in ReadsOf(d) : disk[f] = saved[f]
    BY <1>5, OnDisk DEF Waiting
  <2>2. k \in Threads(d)
    BY LoadIs DEF WatchBase, Thread, Threads
  <2>3. DOMAIN k.got = {First[d]} /\ Agrees(k)
    BY <1>1, <1>5, <2>2, ThreadsOf DEF Supplied, Got
  <2>4. \A f \in DOMAIN got : got[f] = saved[f]
    BY <1>2, <2>1, <2>3 DEF Agrees
  <2>5. \A j \in Threads(d) : j # k /\ j.at # "sleep" => Agrees(j)
    BY <1>5 DEF Supplied
  <2>6. d = "denylist" /\ task'.at = "read" => task'.got = saved[DenyFile]
    BY <1>1, <1>5 DEF Supplied
  <2>7. QED
    BY <1>1, <1>3, <2>4, <2>5, <2>6, LoadServes
<1>6. QED
  BY <1>4, <1>5

\* The load that has read what was saved publishes it.
LEMMA ReloadedOwn ==
  ASSUME WatchBase, NEW k \in workers, Reloaded(k), NEW d \in Consumers, d = LoadOf(k),
         Loads(d, SavedOf(d)), Waiting(d) \/ Supplied(d)
  PROVE  Waiting(d)' \/ Supplied(d)'
<1>1. /\ k.at = "publish" /\ saved' = saved /\ task' = task /\ saving' = saving /\ generation' = generation
      /\ Retire(k) /\ running' = IF Loads(d, k.got) THEN [running EXCEPT ![d] = k.got] ELSE running
  BY DEF Reloaded
<1>2. CASE Waiting(d)
  BY <1>1, <1>2, RetireGoes, WaitsOn
<1>3. CASE Supplied(d)
  <2>1. k \in Threads(d)
    BY LoadIs DEF WatchBase, Thread, Threads
  <2>2. DOMAIN k.got = ReadsOf(d) /\ Agrees(k) /\ k.got = [f \in ReadsOf(d) |-> k.got[f]]
    <3>1. Thread(k) /\ Got(k) = ReadsOf(d)
      BY <1>1, <2>1, ThreadsOf DEF Got
    <3>2. QED
      BY <1>1, <1>3, <2>1, <3>1 DEF Supplied, Thread
  <2>3. k.got = SavedOf(d)
    BY <2>2 DEF Agrees, SavedOf
  <2>4. running'[d] = SavedOf(d)
    BY <1>1, <2>3 DEF WatchBase
  <2>5. Threads(d)' \subseteq Threads(d)
    BY <1>1 DEF Threads, Retire, ReadsOf
  <2>6. \A j \in Threads(d)' : j.at # "sleep" => Agrees(j)'
    BY <1>1, <1>3, <2>5 DEF Supplied, Agrees
  <2>7. d = "denylist" /\ task'.at = "read" => task'.got = saved'[DenyFile]
    BY <1>1, <1>3 DEF Supplied
  <2>8. SavedOf(d)' = SavedOf(d)
    BY <1>1 DEF SavedOf, ReadsOf
  <2>9. QED
    BY <2>4, <2>6, <2>7, <2>8 DEF Supplied, DenyFile
<1>4. QED
  BY <1>2, <1>3

\* The reload task's two steps: it reads what was saved, and publishes what it read.
LEMMA TaskFollowing ==
  ASSUME WatchBase, DiskInv, Following, TaskRead \/ TaskPublish
  PROVE  Following'
<1>1. /\ saved' = saved /\ saving' = saving /\ generation' = generation /\ lost' = lost /\ workers' = workers
      /\ \A c \in Consumers : c # "denylist" => running'[c] = running[c]
  BY DEF TaskRead, TaskPublish, WatchBase
<1> SUFFICES ASSUME NEW c \in Consumers, lost'[c] = "no", Loads(c, SavedOf(c))'
             PROVE  Waiting(c)' \/ Supplied(c)'
  BY DEF Following
<1>2. Loads(c, SavedOf(c)) /\ lost[c] = "no"
  BY <1>1 DEF Loads, build_certified_key, ReadsOf, Parses, SavedOf
<1>3. Waiting(c) \/ Supplied(c)
  BY <1>2 DEF Following
<1>4. Threads(c)' = Threads(c)
  BY <1>1 DEF Threads, ReadsOf
<1>5. CASE c # "denylist"
  BY <1>1, <1>3, <1>4, <1>5, Untouched
<1>6. CASE c = "denylist" /\ Waiting(c)
  BY <1>1, <1>4, <1>6 DEF Waiting, Newest, ReadsOf
<1>7. CASE c = "denylist" /\ Supplied(c) /\ ~Waiting(c)
  <2>1. ReadsOf(c) = {DenyFile}
    BY <1>7, SingleFiles DEF DenyFile
  <2>2. disk[DenyFile] = saved[DenyFile]
    BY <1>2, <1>7, <2>1, OnDisk DEF Waiting
  <2>3. CASE TaskRead
    <3>1. task' = [at |-> "read", gen |-> generation[WatcherOf["denylist"]], got |-> disk[DenyFile]] /\ running' = running
      BY <2>3 DEF TaskRead, DenyFile
    <3>2. task'.got = saved[DenyFile]
      BY <2>2, <3>1
    <3>3. QED
      BY <1>1, <1>4, <1>7, <3>1, <3>2 DEF Supplied, Agrees, SavedOf, ReadsOf, DenyFile
  <2>4. CASE TaskPublish
    <3>1. PICK got : got = [f \in ReadsOf("denylist") |-> task.got]
      OBVIOUS
    <3>2. /\ running' = IF Loads("denylist", got) THEN [running EXCEPT !["denylist"] = got] ELSE running
          /\ task' = Idle(task.got) /\ task.at = "read"
      BY <2>4, <3>1 DEF TaskPublish
    <3>3. got = SavedOf(c)
      BY <1>7, <2>1, <3>1, <3>2 DEF Supplied, SavedOf
    <3>4. running'[c] = SavedOf(c)
      BY <1>2, <1>7, <3>2, <3>3, SingleFiles DEF WatchBase
    <3>5. task'.at = "idle"
      BY <3>2 DEF Idle
    <3>6. QED
      BY <1>1, <1>4, <1>7, <3>4, <3>5 DEF Supplied, Agrees, SavedOf, ReadsOf
  <2>5. QED
    BY <2>3, <2>4
<1>8. QED
  BY <1>3, <1>5, <1>6, <1>7

\* The steps that are no event.
LEMMA FollowingStep ==
  ASSUME WatchInv, [WatchNext]_watchVars
  PROVE  Following'
<1> USE DEF WatchInv
<1>1. CASE Operator
  <2>1. ASSUME NEW f \in Files, NEW x \in Contents, SaveByRename(f, x) \/ SaveTruncate(f, x) PROVE Following'
    <3>1. /\ Event(f) /\ saving \in {NoFile, f} /\ running' = running /\ task' = task
          /\ saved' = [saved EXCEPT ![f] = x]
      BY <2>1 DEF SaveByRename, SaveTruncate
    <3>2. \A g \in Files : g # f => saved'[g] = saved[g]
      BY <3>1 DEF WatchBase
    <3>3. QED
      BY <3>1, <3>2, EventFollowing
  <2>2. CASE SaveWrite
    <3>1. Event(saving) /\ running' = running /\ task' = task /\ saved' = saved /\ saving \in Files
      BY <2>2 DEF SaveWrite, WatchBase
    <3>2. PICK f \in Files : f = saving
      BY <3>1
    <3>3. Event(f)
      BY <3>1, <3>2
    <3>4. QED
      BY <3>1, <3>2, <3>3, EventFollowing
  <2>3. CASE SaveWriteMoved
    <3> SUFFICES ASSUME NEW c \in Consumers, lost'[c] = "no", Loads(c, SavedOf(c))'
                 PROVE  Waiting(c)' \/ Supplied(c)'
      BY DEF Following
    <3>1. saved' = saved /\ generation' = generation /\ workers' = workers /\ running' = running /\ task' = task
      BY <2>3 DEF SaveWriteMoved
    <3>2. saving \notin ReadsOf(c) /\ lost[c] = "no"
      BY <2>3 DEF SaveWriteMoved
    <3>3. Waiting(c) \/ Supplied(c)
      BY <3>1, <3>2 DEF Following, Loads, build_certified_key, ReadsOf, Parses, SavedOf
    <3>4. Threads(c)' = Threads(c)
      BY <3>1 DEF Threads, ReadsOf
    <3>5. QED
      BY <3>1, <3>2, <3>3, <3>4, Untouched
  <2>4. QED
    BY <1>1, <2>1, <2>2, <2>3 DEF Operator
<1>2. CASE (\E w \in Watchers : Register(w)) \/ UNCHANGED watchVars
  <2>1. saved' = saved /\ generation' = generation /\ workers' = workers /\ running' = running /\ task' = task
        /\ saving' = saving /\ lost' = lost
    BY <1>2 DEF Register, watchVars
  <2> SUFFICES ASSUME NEW c \in Consumers, lost'[c] = "no", Loads(c, SavedOf(c))'
               PROVE  Waiting(c)' \/ Supplied(c)'
    BY DEF Following
  <2>2. Waiting(c) \/ Supplied(c)
    BY <2>1 DEF Following, Loads, build_certified_key, ReadsOf, Parses, SavedOf
  <2>3. Threads(c)' = Threads(c)
    BY <2>1 DEF Threads, ReadsOf
  <2>4. QED
    BY <2>1, <2>2, <2>3, Untouched
<1>3. ASSUME NEW k \in workers, WakeStale(k) \/ Wake(k) \/ ReadFirst(k) \/ ReadSecond(k) \/ Reloaded(k)
      PROVE  Following'
  <2>1. PICK d \in Consumers : d = LoadOf(k)
    BY LoadIs DEF WatchBase, Thread
  <2>2. saved' = saved /\ saving' = saving /\ generation' = generation /\ task' = task /\ lost' = lost
    BY <1>3 DEF WakeStale, Wake, ReadFirst, ReadSecond, Reloaded
  <2>3. \A c \in Consumers : c # d => running'[c] = running[c]
    <3>1. CASE Reloaded(k)
      <4>1. running' = IF Loads(d, k.got) THEN [running EXCEPT ![d] = k.got] ELSE running
        BY <2>1, <3>1 DEF Reloaded
      <4>2. QED
        BY <4>1 DEF WatchBase
    <3>2. CASE ~Reloaded(k)
      BY <1>3, <3>2 DEF WakeStale, Wake, ReadFirst, ReadSecond
    <3>3. QED
      BY <3>1, <3>2
  <2>4. MovesOn(k)
    <3>1. CASE ReadFirst(k)
      BY <3>1, StepGoes, RetireGoes DEF ReadFirst
    <3>2. CASE WakeStale(k) \/ Reloaded(k)
      BY <3>2, RetireGoes DEF WakeStale, Reloaded
    <3>3. CASE Wake(k) \/ ReadSecond(k)
      BY <3>3, StepGoes DEF Wake, ReadSecond
    <3>4. QED
      BY <1>3, <3>1, <3>2, <3>3
  <2>5. lost[d] = "no" /\ Loads(d, SavedOf(d)) /\ (Waiting(d) \/ Supplied(d)) => Waiting(d)' \/ Supplied(d)'
    BY <1>3, <2>1, WakeStaleOwn, WakeOwn, ReadFirstOwn, ReadSecondOwn, ReloadedOwn
  <2>6. QED
    BY <2>1, <2>2, <2>3, <2>4, <2>5, ThreadFollowing
<1>4. CASE TaskRead \/ TaskPublish
  BY <1>4, TaskFollowing
<1>5. QED
  BY <1>1, <1>2, <1>3, <1>4 DEF WatchNext

\* A file holds what was saved in it through every step.
LEMMA DiskStep ==
  ASSUME WatchInv, [WatchNext]_watchVars
  PROVE  DiskInv'
<1> USE DEF WatchInv
<1> DEFINE Kept(f) == saving # f /\ (f = First["config"] => lost["config"] = "no")
<1>1. First["config"] \in Files /\ "config" \in Consumers /\ First["config"] \in ReadsOf("config")
  BY SingleFiles, Reads
<1>2. ASSUME NEW f \in Files, Event(f), NEW g \in Files, g # f, g = First["config"], lost'["config"] = "no"
      PROVE  lost["config"] = "no"
  <2>1. f \notin ReadsOf("config")
    BY <1>2, SingleFiles
  <2>2. QED
    BY <1>1, <1>2, <2>1, EventDoes
<1>3. ASSUME NEW f \in Files, NEW x \in Contents, SaveByRename(f, x) \/ SaveTruncate(f, x),
             x.as \in {"good", "garbled"} \/ (x.as = "invalid" /\ f = First["config"])
      PROVE  DiskInv'
  <2>1. /\ Event(f) /\ saved' = [saved EXCEPT ![f] = x] /\ saving = NoFile
        /\ \/ disk' = [disk EXCEPT ![f] = x] /\ saving' = saving
           \/ disk' = [disk EXCEPT ![f] = [x EXCEPT !.as = "empty"]] /\ saving' = f
    BY <1>3 DEF SaveByRename, SaveTruncate
  <2>2. \A g \in Files : g # f => saved'[g] = saved[g] /\ disk'[g] = disk[g]
    BY <2>1 DEF WatchBase
  <2>3. saved'[f] = x /\ x.as # "missing" /\ disk'[f].as # "missing" /\ (saving' = f \/ disk'[f] = x)
    BY <1>3, <2>1 DEF WatchBase, Contents
  <2>4. \A g \in Files : g # f => saving # g
    BY <2>1, WatchAssumption
  <2>5. QED
    BY <1>2, <2>1, <2>2, <2>3, <2>4 DEF DiskInv, Parses
<1>4. CASE SaveWrite
  <2>1. PICK f \in Files : f = saving
    BY <1>4 DEF SaveWrite, WatchBase
  <2>2. Event(f) /\ saved' = saved /\ disk' = [disk EXCEPT ![f] = saved[f]]
    BY <1>4, <2>1 DEF SaveWrite
  <2>3. disk'[f] = saved[f] /\ \A g \in Files : g # f => disk'[g] = disk[g]
    BY <2>2 DEF WatchBase
  <2>4. QED
    BY <1>2, <2>1, <2>2, <2>3 DEF DiskInv, Parses
<1>5. CASE SaveWriteMoved
  <2>1. saving = First["config"] /\ saved' = saved /\ disk' = disk
    BY <1>5 DEF SaveWriteMoved, DiskInv, WatchBase
  <2>2. lost'["config"] = "quarantined"
    BY <1>1, <1>5, <2>1 DEF SaveWriteMoved
  <2>3. QED
    BY <2>1, <2>2 DEF DiskInv, Parses
<1>6. ASSUME NEW k \in workers, ReadFirst(k) PROVE DiskInv'
  <2>1. PICK d \in Consumers : d = LoadOf(k)
    BY LoadIs DEF WatchBase, Thread
  <2>2. disk' = Quarantine(d, First[d], disk) /\ saved' = saved /\ saving' = saving /\ lost' = lost
    BY <1>6, <2>1 DEF ReadFirst
  <2>3. CASE disk' = disk
    BY <2>2, <2>3 DEF DiskInv, Parses
  <2>4. CASE disk' # disk
    <3>1. PICK f \in Files : f = First["config"]
      BY <1>1
    <3>2. d = "config" /\ ~Parses(f, disk[f]) /\ disk' = [disk EXCEPT ![f].as = "missing"]
      BY <2>2, <2>4, <3>1 DEF Quarantine
    <3>3. \A g \in Files : g # f => disk'[g] = disk[g]
      BY <3>2 DEF WatchBase
    <3>4. ~Parses(f, saved[f]) \/ ~Kept(f)
      BY <3>2 DEF DiskInv
    <3>5. QED
      BY <2>2, <3>1, <3>3, <3>4 DEF DiskInv, Parses
  <2>5. QED
    BY <2>3, <2>4
<1>7. CASE UNCHANGED <<disk, saved, saving, lost>>
  BY <1>7 DEF DiskInv, Parses
<1>8. QED
  <2>1. CASE Operator
    BY <1>3, <1>4, <1>5, <2>1 DEF Operator
  <2>2. CASE (\E w \in Watchers : Register(w)) \/ TaskRead \/ TaskPublish \/ UNCHANGED watchVars
    BY <1>7, <2>2 DEF Register, TaskRead, TaskPublish, watchVars
  <2>3. ASSUME NEW k \in workers, WakeStale(k) \/ Wake(k) \/ ReadFirst(k) \/ ReadSecond(k) \/ Reloaded(k)
        PROVE  DiskInv'
    BY <1>6, <1>7, <2>3 DEF WakeStale, Wake, ReadSecond, Reloaded
  <2>4. QED
    BY <2>1, <2>2, <2>3 DEF WatchNext

\* What the reload task has read of the denylist is current until an event on
\* its watcher, or is known not to be.
LEMMA DenylistStep ==
  ASSUME WatchInv, [WatchNext]_watchVars
  PROVE  DenylistInv'
<1> USE DEF WatchInv
<1>1. /\ DenyFile \in Files /\ "denylist" \in Consumers /\ DenyFile \in ReadsOf("denylist")
      /\ DenyWatcher \in Watchers /\ DenyWatcher = WatcherOf["denylist"] /\ ReadsOf("denylist") = {DenyFile}
      /\ DenyFile # First["config"]
  BY SingleFiles, Reads DEF DenyFile, DenyWatcher
<1>2. task.gen \in Nat /\ generation[DenyWatcher] \in Nat /\ task.gen <= generation[DenyWatcher]
  BY <1>1 DEF WatchBase, DenylistInv
<1>3. ASSUME NEW f \in Files, Event(f), saving \in {NoFile, f}, task' = task, \A g \in Files : g # f => saved'[g] = saved[g]
      PROVE  DenylistInv'
  <2>1. CASE DenyWatcher \in Hears(f)
    <3>1. generation'[DenyWatcher] = generation[DenyWatcher] + 1
      BY <1>1, <1>3, <2>1, EventDoes
    <3>2. task.gen <= generation'[DenyWatcher] /\ task.gen # generation'[DenyWatcher]
      BY <1>2, <3>1
    <3>3. QED
      BY <1>3, <3>2 DEF DenylistInv, UpToDate, DenyWatcher
  <2>2. CASE DenyWatcher \notin Hears(f)
    <3>1. generation'[DenyWatcher] = generation[DenyWatcher]
      BY <1>1, <1>3, <2>2, EventDoes
    <3>2. lost'["denylist"] = "no" => f # DenyFile /\ lost["denylist"] = "no"
      BY <1>1, <1>3, <2>2, EventDoes
    <3>3. f # DenyFile => saved'[DenyFile] = saved[DenyFile] /\ saving # DenyFile
      BY <1>1, <1>3, WatchAssumption
    <3>4. UpToDate' => UpToDate /\ saved'[DenyFile] = saved[DenyFile]
      BY <1>3, <3>1, <3>2, <3>3 DEF UpToDate, DenyWatcher, DenyFile
    <3>5. QED
      BY <1>3, <3>1, <3>4, <1>2 DEF DenylistInv, DenyWatcher, DenyFile, Parses
  <2>3. QED
    BY <2>1, <2>2
<1>4. CASE Operator
  <2>1. ASSUME NEW f \in Files, NEW x \in Contents, SaveByRename(f, x) \/ SaveTruncate(f, x) PROVE DenylistInv'
    <3>1. Event(f) /\ saving \in {NoFile, f} /\ task' = task /\ saved' = [saved EXCEPT ![f] = x]
      BY <2>1 DEF SaveByRename, SaveTruncate
    <3>2. \A g \in Files : g # f => saved'[g] = saved[g]
      BY <3>1 DEF WatchBase
    <3>3. QED
      BY <1>3, <3>1, <3>2
  <2>2. CASE SaveWrite
    <3>1. Event(saving) /\ task' = task /\ saved' = saved /\ saving \in Files
      BY <2>2 DEF SaveWrite, WatchBase
    <3>2. PICK f \in Files : f = saving
      BY <3>1
    <3>3. QED
      BY <1>3, <3>1, <3>2
  <2>3. CASE SaveWriteMoved
    <3>1. generation' = generation /\ task' = task /\ saved' = saved
      BY <2>3 DEF SaveWriteMoved
    <3>2. lost'["denylist"] = IF saving \in ReadsOf("denylist") THEN "quarantined" ELSE lost["denylist"]
      BY <1>1, <2>3 DEF SaveWriteMoved
    <3>3. lost'["denylist"] = "no" => lost["denylist"] = "no" /\ saving # DenyFile
      BY <1>1, <3>2
    <3>4. QED
      BY <1>2, <3>1, <3>3 DEF DenylistInv, UpToDate, DenyFile, DenyWatcher, Parses
  <2>4. QED
    BY <1>4, <2>1, <2>2, <2>3 DEF Operator
<1>5. CASE TaskRead
  <2>1. /\ task' = [at |-> "read", gen |-> generation[DenyWatcher], got |-> disk[DenyFile]]
        /\ generation' = generation /\ saved' = saved /\ saving' = saving /\ lost' = lost
    BY <1>5 DEF TaskRead, DenyFile, DenyWatcher
  <2>2. task'.gen = generation[DenyWatcher] /\ task'.got = disk[DenyFile]
    BY <2>1
  <2>3. saving # DenyFile /\ Parses(DenyFile, saved[DenyFile]) => disk[DenyFile] = saved[DenyFile]
    BY <1>1 DEF DiskInv
  <2>4. QED
    BY <1>2, <2>1, <2>2, <2>3 DEF DenylistInv, UpToDate, DenyFile, DenyWatcher, Parses
<1>6. CASE TaskPublish
  <2>1. task' = Idle(task.got) /\ generation' = generation
    BY <1>6 DEF TaskPublish
  <2>2. task'.at = "idle" /\ task'.gen = 0
    BY <2>1 DEF Idle
  <2>3. task'.gen <= generation'[DenyWatcher]
    BY <1>2, <2>1, <2>2
  <2>4. QED
    BY <2>2, <2>3 DEF DenylistInv, DenyWatcher
<1>7. CASE UNCHANGED <<saved, saving, generation, task, lost>>
  BY <1>7 DEF DenylistInv, UpToDate, DenyFile, DenyWatcher, Parses
<1>8. CASE (\E w \in Watchers : Register(w)) \/ UNCHANGED watchVars
  BY <1>7, <1>8 DEF Register, watchVars
<1>9. ASSUME NEW k \in workers, WakeStale(k) \/ Wake(k) \/ ReadFirst(k) \/ ReadSecond(k) \/ Reloaded(k)
      PROVE  DenylistInv'
  BY <1>7, <1>9 DEF WakeStale, Wake, ReadFirst, ReadSecond, Reloaded
<1>10. QED
  BY <1>4, <1>5, <1>6, <1>8, <1>9 DEF WatchNext

\* A pair that loads is two good files with the same version.
LEMMA PairLoads ==
  ASSUME NEW c \in Pairs, NEW got \in [ReadsOf(c) -> Contents], Loads(c, got)
  PROVE  /\ got[First[c]].ver = got[Second[c]].ver
         /\ \A f \in ReadsOf(c) : got[f].as = "good"
<1>1. c \in Consumers /\ Second[c] # NoFile /\ {First[c], Second[c]} \cap EmptyOK = {}
  BY WatchAssumption
<1>2. \A f \in ReadsOf(c) : f \notin EmptyOK
  BY <1>1 DEF ReadsOf
<1>3. \A f \in ReadsOf(c) : Parses(f, got[f]) /\ got[f].as # "invalid"
  BY DEF Loads, build_certified_key
<1>4. \A f \in ReadsOf(c) : got[f].as = "good"
  BY <1>2, <1>3 DEF Parses
<1>5. QED
  BY <1>4 DEF Loads, build_certified_key

\* So whatever is published for a pair matches.
LEMMA PairStep ==
  ASSUME WatchInv, [WatchNext]_watchVars
  PROVE  PairMatches'
<1> USE DEF WatchInv
<1>1. CASE running' = running
  BY <1>1 DEF PairMatches, ReadsOf
<1>2. ASSUME NEW k \in workers, Reloaded(k), running' # running PROVE PairMatches'
  <2>1. PICK d \in Consumers : d = LoadOf(k)
    BY LoadIs DEF WatchBase, Thread
  <2>2. k.at = "publish" /\ Loads(d, k.got) /\ running' = [running EXCEPT ![d] = k.got]
    BY <1>2, <2>1 DEF Reloaded
  <2>3. k.got \in [ReadsOf(d) -> Contents]
    BY <2>1, <2>2 DEF WatchBase, Thread, Got
  <2>4. running'[d] = k.got /\ \A c \in Consumers : c # d => running'[c] = running[c]
    BY <2>2 DEF WatchBase
  <2>5. ASSUME NEW c \in Pairs
        PROVE  /\ running'[c][First[c]].ver = running'[c][Second[c]].ver
               /\ \A f \in ReadsOf(c) : running'[c][f].as = "good"
    <3>1. CASE c = d
      BY <2>2, <2>3, <2>4, <3>1, PairLoads
    <3>2. CASE c # d
      BY <2>4, <3>2, WatchAssumption DEF PairMatches
    <3>3. QED
      BY <3>1, <3>2
  <2>6. QED
    BY <2>5 DEF PairMatches, ReadsOf
<1>3. CASE TaskPublish
  <2>1. "denylist" \notin Pairs /\ Pairs \subseteq Consumers
    BY WatchAssumption
  <2>2. PICK got : got = [f \in ReadsOf("denylist") |-> task.got]
    OBVIOUS
  <2>3. running' = IF Loads("denylist", got) THEN [running EXCEPT !["denylist"] = got] ELSE running
    BY <1>3, <2>2 DEF TaskPublish
  <2>4. \A c \in Pairs : running'[c] = running[c]
    BY <2>1, <2>3 DEF WatchBase
  <2>5. QED
    BY <2>4 DEF PairMatches, ReadsOf
<1>4. CASE Operator \/ (\E w \in Watchers : Register(w)) \/ TaskRead \/ UNCHANGED watchVars
  BY <1>1, <1>4 DEF Operator, SaveByRename, SaveTruncate, SaveWrite, SaveWriteMoved, Register, TaskRead, watchVars
<1>5. ASSUME NEW k \in workers, WakeStale(k) \/ Wake(k) \/ ReadFirst(k) \/ ReadSecond(k) \/ Reloaded(k)
      PROVE  PairMatches'
  BY <1>1, <1>2, <1>5 DEF WakeStale, Wake, ReadFirst, ReadSecond
<1>6. QED
  BY <1>3, <1>4, <1>5 DEF WatchNext

\* A thread that goes on is one: it has read what it says it has.
LEMMA StepThread ==
  ASSUME NEW k, Thread(k), NEW to \in {"first", "second", "publish"}, NEW got, NEW n,
         n = [w |-> k.w, gen |-> k.gen, file |-> k.file, at |-> to, got |-> got],
         NEW d, d = LoadOf(k), to = "second" => Second[d] # NoFile,
         got \in [(IF to = "first" THEN {} ELSE IF to = "second" THEN {First[d]} ELSE ReadsOf(d)) -> Contents]
  PROVE  Thread(n)
<1>1. n.w = k.w /\ n.gen = k.gen /\ n.file = k.file /\ n.at = to /\ n.got = got
  OBVIOUS
<1>2. LoadOf(n) = d
  BY <1>1 DEF LoadOf
<1>3. Got(n) = IF to = "first" THEN {} ELSE IF to = "second" THEN {First[d]} ELSE ReadsOf(d)
  BY <1>1, <1>2 DEF Got
<1>4. n.got \in [Got(n) -> Contents]
  BY <1>1, <1>3
<1>5. QED
  BY <1>1, <1>2, <1>4 DEF Thread

\* The threads of a state stay threads when no watcher counts an event.
LEMMA SameThreads ==
  ASSUME WatchBase, watching \subseteq watching', generation' = generation, \A k \in workers' : Thread(k)
  PROVE  \A k \in workers' : Thread(k)'
<1> SUFFICES ASSUME NEW k \in workers' PROVE Thread(k)'
  OBVIOUS
<1>1. Thread(k) /\ k.w \in Watchers
  BY DEF WatchBase, Thread
<1>2. generation[k.w] \in Nat
  BY <1>1 DEF WatchBase
<1>3. QED
  BY <1>1, <1>2, ThreadStays

\* The types of a save.
LEMMA SaveBase ==
  ASSUME WatchBase, Operator
  PROVE  WatchBase'
<1>1. ASSUME NEW f \in Files, NEW n \in {0, 1}, NEW s \in 0 .. MaxSaves, Event(f),
             \A w \in Watchers : generation[w] + 1 + n <= 2 * s,
             saves' = s, n = (IF saving' = NoFile THEN 0 ELSE 1), saving' \in Files \cup {NoFile},
             disk' \in [Files -> Contents], saved' \in [Files -> Contents],
             watching' = watching, running' = running, untaken' = untaken, task' = task
      PROVE  WatchBase'
  <2>1. /\ generation' \in [Watchers -> Nat] /\ lost' \in [Consumers -> {"no", "missed", "shadowed", "quarantined"}]
        /\ \A w \in Watchers : generation'[w] = IF w \in Hears(f) THEN generation[w] + 1 ELSE generation[w]
    BY <1>1, EventDoes
  <2>2. ASSUME NEW w \in Watchers PROVE generation'[w] + n <= 2 * s
    <3>1. generation[w] \in Nat /\ generation'[w] \in {generation[w], generation[w] + 1}
      BY <2>1 DEF WatchBase
    <3>2. generation[w] + 1 + n <= 2 * s
      BY <1>1
    <3>3. QED
      BY <1>1, <3>1, <3>2, WatchAssumption
  <2>3. \A k \in workers' : Thread(k)'
    BY <1>1, EventTypes
  <2>4. running' = [c \in Consumers |-> running'[c]] /\ \A c \in Consumers : running'[c] \in [ReadsOf(c) -> Contents]
    BY <1>1 DEF WatchBase
  <2>5. \A w \in Watchers : generation'[w] + (IF saving' = NoFile THEN 0 ELSE 1) <= 2 * saves'
    BY <1>1, <2>2
  <2>6. watching' \subseteq Watchers /\ untaken' \in BOOLEAN /\ task' \in [at : {"idle", "read"}, gen : Nat, got : Contents]
    BY <1>1 DEF WatchBase
  <2>7. QED
    BY <1>1, <2>1, <2>3, <2>4, <2>5, <2>6 DEF WatchBase, ReadsOf
<1>2. saves \in Nat /\ saves <= MaxSaves /\ MaxSaves \in Nat /\ \A w \in Watchers : generation[w] \in Nat
  BY WatchAssumption DEF WatchBase
<1>3. ASSUME NEW f \in Files, NEW x \in Contents, SaveByRename(f, x) \/ SaveTruncate(f, x) PROVE WatchBase'
  <2>1. PICK n \in {0, 1} : n = IF saving' = NoFile THEN 0 ELSE 1
    OBVIOUS
  <2>2. PICK s \in 0 .. MaxSaves : s = saves + 1 /\ saves' = s
    BY <1>2, <1>3 DEF SaveByRename, SaveTruncate
  <2>3. /\ Event(f) /\ saving = NoFile /\ saving' \in Files \cup {NoFile}
        /\ watching' = watching /\ running' = running /\ untaken' = untaken /\ task' = task
        /\ saved' = [saved EXCEPT ![f] = x]
        /\ disk' = [disk EXCEPT ![f] = x] \/ disk' = [disk EXCEPT ![f] = [x EXCEPT !.as = "empty"]]
    BY <1>3 DEF SaveByRename, SaveTruncate
  <2>4. [x EXCEPT !.as = "empty"] \in Contents
    BY DEF Contents
  <2>5. disk' \in [Files -> Contents] /\ saved' \in [Files -> Contents]
    BY <2>3, <2>4 DEF WatchBase
  <2>6. ASSUME NEW w \in Watchers PROVE generation[w] + 1 + n <= 2 * s
    <3>1. generation[w] <= 2 * saves
      BY <1>2, <2>3 DEF WatchBase
    <3>2. QED
      BY <1>2, <2>1, <2>2, <3>1
  <2>7. QED
    BY <1>1, <2>1, <2>2, <2>3, <2>5, <2>6
<1>4. CASE SaveWrite
  <2>1. PICK f \in Files : f = saving
    BY <1>4 DEF SaveWrite, WatchBase
  <2>2. /\ Event(f) /\ saving # NoFile /\ saving' = NoFile /\ saved' = saved /\ saves' = saves
        /\ watching' = watching /\ running' = running /\ untaken' = untaken /\ task' = task
        /\ disk' = [disk EXCEPT ![f] = saved[f]]
    BY <1>4, <2>1 DEF SaveWrite
  <2>3. disk' \in [Files -> Contents] /\ saved' \in [Files -> Contents]
    BY <2>2 DEF WatchBase
  <2>4. ASSUME NEW w \in Watchers PROVE generation[w] + 1 + 0 <= 2 * saves
    BY <1>2, <2>2 DEF WatchBase
  <2>5. QED
    BY <1>1, <1>2, <2>2, <2>3, <2>4
<1>5. CASE SaveWriteMoved
  <2>1. /\ saving' = NoFile
        /\ lost' = [c \in Consumers |-> IF saving \in ReadsOf(c) THEN "quarantined" ELSE lost[c]]
        /\ UNCHANGED <<disk, saved, saves, watching, generation, workers, running, untaken, task>>
    BY <1>5 DEF SaveWriteMoved
  <2>2. lost' \in [Consumers -> {"no", "missed", "shadowed", "quarantined"}]
    BY <2>1 DEF WatchBase
  <2>3. \A w \in Watchers : generation'[w] + (IF saving' = NoFile THEN 0 ELSE 1) <= 2 * saves'
    BY <1>2, <2>1 DEF WatchBase
  <2>4. \A k \in workers' : Thread(k)'
    BY <2>1, SameThreads DEF WatchBase
  <2>5. QED
    BY <2>1, <2>2, <2>3, <2>4 DEF WatchBase, ReadsOf
<1>6. QED
  BY <1>3, <1>4, <1>5 DEF Operator

\* The types of a step of a thread.
LEMMA ThreadBase ==
  ASSUME WatchBase, NEW k \in workers, WakeStale(k) \/ Wake(k) \/ ReadFirst(k) \/ ReadSecond(k) \/ Reloaded(k)
  PROVE  WatchBase'
<1>1. PICK d \in Consumers : d = LoadOf(k)
  BY LoadIs DEF WatchBase, Thread
<1>2. Thread(k) /\ disk \in [Files -> Contents] /\ First[d] \in Files /\ ReadsOf(d) \subseteq Files
  BY Reads DEF WatchBase
<1>3. saved' = saved /\ saving' = saving /\ saves' = saves /\ watching' = watching /\ generation' = generation /\ task' = task /\ lost' = lost
  BY DEF WakeStale, Wake, ReadFirst, ReadSecond, Reloaded
<1>4. ASSUME NEW to \in {"first", "second", "publish"}, NEW got, Step(k, to, got), to = "second" => Second[d] # NoFile,
             got \in [(IF to = "first" THEN {} ELSE IF to = "second" THEN {First[d]} ELSE ReadsOf(d)) -> Contents]
      PROVE  \A j \in workers' : Thread(j)
  <2>1. PICK n : n = [w |-> k.w, gen |-> k.gen, file |-> k.file, at |-> to, got |-> got]
    OBVIOUS
  <2>2. Thread(n)
    BY <1>1, <1>2, <1>4, <2>1, StepThread
  <2>3. \A j \in workers' : j \in workers \/ j = n
    BY <1>4, <2>1, StepGoes
  <2>4. QED
    BY <2>2, <2>3 DEF WatchBase
<1>5. ASSUME Retire(k) PROVE \A j \in workers' : Thread(j)
  BY <1>5 DEF WatchBase, Retire
<1>6. CASE ~Reloaded(k) /\ ~ReadFirst(k)
  <2>1. ASSUME WakeStale(k) PROVE \A j \in workers' : Thread(j)
    BY <1>5, <2>1 DEF WakeStale
  <2>2. ASSUME Wake(k) PROVE \A j \in workers' : Thread(j)
    <3>1. << >> \in [{} -> Contents] /\ Step(k, "first", << >>)
      BY <2>2 DEF Wake
    <3>2. QED
      BY <1>4, <3>1
  <2>3. ASSUME ReadSecond(k) PROVE \A j \in workers' : Thread(j)
    <3>1. PICK got : got = [f \in ReadsOf(d) |-> IF f = First[d] THEN k.got[f] ELSE disk[f]]
      OBVIOUS
    <3>2. k.at = "second" /\ Step(k, "publish", got)
      BY <1>1, <2>3, <3>1 DEF ReadSecond
    <3>3. k.got \in [{First[d]} -> Contents]
      BY <1>1, <1>2, <3>2 DEF Thread, Got
    <3>4. got \in [ReadsOf(d) -> Contents]
      BY <1>2, <3>1, <3>3
    <3>5. QED
      BY <1>4, <3>2, <3>4
  <2>4. \A j \in workers' : Thread(j)
    BY <1>6, <2>1, <2>2, <2>3
  <2>5. \A j \in workers' : Thread(j)'
    BY <1>3, <2>4, SameThreads
  <2>6. disk' = disk /\ running' = running /\ untaken' = untaken
    BY <1>6 DEF WakeStale, Wake, ReadSecond
  <2>7. QED
    BY <1>3, <2>5, <2>6 DEF WatchBase, ReadsOf
<1>7. CASE ReadFirst(k)
  <2>1. PICK f : f = First[d]
    OBVIOUS
  <2>2. PICK to \in {"publish", "second"} : to = IF Second[d] = NoFile THEN "publish" ELSE "second"
    OBVIOUS
  <2>3. PICK got : got = [g \in {f} |-> disk[f]]
    OBVIOUS
  <2>4. /\ IF ~Parses(f, disk[f]) THEN Retire(k) ELSE Step(k, to, got)
        /\ disk' = Quarantine(d, f, disk) /\ running' = running /\ untaken' = untaken
    BY <1>1, <1>7, <2>1, <2>2, <2>3 DEF ReadFirst
  <2>5. got \in [{First[d]} -> Contents]
    BY <1>2, <2>1, <2>3
  <2>6. to = "publish" => ReadsOf(d) = {First[d]}
    BY <2>2, Reads
  <2>7. got \in [(IF to = "first" THEN {} ELSE IF to = "second" THEN {First[d]} ELSE ReadsOf(d)) -> Contents]
    BY <2>2, <2>5, <2>6
  <2>8. \A j \in workers' : Thread(j)
    BY <1>4, <1>5, <2>2, <2>4, <2>7
  <2>9. \A j \in workers' : Thread(j)'
    BY <1>3, <2>8, SameThreads
  <2>10. disk' \in [Files -> Contents]
    <3>1. f \in Files /\ [disk[f] EXCEPT !.as = "missing"] \in Contents
      BY <1>2, <2>1 DEF Contents
    <3>2. disk' = disk \/ disk' = [disk EXCEPT ![f] = [disk[f] EXCEPT !.as = "missing"]]
      BY <2>4 DEF Quarantine
    <3>3. QED
      BY <1>2, <3>1, <3>2
  <2>11. QED
    BY <1>3, <2>4, <2>9, <2>10 DEF WatchBase, ReadsOf
<1>8. CASE Reloaded(k)
  <2>1. /\ Retire(k) /\ disk' = disk /\ untaken' = (untaken \/ (Loads(d, k.got) /\ d = "config")) /\ k.at = "publish"
        /\ running' = IF Loads(d, k.got) THEN [running EXCEPT ![d] = k.got] ELSE running
    BY <1>1, <1>8 DEF Reloaded
  <2>2. k.got \in [ReadsOf(d) -> Contents]
    BY <1>1, <1>2, <2>1 DEF Thread, Got
  <2>3. running' = [c \in Consumers |-> running'[c]] /\ \A c \in Consumers : running'[c] \in [ReadsOf(c) -> Contents]
    BY <2>1, <2>2 DEF WatchBase
  <2>4. \A j \in workers' : Thread(j)'
    BY <1>3, <1>5, <2>1, SameThreads
  <2>5. untaken' \in BOOLEAN
    BY <2>1
  <2>6. QED
    BY <1>3, <2>1, <2>3, <2>4, <2>5 DEF WatchBase, ReadsOf
<1>9. QED
  BY <1>6, <1>7, <1>8

\* The types of the other steps.
LEMMA WatchBaseStep ==
  ASSUME WatchInv, [WatchNext]_watchVars
  PROVE  WatchBase'
<1> USE DEF WatchInv
<1>1. CASE Operator
  BY <1>1, SaveBase
<1>2. CASE (\E w \in Watchers : Register(w)) \/ UNCHANGED watchVars
  <2>1. /\ UNCHANGED <<disk, saved, saving, saves, generation, workers, running, untaken, task, lost>>
        /\ watching \subseteq watching' /\ watching' \subseteq Watchers
    BY <1>2 DEF Register, watchVars, WatchBase
  <2>2. \A j \in workers' : Thread(j)'
    BY <2>1, SameThreads DEF WatchBase
  <2>3. QED
    BY <2>1, <2>2 DEF WatchBase, ReadsOf
<1>3. ASSUME NEW k \in workers, WakeStale(k) \/ Wake(k) \/ ReadFirst(k) \/ ReadSecond(k) \/ Reloaded(k)
      PROVE  WatchBase'
  BY <1>3, ThreadBase
<1>4. CASE TaskRead
  <2>1. DenyFile \in Files /\ DenyWatcher \in Watchers
    BY SingleFiles, Reads DEF DenyFile, DenyWatcher
  <2>2. /\ task' = [at |-> "read", gen |-> generation[DenyWatcher], got |-> disk[DenyFile]] /\ untaken' = FALSE
        /\ UNCHANGED <<disk, saved, saving, saves, watching, generation, workers, running, lost>>
    BY <1>4 DEF TaskRead, DenyFile, DenyWatcher
  <2>3. task' \in [at : {"idle", "read"}, gen : Nat, got : Contents]
    BY <2>1, <2>2 DEF WatchBase
  <2>4. \A j \in workers' : Thread(j)'
    BY <2>2, SameThreads DEF WatchBase
  <2>5. QED
    BY <2>2, <2>3, <2>4 DEF WatchBase, ReadsOf
<1>5. CASE TaskPublish
  <2>1. "denylist" \in Consumers
    BY SingleFiles
  <2>2. PICK got : got = [f \in ReadsOf("denylist") |-> task.got]
    OBVIOUS
  <2>3. /\ running' = IF Loads("denylist", got) THEN [running EXCEPT !["denylist"] = got] ELSE running
        /\ task' = Idle(task.got)
        /\ UNCHANGED <<disk, saved, saving, saves, watching, generation, workers, untaken, lost>>
    BY <1>5, <2>2 DEF TaskPublish
  <2>4. got \in [ReadsOf("denylist") -> Contents] /\ task' \in [at : {"idle", "read"}, gen : Nat, got : Contents]
    BY <2>2, <2>3 DEF WatchBase, Idle
  <2>5. running' = [c \in Consumers |-> running'[c]] /\ \A c \in Consumers : running'[c] \in [ReadsOf(c) -> Contents]
    BY <2>1, <2>3, <2>4 DEF WatchBase
  <2>6. \A j \in workers' : Thread(j)'
    BY <2>3, SameThreads DEF WatchBase
  <2>7. QED
    BY <2>3, <2>4, <2>5, <2>6 DEF WatchBase, ReadsOf
<1>6. QED
  BY <1>1, <1>2, <1>3, <1>4, <1>5 DEF WatchNext

\* The invariant is inductive.
LEMMA WatchInvStep == WatchInv /\ [WatchNext]_watchVars => WatchInv'
<1> SUFFICES ASSUME WatchInv, [WatchNext]_watchVars PROVE WatchInv'
  OBVIOUS
<1>1. WatchBase' /\ DiskInv' /\ DenylistInv' /\ Following' /\ PairMatches'
  BY WatchBaseStep, DiskStep, DenylistStep, FollowingStep, PairStep
<1>2. QED
  BY <1>1 DEF WatchInv

\* The types that the run checks.
LEMMA WatchTypes == WatchInv => WatchTypeOK
<1> SUFFICES ASSUME WatchInv PROVE WatchTypeOK
  OBVIOUS
<1>1. WatchBase
  BY DEF WatchInv
<1>2. generation \in [Watchers -> 0 .. 2 * MaxSaves]
  <2>1. saves \in Nat /\ saves <= MaxSaves /\ MaxSaves \in Nat
    BY <1>1, WatchAssumption DEF WatchBase
  <2>2. ASSUME NEW w \in Watchers PROVE generation[w] \in 0 .. 2 * MaxSaves
    <3>1. generation[w] \in Nat /\ generation[w] <= 2 * saves
      BY <1>1, <2>1 DEF WatchBase
    <3>2. QED
      BY <2>1, <3>1
  <2>3. QED
    BY <1>1, <2>2 DEF WatchBase
<1>3. ASSUME NEW k \in workers
      PROVE  /\ k.w \in watching /\ k.gen \in 1 .. generation[k.w] /\ k.file \in Triggers[k.w]
             /\ k.at \in {"sleep", "first", "second", "publish"}
             /\ k.got \in [DOMAIN k.got -> Contents] /\ DOMAIN k.got \subseteq ReadsOf(LoadOf(k))
  <2>1. Thread(k)
    BY <1>1 DEF WatchBase
  <2>2. LoadOf(k) \in Consumers
    BY <1>1, <2>1, LoadIs DEF WatchBase, Thread
  <2>3. First[LoadOf(k)] \in ReadsOf(LoadOf(k))
    BY <2>2, Reads
  <2>4. DOMAIN k.got = Got(k) /\ k.got \in [DOMAIN k.got -> Contents]
    BY <2>1 DEF Thread
  <2>5. Got(k) \subseteq ReadsOf(LoadOf(k))
    BY <2>1, <2>3 DEF Thread, Got
  <2>6. QED
    BY <2>1, <2>4, <2>5 DEF Thread
<1>4. QED
  BY <1>1, <1>2, <1>3 DEF WatchBase, WatchTypeOK

\* Once everything is quiet nobody waits and nothing is being loaded.
LEMMA WatchPromises == WatchInv => FollowsFile
<1> SUFFICES ASSUME WatchInv, Quiet, NEW c \in Consumers, lost[c] = "no", Loads(c, SavedOf(c)) PROVE running[c] = SavedOf(c)
  BY DEF FollowsFile
<1>1. Threads(c) = {} /\ saving \notin ReadsOf(c)
  BY Reads DEF Quiet, Threads
<1>2. Waiting(c) \/ Supplied(c)
  BY DEF WatchInv, Following
<1>3. QED
  BY <1>1, <1>2 DEF Waiting, Supplied

\* The types of the watchers, their threads and what is loaded, with the bound
\* on the events (two for every save).
THEOREM WatchTypeCorrect == WatchSpec => []WatchTypeOK
<1>1. WatchInit => WatchInv
  BY WatchInitially
<1>2. QED
  BY <1>1, WatchInvStep, WatchTypes, PTL DEF WatchSpec

\* Whatever the operator saves, and however the debounce threads, the loads and
\* the reload task interleave: once they are done, every consumer runs with what
\* was saved last in its files, unless that does not load or its event was lost
\* in one of the three ways that the history variable names.
THEOREM EverythingFollowsItsFiles == WatchSpec => []FollowsFile
<1>1. WatchInit => WatchInv
  BY WatchInitially
<1>2. QED
  BY <1>1, WatchInvStep, WatchPromises, PTL DEF WatchSpec

\* A certificate is served with its own key and neither is a partial file,
\* whatever is saved between the two reads of a reload.
THEOREM PairsAlwaysMatch == WatchSpec => []PairMatches
<1>1. WatchInit => WatchInv
  BY WatchInitially
<1>2. WatchInv => PairMatches
  BY DEF WatchInv
<1>3. QED
  BY <1>1, <1>2, WatchInvStep, PTL DEF WatchSpec

-----------------------------------------------------------------------------
(* Compression.                                                            *)

\* The frames in order, and one more.
LEMMA UptoSeq == \A n \in Nat : Upto(n) \in Seq(Nat) /\ Len(Upto(n)) = n /\ \A i \in 1 .. n : Upto(n)[i] = i
<1> SUFFICES ASSUME NEW n \in Nat PROVE Upto(n) \in Seq(Nat) /\ Len(Upto(n)) = n /\ \A i \in 1 .. n : Upto(n)[i] = i
  OBVIOUS
<1>1. Upto(n) \in [1 .. n -> Nat]
  BY DEF Upto
<1>2. QED
  BY <1>1 DEF Upto

\* Concatenation, element by element.
LEMMA CatIs ==
  ASSUME NEW S, NEW s \in Seq(S), NEW t \in Seq(S)
  PROVE  /\ s \o t \in Seq(S) /\ Len(s \o t) = Len(s) + Len(t) /\ Len(s) \in Nat /\ Len(t) \in Nat
         /\ \A i \in 1 .. Len(s) : (s \o t)[i] = s[i]
         /\ \A i \in 1 .. Len(t) : (s \o t)[Len(s) + i] = t[i]
<1>1. Len(s) \in Nat /\ Len(t) \in Nat
  OBVIOUS
<1>2. s \o t \in Seq(S) /\ Len(s \o t) = Len(s) + Len(t)
  BY ConcatProperties
<1>3. \A i \in 1 .. Len(s) : (s \o t)[i] = s[i]
  BY <1>1, ConcatProperties
<1>4. ASSUME NEW i \in 1 .. Len(t) PROVE (s \o t)[Len(s) + i] = t[i]
  <2>1. PICK k \in 1 .. Len(s) + Len(t) : k = Len(s) + i
    BY <1>1
  <2>2. ~ (k <= Len(s)) /\ k - Len(s) = i
    BY <1>1, <2>1
  <2>3. (s \o t)[k] = t[k - Len(s)]
    BY <2>1, <2>2, ConcatProperties
  <2>4. QED
    BY <2>1, <2>2, <2>3
<1>5. QED
  BY <1>1, <1>2, <1>3, <1>4

\* A prefix is what comes first.
LEMMA PrefixIs ==
  ASSUME NEW S, NEW s \in Seq(S), NEW t \in Seq(S)
  PROVE  IsPrefix(s, t) <=> Len(s) <= Len(t) /\ \A i \in 1 .. Len(s) : s[i] = t[i]
<1>1. Len(s) \in Nat /\ Len(t) \in Nat /\ SubSeq(s, 1, Len(s)) = s
  BY SubSeqFull
<1>2. ASSUME Len(s) <= Len(t)
      PROVE  /\ SubSeq(t, 1, Len(s)) \in Seq(S) /\ Len(SubSeq(t, 1, Len(s))) = Len(s)
             /\ \A i \in 1 .. Len(s) : SubSeq(t, 1, Len(s))[i] = t[i]
  <2>1. \A i \in 1 .. Len(s) : t[i] \in S
    BY <1>1, <1>2
  <2>2. \A i \in 1 .. Len(s) - 1 + 1 : SubSeq(t, 1, Len(s))[i] = t[1 + i - 1]
    BY <1>1, <2>1, SubSeqProperties
  <2>3. Len(SubSeq(t, 1, Len(s))) = IF 1 <= Len(s) THEN Len(s) - 1 + 1 ELSE 0
    BY <1>1, <2>1, SubSeqProperties
  <2>4. SubSeq(t, 1, Len(s)) \in Seq(S)
    BY <1>1, <2>1, SubSeqProperties
  <2>5. QED
    BY <1>1, <2>2, <2>3, <2>4
<1>3. ASSUME Len(s) <= Len(t), \A i \in 1 .. Len(s) : s[i] = t[i] PROVE s = SubSeq(t, 1, Len(s))
  BY <1>2, <1>3, SeqEqual
<1>4. QED
  BY <1>1, <1>2, <1>3 DEF IsPrefix

\* Concatenation is associative.
LEMMA CatCat ==
  ASSUME NEW S, NEW s \in Seq(S), NEW t \in Seq(S), NEW u \in Seq(S)
  PROVE  (s \o t) \o u = s \o (t \o u)
OBVIOUS

\* Appending to the second is appending to both.
LEMMA CatAppend ==
  ASSUME NEW S, NEW s \in Seq(S), NEW t \in Seq(S), NEW x \in S
  PROVE  s \o Append(t, x) = Append(s \o t, x)
OBVIOUS

\* One more frame.
LEMMA UptoNext ==
  ASSUME NEW n \in Nat, NEW s \in Seq(Nat), NEW h \in Seq(Nat)
  PROVE  s \o h = Upto(n) => s \o Append(h, n + 1) = Upto(n + 1)
<1>1. PICK x \in Nat : x = n + 1
  OBVIOUS
<1>2. s \o Append(h, x) = Append(s \o h, x)
  BY CatAppend
<1>4. PICK u \in Seq(Nat) : u = Upto(n) /\ Len(u) = n /\ \A i \in 1 .. n : u[i] = i
  BY UptoSeq
<1>6. Append(u, x) = Upto(x)
  <2>1. PICK v \in Seq(Nat) : v = Append(u, x)
    BY AppendProperties
  <2>0. Len(v) = n + 1 /\ v[n + 1] = x /\ \A i \in 1 .. n : v[i] = u[i]
    BY <1>4, <2>1
  <2>2. \A i \in 1 .. x : v[i] = i
    BY <1>1, <1>4, <2>1, <2>0
  <2>3. PICK w \in Seq(Nat) : w = Upto(x) /\ Len(w) = x /\ \A i \in 1 .. x : w[i] = i
    BY UptoSeq
  <2>4. v = w
    BY <1>1, <2>0, <2>1, <2>2, <2>3, SeqEqual
  <2>5. QED
    BY <2>1, <2>3, <2>4
<1>7. QED
  BY <1>1, <1>2, <1>4, <1>6

\* What comes first is a prefix, and stays one when there is more.
LEMMA UptoPrefix ==
  ASSUME NEW n \in Nat, NEW m \in Nat, n <= m, NEW s \in Seq(Nat), NEW h \in Seq(Nat), s \o h = Upto(n)
  PROVE  IsPrefix(s, Upto(m))
<1>1. Len(s) + Len(h) = n /\ Len(s) \in Nat /\ Len(h) \in Nat
  BY UptoSeq, CatIs
<1>2. \A i \in 1 .. Len(s) : s[i] = (s \o h)[i]
  BY CatIs
<1>3. \A i \in 1 .. Len(s) : s[i] = Upto(m)[i]
  <2>1. \A i \in 1 .. Len(s) : i \in 1 .. n /\ i \in 1 .. m
    BY <1>1
  <2>2. QED
    BY <1>2, <2>1, UptoSeq
<1>4. Len(s) <= Len(Upto(m)) /\ Upto(m) \in Seq(Nat)
  BY <1>1, UptoSeq
<1>5. QED
  BY <1>3, <1>4, PrefixIs

\* What the client has, with what is kept back behind it, is the first n frames.
InStep(g, h, n) == n \in Nat /\ g \in Seq(Nat) /\ h \in Seq(Nat) /\ g \o h = Upto(n)

\* The facts about it: one more frame, one prefix, nothing kept back.
LEMMA StepFrame ==
  ASSUME NEW g, NEW h, NEW n, InStep(g, h, n)
  PROVE  InStep(g, Append(h, n + 1), n + 1) /\ IsPrefix(g, Upto(n)) /\ IsPrefix(g, Upto(n + 1)) /\ Append(h, n + 1) \in Seq(Nat)
<1>1. n \in Nat /\ g \in Seq(Nat) /\ h \in Seq(Nat) /\ g \o h = Upto(n)
  BY DEF InStep
<1>2. n + 1 \in Nat /\ n <= n /\ n <= n + 1 /\ Append(h, n + 1) \in Seq(Nat)
  BY <1>1
<1>3. g \o Append(h, n + 1) = Upto(n + 1)
  BY <1>1, UptoNext
<1>4. IsPrefix(g, Upto(n)) /\ IsPrefix(g, Upto(n + 1))
  BY <1>1, <1>2, UptoPrefix
<1>5. QED
  BY <1>1, <1>2, <1>3, <1>4 DEF InStep

\* With nothing held, everything taken has been emitted.
LEMMA StepEmpty ==
  ASSUME NEW n \in Nat
  PROVE  InStep(Upto(n), <<>>, n) /\ \A g : InStep(g, <<>>, n) => g = Upto(n)
<1>1. Upto(n) \in Seq(Nat) /\ <<>> \in Seq(Nat)
  BY UptoSeq
<1>2. \A g \in Seq(Nat) : g \o <<>> = g
  BY ConcatEmptySeq
<1>3. QED
  BY <1>1, <1>2 DEF InStep

\* The frames of the inner body, as far as they were pulled: given to the client,
\* then kept back by the encoder, then on the blocking thread.
CompressInv ==
    /\ CompressTypeOK
    /\ held \in Seq(Nat) /\ sent \in Seq(Nat) /\ expands \in Nat
    /\ job = [chunk |-> job.chunk, result |-> job.result]
    /\ IsPrefix(sent, Upto(pulled))
    /\ mode \in {"Streaming", "Flushing"} => InStep(sent, held, pulled) /\ encoder = "here"
    /\ mode = "Offloading" => \E n \in Nat : pulled = n + 1 /\ InStep(sent, held, n) /\ job.chunk = pulled
    /\ mode = "Done" /\ "error" \notin marks => sent = Upto(pulled)
    /\ request.status = "ok" => request.size = expands /\ expands <= MaxBody

\* sent given to the client joins what it has.
LEMMA GiveDoes ==
  ASSUME NEW d, NEW n, InStep(sent, d, n), Give(d)
  PROVE  /\ sent' = Upto(n) /\ IsPrefix(sent', Upto(n)) /\ InStep(sent', <<>>, n)
         /\ sent' \in Seq(Nat) /\ marks' = marks
<1>1. n \in Nat
  BY DEF InStep
<1>2. sent' = Upto(n) /\ marks' = marks
  BY DEF InStep, Give
<1>3. InStep(Upto(n), <<>>, n) /\ Upto(n) \in Seq(Nat)
  BY <1>1, StepEmpty DEF InStep
<1>4. IsPrefix(Upto(n), Upto(n))
  BY <1>3, StepFrame
<1>5. QED
  BY <1>2, <1>3, <1>4

\* Every step of a body keeps the invariant.
LEMMA CompressInvStep == CompressInv /\ [CompressNext]_compressVars => CompressInv'
<1> SUFFICES ASSUME CompressInv, [CompressNext]_compressVars PROVE CompressInv'
  OBVIOUS
<1> USE DEF CompressInv, CompressTypeOK
<1>1. sent \in Seq(Nat) /\ pulled \in Nat /\ MaxChunks \in Nat /\ MaxBody \in Nat /\ pulled <= MaxChunks
  BY CatIs, CompressAssumption
<1>2. CASE decompress_request
  <2>1. /\ UNCHANGED <<expands, headers, pulled, held, encoder, job, mode, sent, marks>>
        /\ request' = decompress_bounded(expands) \/ request' \in {Status(s) : s \in {"413", "400", "500"}}
    BY <1>2 DEF decompress_request, outVars
  <2>2. request'.status = "ok" => request'.size = expands /\ expands <= MaxBody
    BY <1>1, <2>1 DEF decompress_bounded, Status
  <2>3. QED
    BY <2>1, <2>2
<1>3. CASE compress_response
  <2>1. headers' \in {"plain", "zstd", "500"} /\ UNCHANGED <<request, expands, pulled, held, encoder, job, mode, sent, marks>>
    BY <1>3 DEF compress_response, outVars, bodyVars
  <2>2. QED
    BY <2>1
<1>4. CASE InnerError \/ Trailers
  <2>1. /\ mode = "Streaming" /\ UNCHANGED <<request, expands, headers, pulled, held, encoder, job, mode, sent>>
    BY <1>4 DEF InnerError, Trailers, bodyVars, Mark
  <2>2. QED
    BY <2>1
<1>5. CASE compress_inline
  <2>1. /\ mode = "Streaming" /\ pulled < MaxChunks /\ pulled' = pulled + 1 /\ UNCHANGED <<request, expands, headers, encoder, job>>
        /\ \/ held' = Append(held, pulled') /\ UNCHANGED <<mode, sent, marks>>
           \/ Give(Append(held, pulled')) /\ held' = <<>> /\ UNCHANGED mode
           \/ mode' = "Done" /\ marks' = {"error"} /\ UNCHANGED <<held, sent>>
    BY <1>5 DEF compress_inline, MoreData, bodyVars, outVars, Mark
  <2>2. PICK d : d = Append(held, pulled + 1)
    OBVIOUS
  <2>3. InStep(sent, d, pulled + 1) /\ IsPrefix(sent, Upto(pulled + 1)) /\ d \in Seq(Nat)
    BY <2>1, <2>2, StepFrame
  <2>4. pulled' \in 0 .. MaxChunks
    BY <1>1, <2>1
  <2>5. CASE held' = Append(held, pulled') /\ UNCHANGED <<mode, sent, marks>>
    <3>1. sent' = sent /\ held' = d
      BY <2>1, <2>2, <2>5
    <3>2. QED
      BY <2>1, <2>3, <2>4, <2>5, <3>1
  <2>6. CASE Give(Append(held, pulled')) /\ held' = <<>> /\ UNCHANGED mode
    <3>1. Give(d)
      BY <2>1, <2>2, <2>6
    <3>2. /\ IsPrefix(sent', Upto(pulled')) /\ InStep(sent', <<>>, pulled') /\ marks' = marks
          /\ sent' \in Seq(Nat)
      BY <2>1, <2>3, <3>1, GiveDoes
    <3>3. QED
      BY <2>1, <2>4, <2>6, <3>2
  <2>7. CASE mode' = "Done" /\ marks' = {"error"} /\ UNCHANGED <<held, sent>>
    <3>1. sent' = sent
      BY <2>7
    <3>2. QED
      BY <2>1, <2>3, <2>4, <2>7, <3>1
  <2>8. QED
    BY <2>1, <2>5, <2>6, <2>7
<1>6. CASE offload_chunk
  <2>1. /\ mode = "Streaming" /\ pulled < MaxChunks /\ pulled' = pulled + 1 /\ mode' = "Offloading" /\ encoder' = "away"
        /\ job' = [chunk |-> pulled', result |-> "running"]
        /\ UNCHANGED <<request, expands, headers, held, sent, marks>>
    BY <1>6 DEF offload_chunk, MoreData, bodyVars, outVars
  <2>2. pulled' \in 0 .. MaxChunks /\ job'.chunk = pulled' /\ job'.result = "running" /\ job' = [chunk |-> job'.chunk, result |-> job'.result]
    BY <1>1, <2>1
  <2>3. sent' = sent /\ IsPrefix(sent, Upto(pulled + 1))
    BY <2>1, StepFrame
  <2>4. QED
    BY <1>1, <2>1, <2>2, <2>3
<1>7. CASE compress_chunk_owned
  <2>1. PICK r \in {"empty", "output", "error"} : job' = [job EXCEPT !.result = r]
    BY <1>7 DEF compress_chunk_owned
  <2>2. job' = [chunk |-> job.chunk, result |-> r]
    BY <2>1
  <2>3. job'.chunk = job.chunk /\ job'.result = r /\ job' = [chunk |-> job'.chunk, result |-> job'.result]
    BY <2>2
  <2>4. UNCHANGED <<request, expands, headers, pulled, held, encoder, mode, sent, marks>>
    BY <1>7 DEF compress_chunk_owned, outVars, bodyVars
  <2>5. QED
    BY <2>3, <2>4
<1>8. CASE poll_offloading
  <2>1. /\ mode = "Offloading" /\ job' = NoTask /\ UNCHANGED <<request, expands, headers, pulled>>
        /\ LET all == Append(held, job.chunk)
           IN  \/ held' = all /\ encoder' = "here" /\ mode' = "Streaming" /\ UNCHANGED <<sent, marks>>
               \/ Give(all) /\ held' = <<>> /\ encoder' = "here" /\ mode' = "Streaming"
               \/ Mark("error") /\ mode' = "Done" /\ UNCHANGED <<held, encoder>>
    BY <1>8 DEF poll_offloading, bodyVars, outVars
  <2>2. job'.result = "none" /\ job' = [chunk |-> job'.chunk, result |-> job'.result]
    BY <2>1 DEF NoTask
  <2>3. PICK n \in Nat : pulled = n + 1 /\ InStep(sent, held, n) /\ job.chunk = pulled
    BY <2>1
  <2>4. PICK d : d = Append(held, n + 1)
    OBVIOUS
  <2>5. InStep(sent, d, pulled) /\ d \in Seq(Nat)
    BY <2>3, <2>4, StepFrame
  <2>6. CASE held' = d /\ encoder' = "here" /\ mode' = "Streaming" /\ UNCHANGED <<sent, marks>>
    BY <1>1, <2>1, <2>2, <2>5, <2>6
  <2>7. CASE Give(d) /\ held' = <<>> /\ encoder' = "here" /\ mode' = "Streaming"
    <3>1. /\ IsPrefix(sent', Upto(pulled)) /\ InStep(sent', <<>>, pulled) /\ marks' = marks
          /\ sent' \in Seq(Nat)
      BY <2>5, <2>7, GiveDoes
    <3>2. QED
      BY <2>1, <2>2, <2>7, <3>1
  <2>8. CASE Mark("error") /\ mode' = "Done" /\ UNCHANGED <<held, encoder>>
    BY <2>1, <2>2, <2>8 DEF Mark
  <2>9. QED
    BY <2>1, <2>3, <2>4, <2>6, <2>7, <2>8
<1>9. CASE InnerEnd
  <2>1. mode = "Streaming" /\ mode' = "Flushing" /\ UNCHANGED <<request, expands, headers, pulled, held, encoder, job, sent, marks>>
    BY <1>9 DEF InnerEnd, bodyVars, outVars
  <2>2. QED
    BY <2>1
<1>10. CASE poll_flushing
  <2>1. /\ mode = "Flushing" /\ mode' = "Done" /\ UNCHANGED <<request, expands, headers, pulled, encoder, job>>
        /\ \/ held' = <<>> /\ IF held = <<>> THEN UNCHANGED <<sent, marks>> ELSE Give(held)
           \/ Mark("error") /\ UNCHANGED held
    BY <1>10 DEF poll_flushing, bodyVars, outVars
  <2>2. CASE held' = <<>> /\ held = <<>> /\ UNCHANGED <<sent, marks>>
    <3>1. sent' = sent /\ sent = Upto(pulled)
      BY <1>1, <2>1, <2>2, StepEmpty
    <3>2. QED
      BY <2>1, <2>2, <3>1
  <2>3. CASE held' = <<>> /\ Give(held)
    <3>1. /\ sent' = Upto(pulled) /\ IsPrefix(sent', Upto(pulled)) /\ marks' = marks
          /\ sent' \in Seq(Nat)
      BY <2>1, <2>3, GiveDoes
    <3>2. QED
      BY <2>1, <2>3, <3>1
  <2>4. CASE Mark("error") /\ UNCHANGED held
    BY <2>1, <2>4 DEF Mark
  <2>5. QED
    BY <2>1, <2>2, <2>3, <2>4
<1>11. CASE UNCHANGED compressVars
  BY <1>11 DEF compressVars, outVars
<1>12. QED
  BY <1>2, <1>3, <1>4, <1>5, <1>6, <1>7, <1>8, <1>9, <1>10, <1>11 DEF CompressNext

\* Before the first poll nothing was pulled.
LEMMA CompressInitially == CompressInit => CompressInv
<1> SUFFICES ASSUME CompressInit PROVE CompressInv
  OBVIOUS
<1>1. /\ request = Status("none") /\ expands \in 0 .. MaxBody + 2 /\ headers = "none" /\ pulled = 0 /\ held = <<>>
      /\ encoder = "here" /\ job = NoTask /\ mode = "Streaming" /\ sent = <<>> /\ marks = {}
  BY DEF CompressInit
<1>2. MaxBody \in Nat /\ MaxChunks \in Nat
  BY CompressAssumption
<1>3. expands \in Nat /\ pulled \in 0 .. MaxChunks
  BY <1>1, <1>2
<1>4. InStep(Upto(0), <<>>, 0)
  BY StepEmpty
<1>5. Upto(0) = <<>> /\ <<>> \in Seq(Nat)
  BY UptoSeq
<1>6. sent = Upto(0)
  BY <1>1, <1>5
<1>7. IsPrefix(Upto(0), Upto(0))
  BY <1>4, StepFrame
<1>8. job.result = "none" /\ job = [chunk |-> job.chunk, result |-> job.result] /\ request.status # "ok"
  BY <1>1 DEF NoTask, Status
<1>9. QED
  BY <1>1, <1>3, <1>4, <1>5, <1>6, <1>7, <1>8 DEF CompressInv, CompressTypeOK

\* The accounts that the run checks.
LEMMA CompressPromises == CompressInv => CompressTypeOK /\ CompressAccounted
BY DEF CompressInv, CompressAccounted, InStep

-----------------------------------------------------------------------------
(* The control stream.  The frames come out as they went in because, while  *)
(* the stream is read, the bytes taken and the bytes left are together the  *)
(* encoding of the frames not yet handled, from the next one on.            *)

\* Appending, element by element.
LEMMA AppendIs ==
  ASSUME NEW S, NEW s \in Seq(S), NEW x \in S
  PROVE  /\ Append(s, x) \in Seq(S) /\ Len(Append(s, x)) = Len(s) + 1 /\ Append(s, x) # <<>>
         /\ (\A i \in 1 .. Len(s) : Append(s, x)[i] = s[i]) /\ Append(s, x)[Len(s) + 1] = x
OBVIOUS

\* What two sequences begin with, if that is of one length.
LEMMA CatSame ==
  ASSUME NEW S, NEW a \in Seq(S), NEW b \in Seq(S), NEW c \in Seq(S), NEW d \in Seq(S)
  PROVE  Len(a) = Len(c) /\ a \o b = c \o d => a = c /\ b = d
<1>1. PICK x \in Seq(S) : x = a \o b
  BY CatIs
<1>2. /\ Len(x) = Len(a) + Len(b) /\ Len(a) \in Nat /\ Len(b) \in Nat
      /\ (\A i \in 1 .. Len(a) : x[i] = a[i]) /\ (\A i \in 1 .. Len(b) : x[Len(a) + i] = b[i])
  BY <1>1, CatIs, SMTT(30)
<1>3. PICK y \in Seq(S) : y = c \o d
  BY CatIs
<1>4. /\ Len(y) = Len(c) + Len(d) /\ Len(c) \in Nat /\ Len(d) \in Nat
      /\ (\A i \in 1 .. Len(c) : y[i] = c[i]) /\ (\A i \in 1 .. Len(d) : y[Len(c) + i] = d[i])
  BY <1>3, CatIs
<1>5. ASSUME x = y, Len(a) = Len(c) PROVE a = c
  <2>1. \A i \in 1 .. Len(a) : a[i] = c[i]
    BY <1>2, <1>4, <1>5
  <2>2. QED
    BY <1>5, <2>1, SeqEqual
<1>6. ASSUME x = y, Len(a) = Len(c) PROVE b = d
  <2>1. Len(b) = Len(d)
    BY <1>2, <1>4, <1>6
  <2>2. \A i \in 1 .. Len(b) : b[i] = d[i]
    BY <1>2, <1>4, <1>6, <2>1
  <2>3. QED
    BY <2>1, <2>2, SeqEqual
<1>7. QED
  BY <1>1, <1>3, <1>5, <1>6

\* Taking a byte off the wire moves it to the read in progress.
LEMMA TakeByte ==
  ASSUME NEW S, NEW p \in Seq(S), NEW w \in Seq(S), w # <<>>
  PROVE  /\ Append(p, Head(w)) \in Seq(S) /\ Tail(w) \in Seq(S) /\ Len(Append(p, Head(w))) = Len(p) + 1
         /\ Append(p, Head(w)) \o Tail(w) = p \o w /\ Append(p, Head(w)) # <<>>
<1>1. Head(w) \in S /\ Tail(w) \in Seq(S) /\ Len(w) \in Nat /\ Len(w) # 0 /\ Len(Tail(w)) = Len(w) - 1
      /\ \A i \in 1 .. Len(Tail(w)) : Tail(w)[i] = w[i + 1]
  BY HeadTailProperties
<1>0. PICK h \in S : h = Head(w)
  BY <1>1
<1>2. PICK e \in Seq(S) : e = Append(p, h)
  BY AppendProperties
<1>3. Len(e) = Len(p) + 1 /\ \A i \in 1 .. Len(p) : e[i] = p[i]
  BY <1>1, <1>2
<1>4. e[Len(p) + 1] = w[1]
  BY <1>0, <1>1, <1>2
<1>5. PICK x \in Seq(S) : x = e \o Tail(w)
  BY <1>1, CatIs
<1>6. PICK y \in Seq(S) : y = p \o w
  BY CatIs
<1>7. Len(x) = Len(p) + Len(w) /\ Len(y) = Len(p) + Len(w)
  <2>1. Len(x) = Len(e) + Len(Tail(w)) /\ Len(p) \in Nat
    BY <1>1, <1>5, CatIs
  <2>2. Len(y) = Len(p) + Len(w)
    BY <1>6, CatIs
  <2>3. QED
    BY <1>1, <1>3, <2>1, <2>2
<1>8. ASSUME NEW i \in 1 .. Len(p) + Len(w) PROVE x[i] = y[i]
  <2>0. Len(p) \in Nat
    OBVIOUS
  <2>1. CASE i <= Len(p)
    <3>1. i \in 1 .. Len(p) /\ i \in 1 .. Len(e)
      BY <1>3, <2>0, <2>1
    <3>2. x[i] = e[i] /\ y[i] = p[i]
      BY <1>1, <1>5, <1>6, <3>1, CatIs
    <3>3. QED
      BY <1>3, <3>1, <3>2
  <2>2. CASE i = Len(p) + 1
    <3>1. i \in 1 .. Len(e) /\ 1 \in 1 .. Len(w)
      BY <1>1, <1>3, <2>0, <2>2
    <3>2. x[i] = e[i]
      BY <1>1, <1>5, <3>1, CatIs
    <3>3. y[Len(p) + 1] = w[1]
      BY <1>6, <3>1, CatIs
    <3>4. QED
      BY <1>4, <2>2, <3>2, <3>3
  <2>3. CASE i > Len(p) + 1
    <3>1. PICK j \in 1 .. Len(Tail(w)) : i = Len(e) + j
      <4>1. i - Len(e) \in 1 .. Len(Tail(w)) /\ i = Len(e) + (i - Len(e))
        BY <1>1, <1>3, <2>0, <2>3
      <4>2. QED
        BY <4>1
    <3>2. x[Len(e) + j] = Tail(w)[j]
      BY <1>1, <1>5, CatIs
    <3>3. j + 1 \in 1 .. Len(w) /\ i = Len(p) + (j + 1)
      BY <1>1, <1>3, <2>0, <3>1
    <3>4. y[Len(p) + (j + 1)] = w[j + 1]
      BY <1>6, <3>3, CatIs
    <3>5. QED
      BY <1>1, <3>1, <3>2, <3>3, <3>4
  <2>4. QED
    BY <2>0, <2>1, <2>2, <2>3
<1>9. x = y
  BY <1>7, <1>8, SeqEqual
<1>10. QED
  BY <1>0, <1>1, <1>2, <1>3, <1>5, <1>6, <1>9, AppendProperties

\* The frames and their payloads.
LEMMA FramesAre ==
  /\ TunnelFrame = {"Heartbeat", "Shutdown", "NewStream", "Health", "RefuseWake", "Register", "Empty", "Wide"}
  /\ Payload["Heartbeat"] = <<1>> /\ Payload["Shutdown"] = <<2>> /\ Payload["NewStream"] = <<1, 1>>
  /\ Payload["Health"] = <<1, 2>> /\ Payload["RefuseWake"] = <<2, 1>> /\ Payload["Register"] = <<2, 2>>
  /\ Payload["Empty"] = <<>> /\ Payload["Wide"] = <<1, 1, 1>>
BY DEF TunnelFrame, Payload

\* The bytes of a frame.
LEMMA FrameBytes ==
  ASSUME NEW f \in TunnelFrame
  PROVE  /\ Payload[f] \in Seq(Nat) /\ Len(Payload[f]) \in 0 .. 3
         /\ encode_frame(f) \in Seq(Nat) /\ Len(encode_frame(f)) = 1 + Len(Payload[f])
         /\ encode_frame(f)[1] = Len(Payload[f]) /\ Head(encode_frame(f)) = Len(Payload[f])
         /\ Tail(encode_frame(f)) = Payload[f] /\ encode_frame(f) # <<>>
<1>1. Payload[f] \in Seq(Nat) /\ Len(Payload[f]) \in 0 .. 3
  <2>1. <<1>> \in Seq(Nat) /\ Len(<<1>>) \in 0 .. 3
    OBVIOUS
  <2>2. <<2>> \in Seq(Nat) /\ Len(<<2>>) \in 0 .. 3
    OBVIOUS
  <2>3. <<1, 1>> \in Seq(Nat) /\ Len(<<1, 1>>) \in 0 .. 3
    OBVIOUS
  <2>4. <<1, 2>> \in Seq(Nat) /\ Len(<<1, 2>>) \in 0 .. 3
    OBVIOUS
  <2>5. <<2, 1>> \in Seq(Nat) /\ Len(<<2, 1>>) \in 0 .. 3
    OBVIOUS
  <2>6. <<2, 2>> \in Seq(Nat) /\ Len(<<2, 2>>) \in 0 .. 3
    OBVIOUS
  <2>7. <<>> \in Seq(Nat) /\ Len(<<>>) \in 0 .. 3
    OBVIOUS
  <2>8. <<1, 1, 1>> \in Seq(Nat) /\ Len(<<1, 1, 1>>) \in 0 .. 3
    OBVIOUS
  <2>9. QED
    BY <2>1, <2>2, <2>3, <2>4, <2>5, <2>6, <2>7, <2>8, FramesAre, Zenon
<1>2. PICK p \in Seq(Nat) : p = Payload[f]
  BY <1>1
<1>11. PICK l \in Nat : l = Len(p)
  OBVIOUS
<1>13. <<l>> \in Seq(Nat)
  OBVIOUS
<1>12. PICK h \in Seq(Nat) : h = <<l>>
  BY <1>13
<1>3. h = <<Len(p)>> /\ Len(h) = 1 /\ h[1] = Len(p)
  BY <1>11, <1>12
<1>4. PICK e \in Seq(Nat) : e = h \o p
  BY CatIs
<1>5. encode_frame(f) = e
  BY <1>2, <1>3, <1>4 DEF encode_frame
<1>6. Len(e) = 1 + Len(p) /\ e[1] = h[1] /\ \A i \in 1 .. Len(p) : e[1 + i] = p[i]
  BY <1>3, <1>4, CatIs
<1>7. e # <<>> /\ Head(e) = e[1] /\ Len(p) \in Nat
  BY <1>6
<1>8. Tail(e) \in Seq(Nat) /\ Len(Tail(e)) = Len(e) - 1 /\ \A i \in 1 .. Len(Tail(e)) : Tail(e)[i] = e[i + 1]
  BY <1>7, HeadTailProperties
<1>9. Tail(e) = p
  <2>1. Len(Tail(e)) = Len(p)
    BY <1>6, <1>7, <1>8
  <2>2. \A i \in 1 .. Len(Tail(e)) : Tail(e)[i] = p[i]
    BY <1>6, <1>7, <1>8, <2>1, SMTT(30)
  <2>3. QED
    BY <1>8, <2>1, <2>2, SeqEqual
<1>10. QED
  BY <1>1, <1>2, <1>3, <1>5, <1>6, <1>7, <1>9

\* A payload is decoded as its frame or not at all.
LEMMA Decoded ==
  ASSUME NEW f \in TunnelFrame
  PROVE  safe_decode(Payload[f]) \in {f, NotAFrame}
<1>1. ASSUME NEW g \in TunnelFrame, Payload[g] = Payload[f] PROVE g = f
  BY <1>1, FramesAre, SMTT(30)
<1>2. QED
  BY <1>1 DEF safe_decode

\* The bytes b are those of the frames from the k-th on; rest says where each
\* of them begins.
Chain(ws, rest, k) ==
    /\ rest \in [1 .. Len(ws) + 1 -> Seq(Nat)] /\ rest[Len(ws) + 1] = <<>>
    /\ \A i \in k .. Len(ws) : rest[i] = encode_frame(ws[i]) \o rest[i + 1]
Remains(ws, b, k) == k \in 1 .. Len(ws) + 1 /\ \E rest : Chain(ws, rest, k) /\ rest[k] = b

\* CatCat, of bytes.
LEMMA Bytewise == \A s, t, u \in Seq(Nat) : (s \o t) \o u = s \o (t \o u)
BY SMTT(30)

\* A frame that is written comes last.
LEMMA RemainsWrite ==
  ASSUME NEW ws \in Seq(TunnelFrame), NEW f \in TunnelFrame, NEW b, NEW k, Remains(ws, b, k)
  PROVE  Remains(Append(ws, f), b \o encode_frame(f), k)
<1>1. PICK n \in Nat : n = Len(ws)
  OBVIOUS
<1>2. PICK e \in Seq(Nat) : e = encode_frame(f)
  BY FrameBytes
<1>3. PICK rest : Chain(ws, rest, k) /\ rest[k] = b
  BY DEF Remains
<1>4. /\ k \in 1 .. n + 1 /\ rest \in [1 .. n + 1 -> Seq(Nat)] /\ rest[n + 1] = <<>>
      /\ \A i \in k .. n : rest[i] = encode_frame(ws[i]) \o rest[i + 1]
  BY <1>1, <1>3 DEF Remains, Chain
<1>5. PICK vs \in Seq(TunnelFrame) : vs = Append(ws, f)
  BY AppendProperties
<1>6. Len(vs) = n + 1 /\ (\A i \in 1 .. n : vs[i] = ws[i]) /\ vs[n + 1] = f
  BY <1>1, <1>5
<1>7. PICK tail : tail = [i \in 1 .. n + 2 |-> IF i = n + 2 THEN <<>> ELSE rest[i] \o e]
  OBVIOUS
<1>8. \A i \in 1 .. n + 1 : tail[i] = rest[i] \o e
  BY <1>7
<1>9. tail[n + 2] = <<>> /\ tail \in [1 .. n + 2 -> Seq(Nat)]
  <2>1. <<>> \in Seq(Nat) /\ \A i \in 1 .. n + 1 : rest[i] \o e \in Seq(Nat)
    BY <1>4, CatIs
  <2>2. \A i \in 1 .. n + 2 : i = n + 2 \/ i \in 1 .. n + 1
    OBVIOUS
  <2>3. QED
    BY <1>7, <2>1, <2>2
<1>10. ASSUME NEW i \in k .. n + 1 PROVE tail[i] = encode_frame(vs[i]) \o tail[i + 1]
  <2>1. CASE i = n + 1
    <3>2. <<>> \o e = e /\ e \o <<>> = e
      BY ConcatEmptySeq
    <3>4. n + 1 \in 1 .. n + 1 /\ (n + 1) + 1 = n + 2
      OBVIOUS
    <3>5. tail[n + 1] = rest[n + 1] \o e
      BY <1>8, <3>4
    <3>6. tail[n + 1] = e
      BY <1>4, <3>2, <3>5
    <3>7. tail[(n + 1) + 1] = <<>>
      BY <1>9, <3>4
    <3>3. QED
      BY <1>2, <1>6, <2>1, <3>2, <3>6, <3>7
  <2>2. CASE i # n + 1
    <3>1. i \in 1 .. n /\ i + 1 \in 1 .. n + 1 /\ i \in 1 .. n + 1 /\ i \in k .. n
      BY <1>4, <2>2
    <3>2. encode_frame(ws[i]) \in Seq(Nat) /\ rest[i + 1] \in Seq(Nat)
      <4>1. ws[i] \in TunnelFrame
        BY <1>1, <3>1
      <4>2. encode_frame(ws[i]) \in Seq(Nat)
        BY <4>1, FrameBytes
      <4>3. rest[i + 1] \in Seq(Nat)
        BY <1>4, <3>1
      <4>4. QED
        BY <4>2, <4>3
    <3>3. \A g, r \in Seq(Nat) : (g \o r) \o e = g \o (r \o e)
      BY Bytewise, Zenon
    <3>4. (encode_frame(ws[i]) \o rest[i + 1]) \o e = encode_frame(ws[i]) \o (rest[i + 1] \o e)
      BY ONLY <3>2, <3>3, Zenon
    <3>5. rest[i] = encode_frame(ws[i]) \o rest[i + 1]
      BY <1>4, <3>1
    <3>7. tail[i] = rest[i] \o e /\ tail[i + 1] = rest[i + 1] \o e /\ vs[i] = ws[i]
      BY <1>6, <1>8, <3>1
    <3>6. QED
      BY ONLY <3>4, <3>5, <3>7, Zenon
  <2>3. QED
    BY <2>1, <2>2
<1>14. Len(vs) + 1 = n + 2 /\ Len(vs) = n + 1
  BY <1>6
<1>11. Chain(vs, tail, k)
  BY <1>14, <1>9, <1>10 DEF Chain
<1>12. tail[k] = b \o e /\ k \in 1 .. Len(vs) + 1
  <2>1. k \in 1 .. n + 2
    BY <1>4
  <2>2. QED
    BY <1>3, <1>4, <1>14, <1>8, <2>1
<1>13. QED
  BY <1>2, <1>5, <1>11, <1>12 DEF Remains

\* The first byte is the length of the next frame.
LEMMA RemainsFirst ==
  ASSUME NEW ws \in Seq(TunnelFrame), NEW b, NEW k, Remains(ws, b, k), b # <<>>
  PROVE  /\ k \in 1 .. Len(ws) /\ ws[k] \in TunnelFrame
         /\ \E r \in Seq(Nat) : b = encode_frame(ws[k]) \o r /\ Remains(ws, r, k + 1)
         /\ b[1] = Len(Payload[ws[k]])
<1>1. PICK n \in Nat : n = Len(ws)
  OBVIOUS
<1>2. PICK rest : Chain(ws, rest, k) /\ rest[k] = b
  BY DEF Remains
<1>3. /\ k \in 1 .. n + 1 /\ rest \in [1 .. n + 1 -> Seq(Nat)] /\ rest[n + 1] = <<>>
      /\ \A i \in k .. n : rest[i] = encode_frame(ws[i]) \o rest[i + 1]
  BY <1>1, <1>2 DEF Remains, Chain
<1>12. k # n + 1
  BY <1>2, <1>3
<1>4. k \in 1 .. n /\ k \in k .. n /\ k + 1 \in 1 .. n + 1
  BY <1>3, <1>12
<1>5. PICK r \in Seq(Nat) : r = rest[k + 1]
  BY <1>3, <1>4
<1>6. PICK f \in TunnelFrame : f = ws[k]
  BY <1>1, <1>4
<1>7. b = encode_frame(f) \o r
  BY <1>2, <1>3, <1>4, <1>5, <1>6
<1>8. Remains(ws, r, k + 1)
  <2>1. Chain(ws, rest, k + 1)
    <3>1. \A i \in k + 1 .. n : i \in k .. n
      BY <1>4
    <3>2. QED
      BY <1>1, <1>3, <3>1 DEF Chain
  <2>2. QED
    BY <1>1, <1>4, <1>5, <2>1 DEF Remains
<1>9. PICK e \in Seq(Nat) : e = encode_frame(f) /\ 1 \in 1 .. Len(e) /\ e[1] = Len(Payload[f])
  BY FrameBytes
<1>10. (e \o r)[1] = e[1]
  BY <1>9, CatIs
<1>11. QED
  BY <1>1, <1>4, <1>6, <1>7, <1>8, <1>9, <1>10

\* A complete frame that is taken off them is the next one.
LEMMA RemainsRead ==
  ASSUME NEW ws \in Seq(TunnelFrame), NEW k, NEW g \in Seq(Nat), NEW w \in Seq(Nat), g # <<>>, Len(g) = 1 + Head(g)
  PROVE  Remains(ws, g \o w, k) => k \in 1 .. Len(ws) /\ g = encode_frame(ws[k]) /\ Remains(ws, w, k + 1)
<1>1. PICK b \in Seq(Nat) : b = g \o w
  BY CatIs
<1>2. 1 \in 1 .. Len(g) /\ Head(g) = g[1]
  OBVIOUS
<1>3. b[1] = g[1] /\ b # <<>>
  BY <1>1, <1>2, CatIs
<1> SUFFICES ASSUME Remains(ws, b, k) PROVE k \in 1 .. Len(ws) /\ g = encode_frame(ws[k]) /\ Remains(ws, w, k + 1)
  BY <1>1
<1>4. k \in 1 .. Len(ws) /\ ws[k] \in TunnelFrame /\ b[1] = Len(Payload[ws[k]])
  BY <1>3, RemainsFirst
<1>5. PICK r \in Seq(Nat) : b = encode_frame(ws[k]) \o r /\ Remains(ws, r, k + 1)
  BY <1>3, RemainsFirst
<1>6. PICK e \in Seq(Nat) : e = encode_frame(ws[k]) /\ Len(e) = 1 + Len(Payload[ws[k]])
  BY <1>4, FrameBytes
<1>7. Len(g) = Len(e)
  BY <1>2, <1>3, <1>4, <1>6
<1>8. g = e /\ w = r
  BY <1>1, <1>5, <1>6, <1>7, CatSame
<1>9. QED
  BY <1>4, <1>5, <1>6, <1>8
\* What the proxy writes, and after what it writes nothing.
Words == {"Shutdown", "preamble", "RegisterAck", "HeartbeatAck", "torn"}
Final == {"Shutdown", "torn"}

\* Types, of the histories too.
ControlTypes ==
    /\ peer \in Peers
    /\ wire \in Seq(Nat) /\ partial \in Seq(Nat) /\ Len(partial) <= MaxFrameSize
    /\ written \in Seq(TunnelFrame) /\ Len(written) <= MaxFrames
    /\ handled \in Seq(TunnelFrame) /\ replies \in Seq(Words)
    /\ talk \in {"preamble", "register", "loop", "ended"}
    /\ quiet \in 0 .. HeartbeatTimeout /\ queued \in {"none", "Shutdown", "closed"}
    /\ effects \subseteq {"heartbeat", "health", "refusal"}

\* The bytes of the stream: what is left of the preamble, then the frames that
\* were not read yet.
Preamble(p, w) ==
    \E r \in Seq(Nat) : p \o w = write_preamble(peer.speaks) \o r /\ Remains(written, r, 1)
StreamInv ==
    /\ talk = "preamble" => Len(partial) <= 1 /\ Preamble(partial, wire)
    /\ talk \in {"register", "loop"} =>
         /\ Remains(written, partial \o wire, Len(handled) + 1)
         /\ partial = <<>> \/ (Len(partial) <= Head(partial) /\ Head(partial) <= MaxFrameSize)
    /\ talk \in {"preamble", "register"} => handled = <<>>
    /\ talk = "loop" => handled # <<>>
    /\ IsPrefix(handled, written)

\* Nothing follows the last word.
RepliesInv ==
    /\ \A i \in 1 .. Len(replies) - 1 : replies[i] \notin Final
    /\ talk # "ended" => \A i \in 1 .. Len(replies) : replies[i] \notin Final

\* A heartbeat has its answer, written or torn.
Beats == Count("Heartbeat", SubSeq(handled, 2, Len(handled)))
Acks == Count("HeartbeatAck", replies) + Count("torn", replies)
BeatsInv == Acks >= Beats

\* No effect without a frame that asks for it.
EffectsInv == effects \subseteq UNION {Effect(written[i]) : i \in 1 .. Len(written)}

\* The inductive invariant of the control stream.
ControlInv == ControlTypes /\ StreamInv /\ RepliesInv /\ BeatsInv /\ EffectsInv

\* The frame that a complete read yields is the next one that the peer wrote.
LEMMA NextFrame ==
  ASSUME ControlTypes, StreamInv, talk \in {"register", "loop"}, wire # <<>>,
         NEW got, got = Append(partial, Head(wire)), Complete(got), read_frame(got) # NotAFrame
  PROVE  /\ Len(handled) + 1 \in 1 .. Len(written) /\ read_frame(got) = written[Len(handled) + 1]
         /\ Remains(written, Tail(wire), Len(handled) + 2) /\ read_frame(got) \in TunnelFrame
<1>1. got \in Seq(Nat) /\ Tail(wire) \in Seq(Nat) /\ got \o Tail(wire) = partial \o wire /\ got # <<>>
  BY TakeByte DEF ControlTypes
<1>2. Len(got) = 1 + Head(got) /\ read_frame(got) = safe_decode(Tail(got))
  BY DEF Complete, read_frame
<1>3. Remains(written, got \o Tail(wire), Len(handled) + 1)
  BY <1>1 DEF StreamInv
<1>4. PICK k : k = Len(handled) + 1
  OBVIOUS
<1>5. k \in 1 .. Len(written) /\ got = encode_frame(written[k]) /\ Remains(written, Tail(wire), k + 1)
  BY <1>1, <1>2, <1>3, <1>4, RemainsRead DEF ControlTypes
<1>6. written[k] \in TunnelFrame
  BY <1>5 DEF ControlTypes
<1>7. Tail(got) = Payload[written[k]]
  BY <1>5, <1>6, FrameBytes
<1>8. read_frame(got) = written[k]
  BY <1>2, <1>6, <1>7, Decoded
<1>9. k + 1 = Len(handled) + 2
  BY <1>4 DEF ControlTypes
<1>10. QED
  BY <1>4, <1>5, <1>6, <1>8, <1>9

\* What a step says, and what ends with it.
LEMMA AnswerStep ==
  ASSUME ControlNext
  PROVE  \/ replies' = replies /\ (talk' # "ended" => talk # "ended")
         \/ talk # "ended" /\ \E x \in Words : replies' = Append(replies, x) /\ (x \in Final => talk' = "ended")
<1> USE DEF Words, Final, bounded_control_write, EndSilently, Ignore
<1>1. ASSUME NEW frame \in TunnelFrame, Write(frame) PROVE replies' = replies /\ talk' = talk
  BY <1>1 DEF Write
<1>2. CASE ReceiveByte
  <2>1. talk # "ended"
    BY <1>2 DEF ReceiveByte
  <2>2. PICK got, frame :
           \/ UNCHANGED <<talk, replies>>
           \/ Negotiate(got)
           \/ Registration(frame)
           \/ talk = "loop" /\ ControlFrame(frame)
    BY <1>2 DEF ReceiveByte
  <2>3. QED
    BY <2>1, <2>2 DEF Negotiate, Registration, ControlFrame
<1>3. CASE ReadError
  BY <1>3 DEF ReadError
<1>4. CASE Tick
  BY <1>4 DEF Tick
<1>5. CASE heartbeat_timeout
  BY <1>5 DEF heartbeat_timeout
<1>6. CASE Evict
  BY <1>6 DEF Evict
<1>7. CASE Outbound
  BY <1>7 DEF Outbound
<1>8. CASE ControlCancelled
  BY <1>8 DEF ControlCancelled
<1>9. CASE ControlShutdown
  BY <1>9 DEF ControlShutdown, controlOwn
<1>10. QED
  BY <1>1, <1>2, <1>3, <1>4, <1>5, <1>6, <1>7, <1>8, <1>9 DEF ControlNext

\* The frames that a step reads.
LEMMA ReadStep ==
  ASSUME ControlTypes, StreamInv, ControlNext
  PROVE  \/ handled' = handled
         \/ /\ talk \in {"register", "loop"} /\ Len(handled) + 1 \in 1 .. Len(written)
            /\ handled' = Append(handled, written[Len(handled) + 1]) /\ written' = written
            /\ talk = "loop" /\ written[Len(handled) + 1] = "Heartbeat"
                 => \E x \in {"HeartbeatAck", "torn"} : replies' = Append(replies, x)
<1>1. ASSUME NEW frame \in TunnelFrame, Write(frame) PROVE handled' = handled
  BY <1>1 DEF Write
<1>2. CASE ReceiveByte
  <2>1. PICK got : got = Append(partial, Head(wire))
    OBVIOUS
  <2>2. PICK frame : frame = read_frame(got)
    OBVIOUS
  <2>3. \/ handled' = handled
        \/ /\ Complete(got) /\ talk \in {"register", "loop"}
           /\ handled' = IF frame = NotAFrame THEN handled ELSE Append(handled, frame)
           /\ talk = "loop" => ControlFrame(frame)
    BY <1>2, <2>1, <2>2 DEF ReceiveByte
  <2>4. wire # <<>> /\ written' = written
    BY <1>2 DEF ReceiveByte
  <2>5. ASSUME handled' # handled PROVE Len(handled) + 1 \in 1 .. Len(written) /\ frame = written[Len(handled) + 1]
    BY <2>1, <2>2, <2>3, <2>4, <2>5, NextFrame
  <2>6. ASSUME handled' # handled, talk = "loop", frame = "Heartbeat"
        PROVE  \E x \in {"HeartbeatAck", "torn"} : replies' = Append(replies, x)
    BY <2>3, <2>6 DEF ControlFrame, bounded_control_write, NotAFrame
  <2>7. QED
    BY <2>3, <2>4, <2>5, <2>6
<1>3. CASE ReadError
  BY <1>3 DEF ReadError
<1>4. CASE Tick
  BY <1>4 DEF Tick
<1>5. CASE heartbeat_timeout
  BY <1>5 DEF heartbeat_timeout
<1>6. CASE Evict
  BY <1>6 DEF Evict
<1>7. CASE Outbound
  BY <1>7 DEF Outbound
<1>8. CASE ControlCancelled
  BY <1>8 DEF ControlCancelled
<1>9. CASE ControlShutdown
  BY <1>9 DEF ControlShutdown, controlOwn
<1>10. QED
  BY <1>1, <1>2, <1>3, <1>4, <1>5, <1>6, <1>7, <1>8, <1>9 DEF ControlNext
\* What appending does to a count.
LEMMA CountAppend ==
  ASSUME NEW S, NEW s \in Seq(S), NEW x \in S, NEW f
  PROVE  /\ Count(f, s) \in Nat
         /\ Count(f, Append(s, x)) = IF x = f THEN Count(f, s) + 1 ELSE Count(f, s)
<1>1. PICK n \in Nat : n = Len(s)
  OBVIOUS
<1>2. PICK e \in Seq(S) : e = Append(s, x)
  BY AppendProperties
<1>3. Len(e) = n + 1 /\ (\A i \in 1 .. n : e[i] = s[i]) /\ e[n + 1] = x
  BY <1>1, <1>2
<1>4. PICK D : D = {i \in 1 .. n : s[i] = f}
  OBVIOUS
<1>5. PICK E : E = {i \in 1 .. n + 1 : e[i] = f}
  OBVIOUS
<1>6. IsFiniteSet(D) /\ n + 1 \notin D
  <2>1. D \subseteq 1 .. n /\ IsFiniteSet(1 .. n)
    BY <1>4, FS_Interval
  <2>2. IsFiniteSet(D)
    BY <2>1, FS_Subset
  <2>3. QED
    BY <1>4, <2>2
<1>7. Cardinality(D) \in Nat /\ Cardinality(D \cup {n + 1}) = Cardinality(D) + 1
  BY <1>6, FS_AddElement, FS_CardinalityType
<1>8. E = IF x = f THEN D \cup {n + 1} ELSE D
  <2>1. \A i \in 1 .. n + 1 : i \in 1 .. n \/ i = n + 1
    OBVIOUS
  <2>2. 1 .. n \subseteq 1 .. n + 1 /\ n + 1 \in 1 .. n + 1 /\ n + 1 \notin 1 .. n
    OBVIOUS
  <2>3. QED
    BY <1>3, <1>4, <1>5, <2>1, <2>2
<1>9. Count(f, s) = Cardinality(D) /\ Count(f, e) = Cardinality(E)
  BY <1>1, <1>3, <1>4, <1>5 DEF Count
<1>10. QED
  BY <1>2, <1>7, <1>8, <1>9

\* What appending does to the frames after the first.
LEMMA RestAppend ==
  ASSUME NEW S, NEW s \in Seq(S), NEW x \in S
  PROVE  /\ SubSeq(s, 2, Len(s)) \in Seq(S)
         /\ s # <<>> => SubSeq(Append(s, x), 2, Len(Append(s, x))) = Append(SubSeq(s, 2, Len(s)), x)
         /\ s = <<>> => SubSeq(Append(s, x), 2, Len(Append(s, x))) = <<>>
<1>1. PICK n \in Nat : n = Len(s)
  OBVIOUS
<1>2. PICK e \in Seq(S) : e = Append(s, x)
  BY AppendProperties
<1>3. Len(e) = n + 1 /\ (\A i \in 1 .. n : e[i] = s[i]) /\ e[n + 1] = x
  BY <1>1, <1>2
<1>4. SubSeq(s, 2, n) \in Seq(S) /\ SubSeq(e, 2, n + 1) \in Seq(S)
  <2>1. (\A i \in 2 .. n : s[i] \in S) /\ (\A i \in 2 .. n + 1 : e[i] \in S)
    BY <1>1, <1>3
  <2>2. QED
    BY <2>1, SubSeqProperties
<1>5. ASSUME s # <<>> PROVE SubSeq(e, 2, n + 1) = Append(SubSeq(s, 2, n), x)
  <2>1. n >= 1
    BY <1>1, <1>5
  <2>2. PICK a \in Seq(S) : a = SubSeq(s, 2, n)
    BY <1>4
  <2>3. Len(a) = n - 1 /\ \A i \in 1 .. n - 1 : a[i] = s[i + 1]
    BY <1>1, <2>1, <2>2
  <2>4. PICK b \in Seq(S) : b = SubSeq(e, 2, n + 1)
    BY <1>4
  <2>5. Len(b) = n /\ \A i \in 1 .. n : b[i] = e[i + 1]
    BY <1>3, <2>1, <2>4
  <2>6. PICK c \in Seq(S) : c = Append(a, x)
    BY AppendProperties
  <2>7. Len(c) = n /\ (\A i \in 1 .. n - 1 : c[i] = a[i]) /\ c[n] = x
    BY <2>1, <2>3, <2>6
  <2>8. ASSUME NEW i \in 1 .. n PROVE b[i] = c[i]
    <3>1. CASE i = n
      BY <1>3, <2>5, <2>7, <3>1
    <3>2. CASE i # n
      <4>1. i \in 1 .. n - 1 /\ i + 1 \in 1 .. n
        BY <3>2
      <4>2. QED
        BY <1>3, <2>3, <2>5, <2>7, <4>1
    <3>3. QED
      BY <3>1, <3>2
  <2>9. b = c
    BY <2>5, <2>7, <2>8, SeqEqual
  <2>10. QED
    BY <2>2, <2>4, <2>6, <2>9
<1>6. ASSUME s = <<>> PROVE SubSeq(e, 2, n + 1) = <<>>
  BY <1>1, <1>3, <1>6
<1>7. QED
  BY <1>1, <1>2, <1>3, <1>4, <1>5, <1>6

\* No empty sequence holds anything.
LEMMA CountEmpty == \A f : Count(f, <<>>) = 0
BY FS_EmptySet DEF Count

\* A step says at most one thing, and nothing after a last word.
LEMMA RepliesStep ==
  ASSUME ControlTypes, RepliesInv, ControlNext
  PROVE  RepliesInv' /\ replies' \in Seq(Words)
<1>1. CASE replies' = replies /\ (talk' # "ended" => talk # "ended")
  BY <1>1 DEF RepliesInv, ControlTypes
<1>2. CASE talk # "ended" /\ \E x \in Words : replies' = Append(replies, x) /\ (x \in Final => talk' = "ended")
  <2>1. PICK x \in Words : replies' = Append(replies, x) /\ (x \in Final => talk' = "ended")
    BY <1>2
  <2>2. PICK n \in Nat : n = Len(replies)
    BY DEF ControlTypes
  <2>3. \A i \in 1 .. n : replies[i] \notin Final
    BY <1>2, <2>2 DEF RepliesInv
  <2>4. replies' \in Seq(Words) /\ Len(replies') = n + 1 /\ (\A i \in 1 .. n : replies'[i] = replies[i]) /\ replies'[n + 1] = x
    BY <2>1, <2>2 DEF ControlTypes
  <2>5. \A i \in 1 .. n + 1 : i \in 1 .. n \/ i = n + 1
    OBVIOUS
  <2>6. QED
    BY <2>1, <2>3, <2>4, <2>5 DEF RepliesInv
<1>3. QED
  BY <1>1, <1>2, AnswerStep

\* A heartbeat that is read is answered, or its answer fails, in the same step.
LEMMA BeatsStep ==
  ASSUME ControlTypes, StreamInv, BeatsInv, ControlNext
  PROVE  BeatsInv'
<1>1. Acks' \in Nat /\ Acks' >= Acks /\ Beats \in Nat /\ Acks \in Nat
  <2>1. \A f : Count(f, replies) \in Nat /\ Count(f, replies)' \in Nat /\ Count(f, replies)' >= Count(f, replies)
    <3>1. CASE replies' = replies
      <4>1. \A f : Count(f, replies) \in Nat
        BY CountAppend, ZenonT(60) DEF ControlTypes, Words
      <4>2. \A f : Count(f, replies)' = Count(f, replies)
        BY <3>1 DEF Count
      <4>3. QED
        BY <4>1, <4>2
    <3>2. CASE \E x \in Words : replies' = Append(replies, x)
      <4>1. PICK x \in Words : replies' = Append(replies, x)
        BY <3>2
      <4>2. \A f : Count(f, replies)' = Count(f, Append(replies, x))
        BY <4>1 DEF Count
      <4>3. \A f : Count(f, replies) \in Nat /\ Count(f, Append(replies, x)) \in {Count(f, replies), Count(f, replies) + 1}
        BY CountAppend DEF ControlTypes
      <4>4. QED
        BY <4>2, <4>3
    <3>3. QED
      BY <3>1, <3>2, AnswerStep
  <2>2. Beats \in Nat
    <3>1. SubSeq(handled, 2, Len(handled)) \in Seq(TunnelFrame)
      BY FramesAre, RestAppend DEF ControlTypes
    <3>2. QED
      BY <3>1, FramesAre, CountAppend DEF Beats
  <2>3. QED
    BY <2>1, <2>2 DEF Acks
<1>2. CASE handled' = handled
  <2>1. Beats' = Beats
    BY <1>2 DEF Beats, Count
  <2>2. QED
    BY <1>1, <2>1 DEF BeatsInv
<1>3. CASE handled' # handled
  <2>1. PICK y : y = written[Len(handled) + 1]
    OBVIOUS
  <2>2. /\ talk \in {"register", "loop"} /\ handled' = Append(handled, y) /\ y \in TunnelFrame
        /\ talk = "loop" /\ y = "Heartbeat" => \E x \in {"HeartbeatAck", "torn"} : replies' = Append(replies, x)
    BY <1>3, <2>1, ReadStep DEF ControlTypes
  <2>3. PICK s \in Seq(TunnelFrame) : s = SubSeq(handled, 2, Len(handled))
    BY <2>2, RestAppend DEF ControlTypes
  <2>4. Beats = Count("Heartbeat", s) /\ Beats' = Count("Heartbeat", SubSeq(Append(handled, y), 2, Len(Append(handled, y))))
    BY <2>2, <2>3 DEF Beats, Count
  <2>5. CASE talk = "register"
    <3>1. handled = <<>>
      BY <2>5 DEF StreamInv
    <3>2. SubSeq(Append(handled, y), 2, Len(Append(handled, y))) = <<>>
      BY <2>2, <3>1, RestAppend DEF ControlTypes
    <3>3. Beats' = 0
      BY <2>4, <3>2, CountEmpty
    <3>4. QED
      BY <1>1, <3>3 DEF BeatsInv
  <2>6. CASE talk = "loop"
    <3>1. handled # <<>>
      BY <2>6 DEF StreamInv
    <3>2. SubSeq(Append(handled, y), 2, Len(Append(handled, y))) = Append(s, y)
      BY <2>2, <2>3, <3>1, RestAppend, SMTT(30) DEF ControlTypes
    <3>3. Beats' = IF y = "Heartbeat" THEN Beats + 1 ELSE Beats
      <4>1. Count("Heartbeat", Append(s, y)) = IF y = "Heartbeat" THEN Count("Heartbeat", s) + 1 ELSE Count("Heartbeat", s)
        BY <2>2, CountAppend
      <4>2. Beats' = Count("Heartbeat", Append(s, y))
        BY <2>4, <3>2
      <4>3. QED
        BY <2>4, <4>1, <4>2
    <3>4. CASE y # "Heartbeat"
      BY <1>1, <3>3, <3>4 DEF BeatsInv
    <3>5. CASE y = "Heartbeat"
      <4>1. PICK x \in {"HeartbeatAck", "torn"} : replies' = Append(replies, x)
        BY <2>2, <2>6, <3>5
      <4>2. x \in Words /\ replies \in Seq(Words)
        BY <4>1 DEF ControlTypes, Words
      <4>3. \A f : Count(f, replies)' = Count(f, Append(replies, x))
        BY <4>1 DEF Count
      <4>4. \A f : /\ Count(f, replies) \in Nat
                   /\ Count(f, Append(replies, x)) = IF x = f THEN Count(f, replies) + 1 ELSE Count(f, replies)
        BY <4>2, CountAppend
      <4>5. Acks' = Acks + 1
        <5>1. Acks' = Count("HeartbeatAck", Append(replies, x)) + Count("torn", Append(replies, x))
          BY <4>3 DEF Acks
        <5>2. CASE x = "torn"
          BY <4>4, <5>1, <5>2 DEF Acks
        <5>3. CASE x = "HeartbeatAck"
          BY <4>4, <5>1, <5>3 DEF Acks
        <5>4. QED
          BY <5>2, <5>3
      <4>6. QED
        BY <1>1, <3>3, <3>5, <4>5 DEF BeatsInv
    <3>6. QED
      BY <3>4, <3>5
  <2>7. QED
    BY <2>2, <2>5, <2>6
<1>4. QED
  BY <1>2, <1>3
\* An effect is that of a frame which the peer wrote.
LEMMA EffectsStep ==
  ASSUME ControlTypes, StreamInv, EffectsInv, ControlNext
  PROVE  EffectsInv' /\ peer' = peer /\ effects' \subseteq {"heartbeat", "health", "refusal"}
<1>0. peer' = peer
  BY DEF ControlNext, Write, ReceiveByte, ReadError, Tick, heartbeat_timeout, Evict, Outbound, ControlCancelled,
         ControlShutdown, controlOwn
<1>1. \A f : Effect(f)' = Effect(f) /\ Effect(f) \subseteq {"heartbeat", "health", "refusal"}
  BY <1>0 DEF Effect
<1>2. ASSUME effects' = effects, written' = written PROVE EffectsInv'
  BY <1>1, <1>2, SMTT(30) DEF EffectsInv, Effect
<1>3. ASSUME NEW frame \in TunnelFrame, Write(frame) PROVE EffectsInv' /\ effects' = effects
  <2>1. effects' = effects /\ written' = Append(written, frame)
    BY <1>3 DEF Write
  <2>2. 1 .. Len(written) \subseteq 1 .. Len(written') /\ \A i \in 1 .. Len(written) : written'[i] = written[i]
    BY <2>1 DEF ControlTypes
  <2>3. ASSUME NEW e \in effects PROVE e \in UNION {Effect(written[i])' : i \in 1 .. Len(written')}
    <3>1. PICK i \in 1 .. Len(written) : e \in Effect(written[i])
      BY <2>3 DEF EffectsInv
    <3>2. i \in 1 .. Len(written') /\ e \in Effect(written[i])'
      BY <1>0, <2>2, <3>1 DEF Effect
    <3>3. QED
      BY <3>2
  <2>4. QED
    BY <2>1, <2>3 DEF EffectsInv
<1>4. CASE ReceiveByte
  <2>1. PICK got : got = Append(partial, Head(wire))
    OBVIOUS
  <2>2. PICK frame : frame = read_frame(got)
    OBVIOUS
  <2>3. wire # <<>> /\ written' = written
    BY <1>4 DEF ReceiveByte
  <2>4. \/ effects' = effects
        \/ Complete(got) /\ talk = "loop" /\ effects' = effects \cup Effect(frame)
    BY <1>4, <2>1, <2>2 DEF ReceiveByte
  <2>5. CASE effects' = effects
    BY <1>0, <1>2, <2>3, <2>5 DEF ControlTypes
  <2>6. CASE Complete(got) /\ talk = "loop" /\ effects' = effects \cup Effect(frame)
    <3>1. CASE frame = NotAFrame
      <4>1. Effect(frame) = {}
        BY <3>1 DEF Effect, NotAFrame
      <4>2. effects' = effects
        BY <2>6, <4>1
      <4>3. QED
        BY <1>0, <1>2, <2>3, <4>2 DEF ControlTypes
    <3>2. CASE frame # NotAFrame
      <4>1. Len(handled) + 1 \in 1 .. Len(written) /\ frame = written[Len(handled) + 1]
        BY <2>1, <2>2, <2>3, <2>6, <3>2, NextFrame
      <4>2. Effect(frame) \subseteq UNION {Effect(written[i]) : i \in 1 .. Len(written)}
        BY <4>1
      <4>3. effects' \subseteq UNION {Effect(written[i]) : i \in 1 .. Len(written)}
        BY <2>6, <4>2 DEF EffectsInv
      <4>4. EffectsInv'
        BY <1>0, <2>3, <4>3 DEF EffectsInv, Effect
      <4>5. QED
        BY <1>0, <1>1, <2>6, <4>4 DEF ControlTypes
    <3>3. QED
      BY <3>1, <3>2
  <2>7. QED
    BY <1>0, <2>4, <2>5, <2>6
<1>5. CASE ReadError \/ Tick \/ heartbeat_timeout \/ Evict \/ Outbound \/ ControlCancelled \/ ControlShutdown
  <2>1. effects' = effects /\ written' = written
    BY <1>5 DEF ReadError, Tick, heartbeat_timeout, Evict, Outbound, ControlCancelled, ControlShutdown, controlOwn
  <2>2. QED
    BY <1>0, <1>2, <2>1 DEF ControlTypes
<1>6. QED
  BY <1>0, <1>3, <1>4, <1>5 DEF ControlNext, ControlTypes

\* The preambles.
LEMMA Preambles ==
  /\ write_preamble("current") = <<9, 1>> /\ write_preamble("newer") = <<9, 2>> /\ write_preamble("legacy") = <<>>
  /\ \A p \in Peers : p.speaks \in {"current", "newer", "legacy"}
  /\ \A x \in {"current", "newer", "legacy"} : write_preamble(x) \in Seq(Nat)
<1>1. /\ write_preamble("current") = <<9, 1>> /\ write_preamble("newer") = <<9, 2>> /\ write_preamble("legacy") = <<>>
  BY DEF write_preamble, Magic, Version
<1>2. <<9, 1>> \in Seq(Nat)
  OBVIOUS
<1>3. <<9, 2>> \in Seq(Nat)
  OBVIOUS
<1>4. <<>> \in Seq(Nat)
  OBVIOUS
<1>5. \A p \in Peers : p.speaks \in {"current", "newer", "legacy"}
  BY DEF Peers
<1>6. QED
  BY <1>1, <1>2, <1>3, <1>4, <1>5

\* After the right preamble come the frames.
LEMMA AfterPreamble ==
  ASSUME ControlTypes, NEW g \in Seq(Nat), NEW w \in Seq(Nat), Len(g) = 2, g = <<Magic, Version>>
  PROVE  Preamble(g, w) => Remains(written, w, 1)
<1> SUFFICES ASSUME Preamble(g, w) PROVE Remains(written, w, 1)
  OBVIOUS
<1>1. PICK r \in Seq(Nat) : g \o w = write_preamble(peer.speaks) \o r /\ Remains(written, r, 1)
  BY DEF Preamble
<1>2. peer.speaks \in {"current", "newer", "legacy"}
  BY Preambles DEF ControlTypes
<1>3. PICK x : x = g \o w
  OBVIOUS
<1>4. x[1] = 9 /\ x[2] = 1 /\ x # <<>>
  <2>1. 1 \in 1 .. Len(g) /\ 2 \in 1 .. Len(g) /\ g[1] = 9 /\ g[2] = 1
    BY DEF Magic, Version
  <2>2. Len(x) = 2 + Len(w) /\ Len(w) \in Nat
    BY <1>3, CatIs
  <2>3. x[1] = g[1] /\ x[2] = g[2]
    BY <1>3, <2>1, CatIs
  <2>4. QED
    BY <2>1, <2>2, <2>3
<1>5. CASE peer.speaks = "current"
  <2>1. PICK c \in Seq(Nat) : c = write_preamble(peer.speaks)
    BY <1>2, Preambles
  <2>2. Len(c) = 2
    BY <1>5, <2>1, Preambles
  <2>3. w = r
    BY <1>1, <2>1, <2>2, CatSame
  <2>4. QED
    BY <1>1, <2>3
<1>6. CASE peer.speaks = "newer"
  <2>1. PICK c \in Seq(Nat) : c = write_preamble(peer.speaks)
    BY <1>2, Preambles
  <2>2. Len(c) = 2 /\ c[2] = 2
    BY <1>6, <2>1, Preambles
  <2>3. 2 \in 1 .. Len(c)
    BY <2>2
  <2>4. (c \o r)[2] = c[2]
    BY <2>3, CatIs
  <2>5. QED
    BY <1>1, <1>3, <1>4, <2>1, <2>2, <2>4
<1>7. CASE peer.speaks = "legacy"
  <2>1. <<>> \o r = r
    BY ConcatEmptySeq
  <2>2. x = r
    BY <1>1, <1>3, <1>7, <2>1, Preambles
  <2>3. Remains(written, x, 1)
    BY <1>1, <2>2
  <2>4. written[1] \in TunnelFrame /\ x[1] = Len(Payload[written[1]])
    BY <1>4, <2>3, RemainsFirst, ZenonT(60) DEF ControlTypes
  <2>5. Len(Payload[written[1]]) \in 0 .. 3
    BY <2>4, FrameBytes
  <2>7. 9 \notin 0 .. 3
    OBVIOUS
  <2>6. QED
    BY <1>4, <2>4, <2>5, <2>7, Zenon
<1>8. QED
  BY <1>2, <1>5, <1>6, <1>7
\* A frame joins the end of the stream.
LEMMA StreamWrite ==
  ASSUME ControlTypes, StreamInv, NEW frame \in TunnelFrame, Write(frame)
  PROVE  StreamInv'
<1>1. PICK e \in Seq(Nat) : e = encode_frame(frame)
  BY FrameBytes
<1>2. wire' = wire \o e /\ written' = Append(written, frame) /\ UNCHANGED <<peer, partial, handled, talk>>
  BY <1>1 DEF Write
<1>3. partial \o wire' = (partial \o wire) \o e
  BY <1>2, Bytewise DEF ControlTypes
<1>4. ASSUME Preamble(partial, wire) PROVE Preamble(partial, wire)'
  <2>1. PICK r \in Seq(Nat) : partial \o wire = write_preamble(peer.speaks) \o r /\ Remains(written, r, 1)
    BY <1>4 DEF Preamble
  <2>2. PICK p \in Seq(Nat) : p = write_preamble(peer.speaks)
    BY Preambles DEF ControlTypes
  <2>3. (p \o r) \o e = p \o (r \o e) /\ r \o e \in Seq(Nat)
    BY Bytewise, CatIs
  <2>4. partial' \o wire' = write_preamble(peer.speaks)' \o (r \o e)
    BY <1>2, <1>3, <2>1, <2>2, <2>3
  <2>5. Remains(written', r \o e, 1)
    BY <1>1, <1>2, <2>1, RemainsWrite DEF ControlTypes
  <2>6. QED
    BY <2>3, <2>4, <2>5 DEF Preamble
<1>5. ASSUME Remains(written, partial \o wire, Len(handled) + 1) PROVE Remains(written', partial' \o wire', Len(handled') + 1)
  BY <1>1, <1>2, <1>3, <1>5, RemainsWrite DEF ControlTypes
<1>6. IsPrefix(handled', written')
  <2>1. Len(handled) <= Len(written) /\ \A i \in 1 .. Len(handled) : handled[i] = written[i]
    BY PrefixIs DEF ControlTypes, StreamInv
  <2>2. written' \in Seq(TunnelFrame) /\ Len(written') = Len(written) + 1 /\ \A i \in 1 .. Len(written) : written'[i] = written[i]
    BY <1>2 DEF ControlTypes
  <2>3. Len(handled) \in Nat /\ Len(written) \in Nat /\ handled \in Seq(TunnelFrame)
    BY DEF ControlTypes
  <2>4. Len(handled) <= Len(written') /\ \A i \in 1 .. Len(handled) : handled[i] = written'[i]
    BY <2>1, <2>2, <2>3
  <2>5. IsPrefix(handled, written')
    BY <2>2, <2>3, <2>4, PrefixIs
  <2>6. QED
    BY <1>2, <2>5
<1>7. QED
  BY <1>2, <1>4, <1>5, <1>6 DEF StreamInv

\* A byte moves from the wire to the read in progress; a complete read takes
\* the preamble or exactly the next frame off the stream.
LEMMA StreamRead ==
  ASSUME ControlTypes, StreamInv, ReceiveByte
  PROVE  StreamInv' /\ partial' \in Seq(Nat) /\ Len(partial') <= MaxFrameSize /\ wire' \in Seq(Nat)
         /\ handled' \in Seq(TunnelFrame)
<1> DEFINE got == Append(partial, Head(wire))
           frame == read_frame(got)
<1>1. /\ got \in Seq(Nat) /\ Tail(wire) \in Seq(Nat) /\ Len(got) = Len(partial) + 1
      /\ got \o Tail(wire) = partial \o wire /\ got # <<>> /\ wire # <<>>
  BY TakeByte DEF ControlTypes, ReceiveByte
<1>2. wire' = Tail(wire) /\ talk # "ended" /\ UNCHANGED <<peer, written>>
  BY DEF ReceiveByte
<1>3. MaxFrameSize \in Nat /\ MaxFrameSize >= 1
  BY ControlAssumption
<1>4. Len(got) \in Nat /\ Len(partial) \in Nat /\ Head(got) \in Nat
  BY <1>1, SMTT(30) DEF ControlTypes
<1>5. CASE ~ Complete(got) /\ partial' = got /\ UNCHANGED <<handled, talk>>
  <2>1. CASE talk = "preamble"
    <3>1. Len(got) <= 1
      BY <1>1, <1>4, <1>5, <2>1 DEF Complete, StreamInv
    <3>2. Preamble(partial, wire)'
      <4>1. Preamble(partial, wire)
        BY <2>1 DEF StreamInv
      <4>2. partial' \o wire' = partial \o wire
        BY <1>1, <1>2, <1>5
      <4>3. QED
        BY <1>2, <4>1, <4>2 DEF Preamble
    <3>3. QED
      BY <1>1, <1>2, <1>3, <1>4, <1>5, <2>1, <3>1, <3>2 DEF StreamInv, ControlTypes
  <2>2. CASE talk # "preamble"
    <3>1. talk \in {"register", "loop"}
      BY <1>2, <2>2 DEF ControlTypes
    <3>2. Head(got) <= MaxFrameSize /\ Len(got) # 1 + Head(got)
      BY <1>3, <1>4, <1>5, <2>2 DEF Complete
    <3>3. Len(got) <= Head(got)
      <4>1. CASE partial = <<>>
        BY <1>1, <1>4, <3>2, <4>1
      <4>2. CASE partial # <<>>
        <5>1. Len(partial) <= Head(partial) /\ Head(got) = Head(partial)
          BY <1>1, <3>1, <4>2 DEF StreamInv, ControlTypes
        <5>2. QED
          BY <1>1, <1>4, <3>2, <5>1
      <4>3. QED
        BY <4>1, <4>2
    <3>4. Remains(written, partial \o wire, Len(handled) + 1)' 
      <4>1. Remains(written, partial \o wire, Len(handled) + 1)
        BY <3>1 DEF StreamInv
      <4>2. QED
        BY <1>1, <1>2, <1>5, <4>1
    <3>5. Len(got) <= MaxFrameSize
      BY <1>3, <1>4, <3>2, <3>3
    <3>6. StreamInv'
      BY <1>2, <1>5, <2>2, <3>2, <3>3, <3>4 DEF StreamInv
    <3>7. QED
      BY <1>1, <1>2, <1>5, <3>5, <3>6 DEF ControlTypes
  <2>3. QED
    BY <2>1, <2>2
<1>6. <<>> \in Seq(Nat) /\ Len(<<>>) <= MaxFrameSize /\ <<>> \o Tail(wire) = Tail(wire)
  BY <1>1, <1>3, ConcatEmptySeq
<1>7. CASE Complete(got) /\ partial' = <<>> /\ talk = "preamble" /\ Negotiate(got) /\ handled' = handled
  <2>1. Len(got) = 2
    BY <1>7 DEF Complete
  <2>2. talk' = "ended" \/ (talk' = "register" /\ got = <<Magic, Version>>)
    BY <1>7 DEF Negotiate, EndSilently, bounded_control_write
  <2>3. ASSUME talk' # "ended" PROVE Remains(written, Tail(wire), 1)
    <3>1. Preamble(got, Tail(wire))
      BY <1>1, <1>7 DEF StreamInv, Preamble
    <3>2. QED
      BY <1>1, <2>1, <2>2, <2>3, <3>1, AfterPreamble
  <2>4. handled = <<>> /\ Len(handled) + 1 = 1
    BY <1>7 DEF StreamInv
  <2>5. StreamInv'
    <3>1. talk' # "ended" => Remains(written, partial \o wire, Len(handled) + 1)'
      BY <1>2, <1>6, <1>7, <2>3, <2>4
    <3>2. QED
      BY <1>2, <1>7, <2>2, <2>4, <3>1 DEF StreamInv
  <2>6. QED
    BY <1>1, <1>2, <1>6, <1>7, <2>5 DEF ControlTypes
<1>8. CASE /\ Complete(got) /\ partial' = <<>> /\ talk \in {"register", "loop"}
           /\ handled' = IF frame = NotAFrame THEN handled ELSE Append(handled, frame)
           /\ \/ talk = "register" /\ Registration(frame)
              \/ talk = "loop" /\ ControlFrame(frame)
  <2>1. talk' \in {"loop", "ended"} /\ (talk' = "loop" => frame # NotAFrame)
    BY <1>8 DEF Registration, ControlFrame, EndSilently, Ignore, bounded_control_write, NotAFrame
  <2>2. CASE frame = NotAFrame
    <3>1. StreamInv'
      BY <1>2, <1>8, <2>1, <2>2 DEF StreamInv
    <3>2. QED
      BY <1>1, <1>2, <1>6, <1>8, <2>2, <3>1 DEF ControlTypes
  <2>3. CASE frame # NotAFrame
    <3>1. /\ Len(handled) + 1 \in 1 .. Len(written) /\ frame = written[Len(handled) + 1] /\ frame \in TunnelFrame
          /\ Remains(written, Tail(wire), Len(handled) + 2)
      BY <1>1, <1>8, <2>3, NextFrame
    <3>2. PICK f \in TunnelFrame : f = frame
      BY <3>1
    <3>3. /\ handled' = Append(handled, f) /\ handled' \in Seq(TunnelFrame) /\ Len(handled') = Len(handled) + 1 /\ handled' # <<>>
          /\ (\A i \in 1 .. Len(handled) : handled'[i] = handled[i]) /\ handled'[Len(handled) + 1] = f
      <4>1. handled' = Append(handled, f) /\ handled \in Seq(TunnelFrame)
        BY <1>8, <2>3, <3>2 DEF ControlTypes
      <4> HIDE DEF got, frame
      <4>2. QED
        BY ONLY <4>1, AppendIs
    <3>4. Len(handled) \in Nat /\ Len(written) \in Nat /\ written \in Seq(TunnelFrame) /\ handled \in Seq(TunnelFrame)
      BY DEF ControlTypes
    <3>5. Remains(written, partial \o wire, Len(handled) + 1)'
      <4>1. Len(handled') + 1 = Len(handled) + 2
        BY <3>3, <3>4
      <4>2. partial' \o wire' = Tail(wire)
        BY <1>2, <1>6, <1>8
      <4>3. QED
        BY <1>2, <3>1, <4>1, <4>2
    <3>6. IsPrefix(handled', written')
      <4>1. Len(handled) <= Len(written) /\ \A i \in 1 .. Len(handled) : handled[i] = written[i]
        BY <3>4, PrefixIs DEF StreamInv
      <4>2. \A i \in 1 .. Len(handled) + 1 : i \in 1 .. Len(handled) \/ i = Len(handled) + 1
        BY <3>4
      <4>3. \A i \in 1 .. Len(handled') : handled'[i] = written[i]
        BY <3>1, <3>2, <3>3, <4>1, <4>2
      <4>4. Len(handled') <= Len(written)
        BY <3>1, <3>3, <3>4
      <4>5. IsPrefix(handled', written)
        BY <3>3, <3>4, <4>3, <4>4, PrefixIs
      <4>6. QED
        BY <1>2, <4>5
    <3>7. StreamInv'
      BY <1>8, <2>1, <3>3, <3>5, <3>6 DEF StreamInv
    <3>8. QED
      BY <1>1, <1>2, <1>6, <1>8, <3>3, <3>7
  <2>4. QED
    BY <2>2, <2>3
<1>9. QED
  BY <1>5, <1>7, <1>8 DEF ReceiveByte

\* The other steps leave the stream alone or leave it for good.
LEMMA StreamOthers ==
  ASSUME ControlTypes, StreamInv,
         ReadError \/ Tick \/ heartbeat_timeout \/ Evict \/ Outbound \/ ControlCancelled \/ ControlShutdown
  PROVE  StreamInv' /\ partial' \in Seq(Nat) /\ Len(partial') <= MaxFrameSize /\ UNCHANGED <<wire, written, handled>>
<1>1. UNCHANGED <<wire, written, handled, peer>>
  BY DEF ReadError, Tick, heartbeat_timeout, Evict, Outbound, ControlCancelled, ControlShutdown, controlOwn
<1>2. \/ talk' = "ended" /\ partial' \in {partial, <<>>}
      \/ talk' = talk /\ partial' = partial
  BY DEF ReadError, Tick, heartbeat_timeout, Evict, Outbound, ControlCancelled, ControlShutdown, controlOwn,
         EndSilently, bounded_control_write
<1>3. <<>> \in Seq(Nat) /\ Len(<<>>) <= MaxFrameSize
  BY ControlAssumption
<1>4. StreamInv'
  <2>1. CASE talk' = "ended"
    BY <1>1, <2>1 DEF StreamInv
  <2>2. CASE talk' = talk /\ partial' = partial
    BY <1>1, <2>2 DEF StreamInv, Preamble
  <2>3. QED
    BY <1>2, <2>1, <2>2
<1>5. QED
  BY <1>1, <1>2, <1>3, <1>4 DEF ControlTypes

\* What is left of the types.
LEMMA ControlTypesStep ==
  ASSUME ControlTypes, ControlNext
  PROVE  /\ Len(written') <= MaxFrames /\ written' \in Seq(TunnelFrame)
         /\ talk' \in {"preamble", "register", "loop", "ended"}
         /\ quiet' \in 0 .. HeartbeatTimeout /\ queued' \in {"none", "Shutdown", "closed"}
<1> USE ControlAssumption DEF ControlTypes, bounded_control_write, EndSilently, Ignore
<1>1. ASSUME NEW frame \in TunnelFrame, Write(frame)
      PROVE  Len(written') <= MaxFrames /\ written' \in Seq(TunnelFrame) /\ UNCHANGED <<talk, quiet, queued>>
  <2>1. written' = Append(written, frame) /\ Len(written) < MaxFrames /\ UNCHANGED <<talk, quiet, queued>>
    BY <1>1 DEF Write
  <2>2. Len(written') = Len(written) + 1 /\ Len(written) \in Nat /\ written' \in Seq(TunnelFrame)
    BY <2>1
  <2>3. QED
    BY <2>1, <2>2
<1>2. CASE ReceiveByte
  <2>1. written' = written /\ queued' = queued /\ quiet' \in {0, quiet}
    BY <1>2 DEF ReceiveByte
  <2>2. talk' \in {"preamble", "register", "loop", "ended"}
    BY <1>2 DEF ReceiveByte, Negotiate, Registration, ControlFrame
  <2>3. QED
    BY <2>1, <2>2
<1>3. CASE ReadError
  BY <1>3 DEF ReadError
<1>4. CASE Tick
  BY <1>4 DEF Tick
<1>5. CASE heartbeat_timeout
  BY <1>5 DEF heartbeat_timeout
<1>6. CASE Evict
  BY <1>6 DEF Evict
<1>7. CASE Outbound
  BY <1>7 DEF Outbound
<1>8. CASE ControlCancelled
  BY <1>8 DEF ControlCancelled
<1>9. CASE ControlShutdown
  BY <1>9 DEF ControlShutdown, controlOwn
<1>10. QED
  BY <1>1, <1>2, <1>3, <1>4, <1>5, <1>6, <1>7, <1>8, <1>9 DEF ControlNext

\* A stream begins with its preamble and nothing else.
LEMMA ControlInitially == ControlInit => ControlInv
<1> SUFFICES ASSUME ControlInit PROVE ControlInv
  OBVIOUS
<1>1. ControlTypes
  <2>1. wire \in Seq(Nat)
    BY Preambles DEF ControlInit
  <2>2. Len(<<>>) = 0 /\ 0 <= MaxFrames /\ 0 <= MaxFrameSize /\ 0 \in 0 .. HeartbeatTimeout
    BY ControlAssumption
  <2>3. <<>> \in Seq(Nat) /\ <<>> \in Seq(TunnelFrame) /\ <<>> \in Seq(Words)
    OBVIOUS
  <2>4. QED
    BY <2>1, <2>2, <2>3 DEF ControlInit, ControlTypes
<1>2. StreamInv
  <2>1. Remains(<<>>, <<>>, 1)
    <3>1. Len(<<>>) = 0 /\ 1 \in 1 .. 0 + 1 /\ 1 .. 0 = {} /\ <<>> \in Seq(Nat)
      OBVIOUS
    <3>2. PICK rest : rest = [i \in 1 .. 0 + 1 |-> <<>>]
      OBVIOUS
    <3>3. Chain(<<>>, rest, 1) /\ rest[1] = <<>>
      BY <3>1, <3>2 DEF Chain
    <3>4. QED
      BY <3>1, <3>3 DEF Remains
  <2>2. <<>> \o wire = wire /\ wire \o <<>> = wire
    BY <1>1, ConcatEmptySeq DEF ControlTypes
  <2>3. Preamble(partial, wire)
    <3>1. <<>> \in Seq(Nat)
      OBVIOUS
    <3>2. partial = <<>> /\ written = <<>> /\ wire = write_preamble(peer.speaks)
      BY DEF ControlInit
    <3>3. QED
      BY <2>1, <2>2, <3>1, <3>2 DEF Preamble
  <2>4. IsPrefix(<<>>, <<>>)
    <3>1. <<>> \in Seq(Nat) /\ Len(<<>>) <= Len(<<>>) /\ \A i \in 1 .. Len(<<>>) : <<>>[i] = <<>>[i]
      OBVIOUS
    <3>2. PICK s \in Seq(Nat) : s = <<>>
      BY <3>1
    <3>3. IsPrefix(s, s)
      BY PrefixIs
    <3>4. QED
      BY <3>2, <3>3
  <2>5. QED
    BY <2>3, <2>4 DEF StreamInv, ControlInit
<1>3. RepliesInv
  BY DEF RepliesInv, ControlInit
<1>4. BeatsInv
  <2>1. SubSeq(<<>>, 2, Len(<<>>)) = <<>>
    OBVIOUS
  <2>2. Acks = 0 /\ Beats = 0
    <3>1. Count("HeartbeatAck", <<>>) = 0 /\ Count("torn", <<>>) = 0 /\ Count("Heartbeat", <<>>) = 0
      BY CountEmpty
    <3>2. handled = <<>> /\ replies = <<>>
      BY DEF ControlInit
    <3>3. Acks = 0
      BY <3>1, <3>2 DEF Acks
    <3>4. Beats = 0
      BY <2>1, <3>1, <3>2 DEF Beats
    <3>5. QED
      BY <3>3, <3>4
  <2>3. QED
    BY <2>2 DEF BeatsInv
<1>5. EffectsInv
  BY DEF EffectsInv, ControlInit
<1>6. QED
  BY <1>1, <1>2, <1>3, <1>4, <1>5 DEF ControlInv

\* The invariant is inductive.
LEMMA ControlInvStep == ControlInv /\ [ControlNext]_controlVars => ControlInv'
<1> SUFFICES ASSUME ControlInv, [ControlNext]_controlVars PROVE ControlInv'
  OBVIOUS
<1> USE DEF ControlInv
<1>1. CASE ControlNext
  <2>1. RepliesInv' /\ replies' \in Seq(Words)
    BY <1>1, RepliesStep
  <2>2. BeatsInv'
    BY <1>1, BeatsStep
  <2>3. EffectsInv' /\ peer' \in Peers /\ effects' \subseteq {"heartbeat", "health", "refusal"}
    BY <1>1, EffectsStep DEF ControlTypes
  <2>4. /\ Len(written') <= MaxFrames /\ written' \in Seq(TunnelFrame)
        /\ talk' \in {"preamble", "register", "loop", "ended"}
        /\ quiet' \in 0 .. HeartbeatTimeout /\ queued' \in {"none", "Shutdown", "closed"}
    BY <1>1, ControlTypesStep
  <2>5. /\ StreamInv' /\ partial' \in Seq(Nat) /\ Len(partial') <= MaxFrameSize /\ wire' \in Seq(Nat)
        /\ handled' \in Seq(TunnelFrame)
    <3>1. ASSUME NEW frame \in TunnelFrame, Write(frame)
          PROVE  StreamInv' /\ partial' = partial /\ handled' = handled /\ wire' \in Seq(Nat)
      <4>1. StreamInv'
        BY <3>1, StreamWrite
      <4>2. encode_frame(frame) \in Seq(Nat)
        BY FrameBytes
      <4>3. wire \o encode_frame(frame) \in Seq(Nat)
        BY <4>2, CatIs DEF ControlTypes
      <4>4. QED
        BY <3>1, <4>1, <4>3 DEF Write
    <3>2. CASE ReceiveByte
      BY <3>2, StreamRead
    <3>3. CASE ReadError \/ Tick \/ heartbeat_timeout \/ Evict \/ Outbound \/ ControlCancelled \/ ControlShutdown
      BY <3>3, StreamOthers DEF ControlTypes
    <3>4. QED
      BY <1>1, <3>1, <3>2, <3>3 DEF ControlNext, ControlTypes
  <2>6. ControlTypes'
    BY <2>1, <2>3, <2>4, <2>5 DEF ControlTypes
  <2>7. QED
    BY <2>1, <2>2, <2>3, <2>5, <2>6
<1>2. CASE UNCHANGED controlVars
  <2>1. UNCHANGED <<peer, wire, written, partial, handled, talk, quiet, queued, replies, effects>>
    BY <1>2 DEF controlVars, controlOwn
  <2>2. ControlTypes' /\ RepliesInv'
    BY <2>1 DEF ControlTypes, RepliesInv
  <2>3. StreamInv'
    BY <2>1 DEF StreamInv, Preamble
  <2>4. BeatsInv'
    BY <2>1 DEF BeatsInv, Beats, Acks, Count
  <2>5. EffectsInv'
    BY <2>1 DEF EffectsInv, Effect
  <2>6. QED
    BY <2>2, <2>3, <2>4, <2>5
<1>3. QED
  BY <1>1, <1>2

\* Both readers take the same bytes for a frame.
LEMMA ReadersAgree == \A f \in TunnelFrame : decode(encode_frame(f)) = read_frame(encode_frame(f))
<1> SUFFICES ASSUME NEW f \in TunnelFrame PROVE decode(encode_frame(f)) = read_frame(encode_frame(f))
  OBVIOUS
<1>1. PICK e \in Seq(Nat) : /\ e = encode_frame(f) /\ Len(e) = 1 + Len(Payload[f]) /\ Head(e) = Len(Payload[f])
                            /\ Tail(e) = Payload[f] /\ e # <<>>
  BY FrameBytes
<1>2. Len(Payload[f]) \in 0 .. 3
  BY FrameBytes
<1>3. Len(e) = 1 + Head(e) /\ ~ (Len(e) < 1 + Head(e))
  BY <1>1, <1>2
<1>4. SubSeq(e, 2, 1 + Head(e)) = Tail(e)
  <2>1. SubSeq(e, 2, Len(e)) = Tail(e)
    BY <1>1, SMTT(30)
  <2>2. QED
    BY <1>3, <2>1
<1>5. QED
  BY <1>1, <1>3, <1>4 DEF decode, read_frame

\* And it gives what the run checks.
LEMMA ControlPromises == ControlInv => ControlTypeOK /\ FramesInStep
<1> SUFFICES ASSUME ControlInv PROVE ControlTypeOK /\ FramesInStep
  OBVIOUS
<1>1. ControlTypeOK
  BY DEF ControlInv, ControlTypes, ControlTypeOK
<1>2. IsPrefix(handled, written)
  BY DEF ControlInv, StreamInv
<1>3. Count("HeartbeatAck", replies) + Count("torn", replies) >= Count("Heartbeat", SubSeq(handled, 2, Len(handled)))
  BY DEF ControlInv, BeatsInv, Acks, Beats
<1>4. \A i \in 1 .. Len(replies) - 1 : replies[i] \notin {"torn", "Shutdown"}
  BY DEF ControlInv, RepliesInv, Final
<1>5. QED
  BY <1>1, <1>2, <1>3, <1>4, ReadersAgree DEF ControlInv, EffectsInv, FramesInStep

-----------------------------------------------------------------------------
(* Numbers.  What a recursive definition computes is shown by induction    *)
(* over a set of naturals, from the well-foundedness of their order.       *)

\* A set of naturals that is not empty has a least member: the order of the
\* naturals is well founded.
LEMMA LeastNumber ==
  ASSUME NEW T, T \subseteq Nat, T # {}
  PROVE  \E m \in T : \A k \in T : m <= k
<1>1. PICK m \in T : \A k \in T : ~ (<<k, m>> \in OpToRel(<, Nat))
  BY WFMin, NatLessThanWellFounded, Zenon
<1>2. ASSUME NEW k \in T PROVE m <= k
  <2>1. k \in Nat /\ m \in Nat /\ <<k, m>> \in Nat \X Nat
    OBVIOUS
  <2>2. ~ (<<k, m>>[1] < <<k, m>>[2])
    BY <1>1, <2>1, Zenon DEF OpToRel
  <2>3. QED
    BY <2>1, <2>2
<1>3. QED
  BY <1>2

\* Min is that least member.
LEMMA MinIsLeast ==
  ASSUME NEW T, T \subseteq Nat, T # {}
  PROVE  Min(T) \in T /\ \A k \in T : Min(T) <= k
<1>1. \E m \in T : \A k \in T : m <= k
  BY LeastNumber
<1>2. QED
  BY <1>1 DEF Min

\* Induction over the naturals, about a set: the least number outside it would
\* follow one that is in it.
LEMMA Induct ==
  ASSUME NEW T, T \subseteq Nat, 0 \in T, \A n \in T : n + 1 \in T
  PROVE  T = Nat
<1>1. SUFFICES ASSUME Nat \ T # {} PROVE FALSE
  OBVIOUS
<1>2. PICK m \in Nat \ T : \A k \in Nat \ T : m <= k
  BY <1>1, LeastNumber
<1>3. m # 0 /\ m - 1 \in Nat
  BY <1>2
<1>4. m - 1 \in T
  BY <1>2, <1>3
<1>5. (m - 1) + 1 = m
  BY <1>2
<1>6. QED
  BY <1>2, <1>4, <1>5

\* f starts at base and goes on by G.
Iterates(f, S, base, G) ==
    f \in [Nat -> S] /\ f[0] = base /\ \A n \in Nat : f[n + 1] = G[<<n + 1, f[n]>>]

\* A recursion over the naturals defines a function: one that goes up to n
\* exists for every n, any two agree where both are defined.
LEMMA Recursion ==
  ASSUME NEW S, NEW base \in S, NEW G \in [Nat \X S -> S]
  PROVE  \E f : Iterates(f, S, base, G)
<1> DEFINE UpTo(n, g) == /\ g \in [0 .. n -> S] /\ g[0] = base
                         /\ \A k \in 0 .. n - 1 : g[k + 1] = G[<<k + 1, g[k]>>]
           T == {n \in Nat : \E g : UpTo(n, g)}
<1>1. 0 \in T
  <2>1. UpTo(0, [k \in 0 .. 0 |-> base])
    OBVIOUS
  <2>2. QED
    BY <2>1
<1>2. ASSUME NEW n \in T PROVE n + 1 \in T
  <2>1. PICK g : UpTo(n, g)
    OBVIOUS
  <2>2. PICK h : h = [k \in 0 .. n + 1 |-> IF k = n + 1 THEN G[<<n + 1, g[n]>>] ELSE g[k]]
    OBVIOUS
  <2>3. n \in Nat /\ g[n] \in S /\ <<n + 1, g[n]>> \in Nat \X S
    BY <2>1
  <2>4. h \in [0 .. n + 1 -> S]
    BY <2>1, <2>2, <2>3
  <2>5. h[0] = base
    BY <2>1, <2>2, <2>3
  <2>6. ASSUME NEW k \in 0 .. n PROVE h[k + 1] = G[<<k + 1, h[k]>>]
    <3>1. CASE k = n
      <4>1. n \in 0 .. n + 1 /\ n + 1 \in 0 .. n + 1 /\ n # n + 1
        BY <2>3
      <4>2. h[n + 1] = G[<<n + 1, g[n]>>] /\ h[n] = g[n]
        BY <4>1, <2>2
      <4>3. QED
        BY <3>1, <4>2, Zenon
    <3>2. CASE k # n
      <4>1. k \in 0 .. n - 1 /\ k + 1 \in 0 .. n + 1 /\ k \in 0 .. n + 1 /\ k # n + 1 /\ k + 1 # n + 1
        BY <3>2, <2>3
      <4>2. h[k + 1] = g[k + 1] /\ h[k] = g[k]
        BY <4>1, <2>2
      <4>3. QED
        BY <4>1, <4>2, <2>1
    <3>3. QED
      BY <3>1, <3>2
  <2>7. UpTo(n + 1, h)
    BY <2>3, <2>4, <2>5, <2>6
  <2>8. QED
    BY <2>3, <2>7
<1>3. T = Nat
  <2> HIDE DEF T
  <2>1. T \subseteq Nat
    BY DEF T
  <2>2. QED
    BY <1>1, <1>2, <2>1, Induct
<1>4. ASSUME NEW m \in Nat, NEW n \in Nat, NEW g, NEW h, UpTo(m, g), UpTo(n, h), m <= n
      PROVE  g[m] = h[m]
  <2> DEFINE U == {k \in Nat : k <= m => g[k] = h[k]}
  <2>1. 0 \in U
    BY <1>4
  <2>2. ASSUME NEW k \in U PROVE k + 1 \in U
    <3>1. CASE k + 1 <= m
      <4>1. k \in 0 .. m - 1 /\ k \in 0 .. n - 1
        BY <3>1, <1>4
      <4>2. g[k] = h[k]
        BY <3>1, <1>4
      <4>3. g[k + 1] = G[<<k + 1, g[k]>>] /\ h[k + 1] = G[<<k + 1, h[k]>>]
        BY <4>1, <1>4
      <4>4. QED
        BY <4>2, <4>3
    <3>2. CASE ~ (k + 1 <= m)
      BY <3>2
    <3>3. QED
      BY <3>1, <3>2
  <2>3. U = Nat
    <3> HIDE DEF U
    <3>1. U \subseteq Nat
      BY DEF U
    <3>2. QED
      BY <2>1, <2>2, <3>1, Induct
  <2>4. QED
    BY <2>3
<1>5. PICK W : W = [n \in Nat |-> CHOOSE g : UpTo(n, g)]
  OBVIOUS
<1>6. \A n \in Nat : UpTo(n, W[n])
  <2> SUFFICES ASSUME NEW n \in Nat PROVE UpTo(n, W[n])
    OBVIOUS
  <2>1. \E g : UpTo(n, g)
    BY <1>3
  <2>2. W[n] = CHOOSE g : UpTo(n, g)
    BY <1>5
  <2> HIDE DEF UpTo
  <2>3. QED
    BY <2>1, <2>2
<1>7. PICK f : f = [n \in Nat |-> W[n][n]]
  OBVIOUS
<1>8. f \in [Nat -> S] /\ f[0] = base
  <2>1. \A n \in Nat : W[n][n] \in S
    BY <1>6
  <2>2. QED
    BY <1>6, <1>7, <2>1
<1>9. ASSUME NEW n \in Nat PROVE f[n + 1] = G[<<n + 1, f[n]>>]
  <2>1. UpTo(n + 1, W[n + 1])
    BY <1>6
  <2>2. W[n + 1][n + 1] = G[<<n + 1, W[n + 1][n]>>]
    BY <2>1
  <2>3. W[n][n] = W[n + 1][n]
    <3>1. UpTo(n, W[n]) /\ n <= n + 1 /\ n + 1 \in Nat
      BY <1>6
    <3> HIDE DEF UpTo
    <3>2. QED
      BY <3>1, <2>1, <1>4
  <2>4. QED
    BY <2>2, <2>3, <1>7
<1>10. QED
  BY <1>8, <1>9 DEF Iterates

-----------------------------------------------------------------------------
(* Powers of two, quotients and remainders.                                *)

\* So the powers of two are what their recursive definition says.
LEMMA Pow2Def == /\ Pow2 \in [Nat -> Nat] /\ Pow2[0] = 1
                 /\ \A n \in Nat : Pow2[n + 1] = 2 * Pow2[n]
<1>1. PICK G : G = [a \in Nat \X Nat |-> 2 * a[2]]
  OBVIOUS
<1>2. G \in [Nat \X Nat -> Nat]
  BY <1>1
<1>3. PICK f \in [Nat -> Nat] : f[0] = 1 /\ \A n \in Nat : f[n + 1] = G[<<n + 1, f[n]>>]
  <2>1. 1 \in Nat
    OBVIOUS
  <2>2. \E f : Iterates(f, Nat, 1, G)
    BY <1>2, <2>1, Recursion
  <2>3. QED
    BY <1>2, <2>1, <2>2 DEF Iterates
<1>4. f = [n \in Nat |-> IF n = 0 THEN 1 ELSE 2 * f[n - 1]]
  <2>1. ASSUME NEW n \in Nat, n # 0 PROVE f[n] = 2 * f[n - 1]
    <3>1. n - 1 \in Nat /\ (n - 1) + 1 = n
      BY <2>1
    <3>2. f[n] = G[<<n, f[n - 1]>>]
      BY <3>1, <1>3
    <3>3. <<n, f[n - 1]>> \in Nat \X Nat
      BY <3>1
    <3>4. QED
      BY <3>2, <3>3, <1>1
  <2>2. QED
    BY <2>1, <1>3
<1>5. Pow2 = [n \in Nat |-> IF n = 0 THEN 1 ELSE 2 * Pow2[n - 1]]
  BY <1>4, Zenon DEF Pow2
<1>6. PICK p : p = Pow2
  OBVIOUS
<1>7. p[0] = 1 /\ \A n \in Nat : p[n + 1] = 2 * p[n]
  BY <1>5, <1>6
<1>8. \A n \in Nat : p[n] \in Nat
  <2> DEFINE T == {n \in Nat : p[n] \in Nat}
  <2>1. 0 \in T
    BY <1>7
  <2>2. \A n \in T : n + 1 \in T
    BY <1>7
  <2>3. T = Nat
    <3> HIDE DEF T
    <3>1. T \subseteq Nat
      BY DEF T
    <3>2. QED
      BY <2>1, <2>2, <3>1, Induct
  <2>4. QED
    BY <2>3
<1>9. p = [n \in Nat |-> p[n]]
  BY <1>5, <1>6
<1>10. QED
  BY <1>6, <1>7, <1>8, <1>9

\* A power of two is at least 1.
LEMMA Pow2Positive == \A n \in Nat : Pow2[n] \in Nat /\ Pow2[n] >= 1
<1> DEFINE T == {n \in Nat : Pow2[n] >= 1}
<1>1. 0 \in T
  BY Pow2Def
<1>2. ASSUME NEW n \in T PROVE n + 1 \in T
  BY Pow2Def
<1>3. T = Nat
  <2> HIDE DEF T
  <2>1. T \subseteq Nat
    BY DEF T
  <2>2. QED
    BY <1>1, <1>2, <2>1, Induct
<1>4. QED
  BY <1>3, Pow2Def

\* Bits add up as powers multiply.
LEMMA Pow2Sum == \A a, b \in Nat : Pow2[a + b] = Pow2[a] * Pow2[b]
<1> SUFFICES ASSUME NEW a \in Nat PROVE \A b \in Nat : Pow2[a + b] = Pow2[a] * Pow2[b]
  OBVIOUS
<1> DEFINE T == {b \in Nat : Pow2[a + b] = Pow2[a] * Pow2[b]}
<1>1. 0 \in T
  BY Pow2Def
<1>2. ASSUME NEW n \in T PROVE n + 1 \in T
  <2>1. a + (n + 1) = (a + n) + 1 /\ a + n \in Nat
    OBVIOUS
  <2>2. Pow2[a + (n + 1)] = 2 * Pow2[a + n] /\ Pow2[n + 1] = 2 * Pow2[n]
    BY <2>1, Pow2Def
  <2>3. PICK x \in Nat, y \in Nat : x = Pow2[a] /\ y = Pow2[n]
    BY Pow2Def
  <2>4. 2 * (x * y) = x * (2 * y)
    OBVIOUS
  <2>5. QED
    BY <2>2, <2>3, <2>4
<1>3. T = Nat
  <2> HIDE DEF T
  <2>1. T \subseteq Nat
    BY DEF T
  <2>2. QED
    BY <1>1, <1>2, <2>1, Induct
<1>4. QED
  BY <1>3

\* Quotient and remainder are the only ones.
LEMMA DivIs ==
  ASSUME NEW u \in Nat, NEW h \in Nat, h >= 1, NEW q \in Nat, NEW r \in Nat, r < h, u = h * q + r
  PROVE  u \div h = q /\ u % h = r
OBVIOUS

\* Every number has a quotient and a remainder.
LEMMA DivModOf ==
  ASSUME NEW u \in Nat, NEW h \in Nat, h >= 1
  PROVE  \E q, r \in Nat : r < h /\ u = h * q + r
<1>1. PICK q, r : q = u \div h /\ r = u % h
  OBVIOUS
<1>2. q \in Nat /\ r \in Nat /\ r < h
  BY <1>1
<1>3. u = h * q + r
  BY <1>1, SMTT(30)
<1>4. QED
  BY <1>2, <1>3

\* A quotient is a number.
LEMMA DivNat ==
  ASSUME NEW u \in Nat, NEW h \in Nat, h >= 1
  PROVE  u \div h \in Nat
<1>1. PICK q, r \in Nat : r < h /\ u = h * q + r
  BY DivModOf
<1>2. QED
  BY <1>1, DivIs

\* Multiplication is monotone.
LEMMA TimesMonotone == \A b, x, y \in Nat : x <= y => b * x <= b * y
OBVIOUS

\* It distributes over a sum.
LEMMA Distributes == \A h, a, b \in Nat : h * (a + b) = h * a + h * b
OBVIOUS

\* It is associative.
LEMMA Associates == \A h, a, b \in Nat : h * (a * b) = (h * a) * b
OBVIOUS

\* Dropping the bits of h and then those of k drops those of both.
LEMMA DivOfDiv ==
  ASSUME NEW u \in Nat, NEW h \in Nat, h >= 1, NEW k \in Nat, k >= 1
  PROVE  u \div (h * k) = (u \div h) \div k
<1>1. PICK q, r \in Nat : r < h /\ u = h * q + r
  BY DivModOf
<1>2. PICK p, s \in Nat : s < k /\ q = k * p + s
  BY DivModOf
<1>3. PICK d \in Nat : d = h * k
  OBVIOUS
<1>4. PICK z \in Nat : z = h * s + r
  OBVIOUS
<1>5. z < d
  <2>1. s + 1 <= k /\ s + 1 \in Nat
    BY <1>2
  <2>2. h * (s + 1) <= h * k
    BY <2>1, TimesMonotone
  <2>3. h * (s + 1) = h * s + h
    BY Distributes
  <2>4. PICK hs \in Nat : hs = h * s
    OBVIOUS
  <2>5. QED
    BY <2>2, <2>3, <2>4, <1>1, <1>3, <1>4
<1>6. u = d * p + z
  <2>1. h * q = h * (k * p) + h * s
    BY <1>2, Distributes
  <2>2. h * (k * p) = d * p
    BY <1>3, Associates
  <2>3. PICK x, y \in Nat : x = d * p /\ y = h * s
    OBVIOUS
  <2>4. QED
    BY <2>1, <2>2, <2>3, <1>1, <1>4
<1>7. d >= 1
  <2>1. h * 1 <= h * k
    BY TimesMonotone
  <2>2. h * 1 = h
    OBVIOUS
  <2>3. QED
    BY <2>1, <2>2, <1>3
<1>8. u \div d = p
  BY <1>5, <1>6, <1>7, DivIs
<1>9. u \div h = q /\ q \div k = p
  BY <1>1, <1>2, DivIs
<1>10. QED
  BY <1>3, <1>8, <1>9

\* Dropping the bits of h from a sum with a multiple of h.
LEMMA DivOfSum ==
  ASSUME NEW h \in Nat, h >= 1, NEW k \in Nat, NEW a \in Nat
  PROVE  (h * k + a) \div h = k + (a \div h)
<1>1. PICK q, r \in Nat : r < h /\ a = h * q + r
  BY DivModOf
<1>2. h * (k + q) = h * k + h * q
  BY Distributes
<1>3. PICK x, y, z \in Nat : x = h * k /\ y = h * q /\ z = h * (k + q)
  OBVIOUS
<1>4. h * k + a = h * (k + q) + r
  BY <1>1, <1>2, <1>3
<1>5. h * k + a \in Nat /\ k + q \in Nat
  BY <1>3
<1>6. (h * k + a) \div h = k + q
  BY <1>1, <1>4, <1>5, DivIs
<1>7. a \div h = q
  BY <1>1, DivIs
<1>8. QED
  BY <1>6, <1>7

-----------------------------------------------------------------------------
(* Access control: a rule and a host, however each is written.             *)

\* An address of the mapped block: its block, and the address within it.
LEMMA BlockOf ==
  ASSUME NEW a \in Nat, a < Pow2[V4Bits]
  PROVE  /\ Pow2[V4Bits] \in Nat /\ Pow2[V4Bits] >= 1
         /\ (Pow2[V4Bits] + a) \div Pow2[V4Bits] = 1
         /\ (Pow2[V4Bits] + a) % Pow2[V4Bits] = a
<1>1. V4Bits \in Nat
  BY RulesAssumption
<1>2. PICK p \in Nat : p = Pow2[V4Bits] /\ p >= 1
  BY <1>1, Pow2Positive
<1>3. p + a = p * 1 + a /\ p + a \in Nat
  BY <1>2
<1>4. (p + a) \div p = 1 /\ (p + a) % p = a
  BY <1>2, <1>3, DivIs
<1>5. QED
  BY <1>2, <1>4

\* The two spellings of an IPv4 host are one host (to_canonical), in the datagram
\* header too (from_socket_addr, socket_addr).
LEMMA TwinIsHost ==
  ASSUME NEW x \in Addresses(4)
  PROVE  /\ to_canonical(x) = x /\ to_canonical(Twin(x)) = x
         /\ \A y \in {x, Twin(x)} : socket_addr(from_socket_addr(y)) = x
<1>1. PICK a \in Nat : a < Pow2[V4Bits] /\ x = [fam |-> 4, addr |-> a]
  <2>1. V4Bits \in Nat
    BY RulesAssumption
  <2>2. Pow2[V4Bits] \in Nat
    BY <2>1, Pow2Positive
  <2>3. QED
    BY <2>2 DEF Addresses, Bits
<1>2. PICK p \in Nat : p = Pow2[V4Bits] /\ (p + a) \div p = 1 /\ (p + a) % p = a
  BY <1>1, BlockOf
<1>3. Twin(x) = [fam |-> 6, addr |-> p + a]
  BY <1>1, <1>2 DEF Twin
<1>4. to_canonical([fam |-> 6, addr |-> p + a]) = x
  BY <1>1, <1>2 DEF to_canonical, Mapped
<1>5. to_canonical(x) = x
  BY <1>1 DEF to_canonical, Mapped
<1>6. from_socket_addr(x) = p + a
  BY <1>1, <1>2 DEF from_socket_addr
<1>7. from_socket_addr(Twin(x)) = p + a
  BY <1>3 DEF from_socket_addr
<1>8. socket_addr(p + a) = x
  BY <1>4 DEF socket_addr
<1>9. QED
  BY <1>3, <1>4, <1>5, <1>6, <1>7, <1>8

\* A rule inside the mapped block leaves as many host bits as its IPv4 form.
LEMMA HostBits ==
  ASSUME NEW len \in Nat, len >= BlockBits, len <= BlockBits + V4Bits
  PROVE  /\ V4Bits - (len - BlockBits) = (BlockBits + V4Bits) - len
         /\ \E h, k \in Nat : /\ h = Pow2[(BlockBits + V4Bits) - len] /\ h >= 1 /\ k >= 1
                              /\ Pow2[V4Bits] = h * k
<1>1. V4Bits \in Nat /\ BlockBits \in Nat
  BY RulesAssumption
<1>2. PICK m, n \in Nat : m = (BlockBits + V4Bits) - len /\ n = len - BlockBits
  BY <1>1
<1>3. V4Bits = m + n
  BY <1>1, <1>2
<1>4. Pow2[m + n] = Pow2[m] * Pow2[n]
  BY Pow2Sum
<1>5. Pow2[m] \in Nat /\ Pow2[m] >= 1 /\ Pow2[n] \in Nat /\ Pow2[n] >= 1
  BY Pow2Positive
<1>6. QED
  BY <1>1, <1>2, <1>3, <1>4, <1>5

\* A rule that is no wider than the mapped block holds the mapped spelling of a
\* host only when it lies in the block, and then its IPv4 form holds the host.
LEMMA RuleOfBlock ==
  ASSUME NEW net \in Nets(6), NEW x \in Addresses(4), net.len >= BlockBits
  PROVE  /\ NetContains(net, Twin(x)) => Mapped(net.fam, net.addr)
         /\ Mapped(net.fam, net.addr) =>
              (NetContains(net, Twin(x)) <=> NetContains(canonicalize_net(net), x))
<1>0. V4Bits \in Nat /\ BlockBits \in Nat
  BY RulesAssumption
<1>1. PICK a \in Nat : a < Pow2[V4Bits] /\ x = [fam |-> 4, addr |-> a]
  <2>2. Pow2[V4Bits] \in Nat
    BY <1>0, Pow2Positive
  <2>3. QED
    BY <2>2 DEF Addresses, Bits
<1>2. PICK b \in Nat, len \in Nat : net = [fam |-> 6, addr |-> b, len |-> len] /\ len <= BlockBits + V4Bits /\ len >= BlockBits
  <2>1. BlockBits + V4Bits \in Nat
    BY <1>0
  <2>2. Pow2[BlockBits + V4Bits] \in Nat
    BY <2>1, Pow2Positive
  <2>3. QED
    BY <1>0, <2>1, <2>2 DEF Nets, Bits
<1>3. PICK p \in Nat : p = Pow2[V4Bits] /\ p >= 1 /\ (p + a) \div p = 1 /\ (p + a) % p = a
  BY <1>1, BlockOf
<1>4. PICK h, k \in Nat : h = Pow2[(BlockBits + V4Bits) - len] /\ h >= 1 /\ k >= 1 /\ p = h * k
  BY <1>2, <1>3, HostBits
<1>5. NetContains(net, Twin(x)) <=> b \div h = (p + a) \div h
  BY <1>1, <1>2, <1>3, <1>4 DEF NetContains, Twin, Bits
<1>6. Mapped(net.fam, net.addr) <=> b \div p = 1
  BY <1>2, <1>3 DEF Mapped
<1>7. b \div p = (b \div h) \div k /\ (p + a) \div p = ((p + a) \div h) \div k
  BY <1>4, DivOfDiv
<1>8. NetContains(net, Twin(x)) => Mapped(net.fam, net.addr)
  BY <1>3, <1>5, <1>6, <1>7
<1>9. ASSUME Mapped(net.fam, net.addr)
      PROVE  NetContains(net, Twin(x)) <=> NetContains(canonicalize_net(net), x)
  <2>1. b \div p = 1
    BY <1>6, <1>9
  <2>2. PICK q, r \in Nat : r < p /\ b = p * q + r
    BY <1>3, DivModOf
  <2>3. b \div p = q /\ b % p = r
    BY <1>3, <2>2, DivIs
  <2>4. b = h * k + r
    <3>1. p * 1 = p
      OBVIOUS
    <3>2. QED
      BY <3>1, <2>1, <2>2, <2>3, <1>4
  <2>5. b \div h = k + (r \div h)
    <3>1. (h * k + r) \div h = k + (r \div h)
      BY <1>4, DivOfSum
    <3>2. QED
      BY <3>1, <2>4, Zenon
  <2>6. (p + a) \div h = k + (a \div h)
    <3>1. (h * k + a) \div h = k + (a \div h)
      BY <1>4, DivOfSum
    <3>2. QED
      BY <3>1, <1>4, Zenon
  <2>7. canonicalize_net(net) = [fam |-> 4, addr |-> r, len |-> len - BlockBits]
    BY <1>2, <1>3, <1>9, <2>3 DEF canonicalize_net
  <2>8. Pow2[V4Bits - (len - BlockBits)] = h
    BY <1>2, <1>4, HostBits
  <2>9. NetContains(canonicalize_net(net), x) <=> r \div h = a \div h
    BY <2>7, <2>8, <1>1 DEF NetContains, Bits
  <2>10. r \div h \in Nat /\ a \div h \in Nat
    BY <1>4, DivNat
  <2>11. QED
    BY <1>5, <2>5, <2>6, <2>9, <2>10
<1>10. QED
  BY <1>8, <1>9

\* So a rule, as it is kept, holds the hosts that it denotes as written
\* (canonicalize_net), for address families and prefixes of any width.
THEOREM RuleDenotes ==
  ASSUME NEW net \in Nets(4) \cup Nets(6), NEW x \in Addresses(4)
  PROVE  NetContains(canonicalize_net(net), x) <=> Denotes(net, x)
<1>1. x.fam = 4
  BY DEF Addresses
<1>2. CASE net \in Nets(4)
  <2>1. net.fam = 4
    BY <1>2 DEF Nets
  <2>2. QED
    BY <2>1 DEF canonicalize_net, Mapped, Denotes
<1>3. CASE net \in Nets(6)
  <2>1. net.fam = 6
    BY <1>3 DEF Nets
  <2>2. ~ NetContains(net, x)
    BY <1>1, <2>1 DEF NetContains
  <2>3. CASE net.len >= BlockBits /\ Mapped(net.fam, net.addr)
    BY <1>3, <2>1, <2>2, <2>3, RuleOfBlock DEF Denotes
  <2>4. CASE net.len >= BlockBits /\ ~ Mapped(net.fam, net.addr)
    <3>1. canonicalize_net(net) = net
      BY <2>4 DEF canonicalize_net
    <3>2. QED
      BY <3>1, <1>3, <2>1, <2>2, <2>4, RuleOfBlock DEF Denotes
  <2>5. CASE ~ (net.len >= BlockBits)
    <3>1. canonicalize_net(net) = net
      BY <2>5 DEF canonicalize_net
    <3>2. QED
      BY <3>1, <2>2, <2>5 DEF Denotes
  <2>6. QED
    BY <2>3, <2>4, <2>5
<1>4. QED
  BY <1>2, <1>3

\* The questions about access control.
AccessAsked == \E allow, deny \in Lists : question = [of |-> "access", acl |-> [allow |-> allow, deny |-> deny]]

\* Access control decides by host, however the peer's address is spelt.
LEMMA AccessAnswer == AccessAsked => OneHost
<1> SUFFICES ASSUME AccessAsked, NEW x \in Addresses(4)
             PROVE  LET In(nets) == \E net \in nets : Denotes(net, x)
                    IN  /\ check(question.acl, x) <=> ~ In(question.acl.deny) /\ (question.acl.allow = {} \/ In(question.acl.allow))
                        /\ check(question.acl, Twin(x)) <=> check(question.acl, x)
                        /\ to_canonical(Twin(x)) = x
                        /\ \A y \in {x, Twin(x)} : socket_addr(from_socket_addr(y)) = x
  BY Zenon DEF OneHost
<1> DEFINE In(nets) == \E net \in nets : Denotes(net, x)
           Member(nets) == \E net \in nets : NetContains(canonicalize_net(net), x)
<1>1. PICK acl : acl = question.acl
  OBVIOUS
<1>2. acl.allow \subseteq Nets(4) \cup Nets(6) /\ acl.deny \subseteq Nets(4) \cup Nets(6)
  BY <1>1 DEF AccessAsked, Lists
<1>3. Member(acl.allow) <=> In(acl.allow)
  BY <1>2, RuleDenotes, Zenon
<1>4. Member(acl.deny) <=> In(acl.deny)
  BY <1>2, RuleDenotes, Zenon
<1>5. to_canonical(x) = x /\ to_canonical(Twin(x)) = x
  BY TwinIsHost
<1>6. check(acl, x) <=> ~ Member(acl.deny) /\ (acl.allow = {} \/ Member(acl.allow))
  BY <1>5, Zenon DEF check
<1>7. check(acl, Twin(x)) <=> ~ Member(acl.deny) /\ (acl.allow = {} \/ Member(acl.allow))
  BY <1>5, Zenon DEF check
<1>8. QED
  BY <1>1, <1>3, <1>4, <1>5, <1>6, <1>7, TwinIsHost

-----------------------------------------------------------------------------
(* The balancer: the scan over a pool.                                     *)

\* The same up to N.
IteratesUpTo(N, f, S, base, G) ==
    f \in [0 .. N -> S] /\ f[0] = base /\ \A n \in 1 .. N : f[n] = G[<<n, f[n - 1]>>]

\* A recursion up to a bound.
LEMMA BoundedRecursion ==
  ASSUME NEW N \in Nat, NEW S, NEW base \in S, NEW G \in [(1 .. N) \X S -> S]
  PROVE  \E f : IteratesUpTo(N, f, S, base, G)
<1>1. PICK H : H = [a \in Nat \X S |-> IF a[1] \in 1 .. N THEN G[a] ELSE a[2]]
  OBVIOUS
<1>2. H \in [Nat \X S -> S]
  BY <1>1
<1>3. PICK f : Iterates(f, S, base, H)
  BY <1>2, Recursion
<1>4. PICK g : g = [n \in 0 .. N |-> f[n]]
  OBVIOUS
<1>5. g \in [0 .. N -> S] /\ g[0] = base
  BY <1>3, <1>4 DEF Iterates
<1>6. ASSUME NEW n \in 1 .. N PROVE g[n] = G[<<n, g[n - 1]>>]
  <2>1. n - 1 \in Nat /\ n \in Nat /\ (n - 1) + 1 = n /\ n - 1 \in 0 .. N /\ n \in 0 .. N
    OBVIOUS
  <2>2. f[n] = H[<<n, f[n - 1]>>]
    BY <2>1, <1>3 DEF Iterates
  <2>3. f[n - 1] \in S
    BY <2>1, <1>3 DEF Iterates
  <2>4. H[<<n, f[n - 1]>>] = G[<<n, f[n - 1]>>]
    BY <2>1, <2>3, <1>1
  <2>5. QED
    BY <2>1, <2>2, <2>4, <1>4
<1>7. QED
  BY <1>5, <1>6 DEF IteratesUpTo

\* One step of the scan.
Better(pool, excluded, n, b) ==
    IF scored_weight(pool[n]) <= 0 \/ n \in excluded THEN b
    ELSE IF b = 0 \/ Outscores(pool[n], pool[b]) THEN n ELSE b

\* The scan over a pool is what its recursive definition says.
LEMMA ScanDef ==
  ASSUME NEW pool, Len(pool) \in Nat, NEW excluded
  PROVE  /\ \A n \in 0 .. Len(pool) : Scan(pool, excluded)[n] \in 0 .. Len(pool)
         /\ Scan(pool, excluded)[0] = 0
         /\ \A n \in 1 .. Len(pool) :
              Scan(pool, excluded)[n] = Better(pool, excluded, n, Scan(pool, excluded)[n - 1])
<1>1. PICK N \in Nat : N = Len(pool)
  OBVIOUS
<1>2. PICK G : G = [a \in (1 .. N) \X (0 .. N) |-> Better(pool, excluded, a[1], a[2])]
  OBVIOUS
<1>3. G \in [(1 .. N) \X (0 .. N) -> 0 .. N]
  BY <1>2 DEF Better
<1>4. PICK f : IteratesUpTo(N, f, 0 .. N, 0, G)
  <2>1. 0 \in 0 .. N
    OBVIOUS
  <2>2. QED
    BY <1>3, <2>1, BoundedRecursion
<1>5. ASSUME NEW n \in 1 .. N PROVE f[n] = Better(pool, excluded, n, f[n - 1])
  <2>1. n - 1 \in 0 .. N
    OBVIOUS
  <2>2. f[n - 1] \in 0 .. N
    BY <2>1, <1>4 DEF IteratesUpTo
  <2>3. QED
    BY <2>2, <1>2, <1>4 DEF IteratesUpTo
<1>6. f = [n \in 0 .. Len(pool) |-> IF n = 0 THEN 0 ELSE Better(pool, excluded, n, f[n - 1])]
  <2>1. f = [n \in 0 .. N |-> f[n]] /\ f[0] = 0
    BY <1>4 DEF IteratesUpTo
  <2>2. \A n \in 0 .. N : f[n] = IF n = 0 THEN 0 ELSE Better(pool, excluded, n, f[n - 1])
    BY <1>5, <2>1
  <2>3. QED
    BY <1>1, <2>1, <2>2
<1>7. Scan(pool, excluded) = CHOOSE g : g = [n \in 0 .. Len(pool) |-> IF n = 0 THEN 0 ELSE Better(pool, excluded, n, g[n - 1])]
  BY Zenon DEF Scan, Better
<1>8. PICK s : s = Scan(pool, excluded)
  OBVIOUS
<1>9. s = [n \in 0 .. Len(pool) |-> IF n = 0 THEN 0 ELSE Better(pool, excluded, n, s[n - 1])]
  BY <1>6, <1>7, <1>8, Zenon
<1>10. s[0] = 0 /\ \A n \in 1 .. N : s[n] = Better(pool, excluded, n, s[n - 1])
  BY <1>1, <1>9
<1>11. \A n \in Nat : n <= N => s[n] \in 0 .. N
  <2> DEFINE T == {n \in Nat : n <= N => s[n] \in 0 .. N}
  <2>1. 0 \in T
    BY <1>10
  <2>2. ASSUME NEW n \in T PROVE n + 1 \in T
    <3>1. CASE n + 1 <= N
      <4>1. n + 1 \in 1 .. N /\ (n + 1) - 1 = n /\ s[n] \in 0 .. N
        BY <3>1
      <4>2. s[n + 1] = Better(pool, excluded, n + 1, s[n])
        BY <4>1, <1>10
      <4>3. s[n + 1] \in {s[n], n + 1}
        BY <4>2 DEF Better
      <4>4. QED
        BY <4>1, <4>3
    <3>2. QED
      BY <3>1
  <2>3. T = Nat
    <3> HIDE DEF T
    <3>1. T \subseteq Nat
      BY DEF T
    <3>2. QED
      BY <2>1, <2>2, <3>1, Induct
  <2>4. QED
    BY <2>3
<1>12. \A n \in 0 .. N : s[n] \in 0 .. N
  BY <1>11
<1>13. QED
  BY <1>1, <1>8, <1>10, <1>12, Zenon

\* Cross-multiplied scores are ordered as the quotients would be.
LEMMA ScoresOrdered ==
  ASSUME NEW wa \in Nat, NEW wb \in Nat, NEW wc \in Nat, NEW da \in Nat, NEW db \in Nat, NEW dc \in Nat,
         wa * db > wb * da, wb * dc >= wc * db, db >= 1, dc >= 1
  PROVE  wa * dc > wc * da
<1>1. PICK x, y, z, w \in Nat : x = wa * db /\ y = wb * da /\ z = wb * dc /\ w = wc * db
  OBVIOUS
<1>2. x >= y + 1 /\ z >= w
  BY <1>1
<1>3. dc * (y + 1) <= dc * x
  BY <1>2, TimesMonotone
<1>4. da * w <= da * z
  BY <1>2, TimesMonotone
<1>5. dc * (y + 1) = dc * y + dc
  BY Distributes
<1>6. dc * y = da * z
  BY <1>1
<1>7. da * w = db * (wc * da)
  BY <1>1
<1>8. dc * x = db * (wa * dc)
  BY <1>1
<1>9. PICK p, q \in Nat : p = wa * dc /\ q = wc * da
  OBVIOUS
<1>10. PICK dp, dq, dy, dx \in Nat : dp = db * p /\ dq = db * q /\ dy = dc * y /\ dx = dc * x
  OBVIOUS
<1>11. dp > dq
  BY <1>3, <1>4, <1>5, <1>6, <1>7, <1>8, <1>9, <1>10
<1>12. p > q
  <2>1. p <= q => db * p <= db * q
    BY TimesMonotone
  <2>2. QED
    BY <2>1, <1>11, <1>10
<1>13. QED
  BY <1>12, <1>9

\* Any backend of a pool: weights and distances are numbers of any size.
Members == [weight : Nat, report : {"none", "offline", "fresh"}, left : 0 .. 2, pressure : 0 .. 2, distance : Nat]

\* Scores are numbers.
LEMMA ScoreType ==
  ASSUME NEW b \in Members
  PROVE  scored_weight(b) \in Nat /\ b.distance \in Nat
<1>1. PICK w, f, p \in Nat : w = b.weight /\ f = weight_factor(b) /\ p = 2 - b.pressure
  BY DEF Members, weight_factor
<1>2. w * f \in Nat
  OBVIOUS
<1>3. (w * f) * p \in Nat
  BY <1>2
<1>4. scored_weight(b) = (w * f) * p
  BY <1>1 DEF scored_weight
<1>5. QED
  BY <1>3, <1>4 DEF Members

\* No two backends outscore each other.
LEMMA OutscoresAsymmetric ==
  ASSUME NEW a \in Members, NEW b \in Members, Outscores(a, b)
  PROVE  ~ Outscores(b, a)
<1>1. PICK wa, wb, da, db \in Nat : wa = scored_weight(a) /\ wb = scored_weight(b) /\ da = a.distance /\ db = b.distance
  BY ScoreType
<1>2. PICK x, y \in Nat : x = wa * db /\ y = wb * da
  OBVIOUS
<1>3. QED
  BY <1>1, <1>2 DEF Outscores

\* A backend that beats the best so far beats whoever did not.
LEMMA OutscoresOrdered ==
  ASSUME NEW a \in Members, NEW b \in Members, NEW c \in Members, Outscores(a, b), ~ Outscores(c, b)
  PROVE  Outscores(a, c)
<1>1. PICK wa, wb, wc, da, db, dc \in Nat :
           /\ wa = scored_weight(a) /\ wb = scored_weight(b) /\ wc = scored_weight(c)
           /\ da = a.distance /\ db = b.distance /\ dc = c.distance
  BY ScoreType
<1>2. da # 0 /\ (db # 0 => wa * db > wb * da)
  BY <1>1 DEF Outscores
<1>3. dc = 0 \/ (db # 0 /\ ~ (wc * db > wb * dc))
  BY <1>1 DEF Outscores
<1>4. ASSUME dc # 0 PROVE wa * dc > wc * da
  <2>1. PICK x, y \in Nat : x = wc * db /\ y = wb * dc
    OBVIOUS
  <2>2. wb * dc >= wc * db
    BY <1>3, <1>4, <2>1
  <2>3. db >= 1 /\ dc >= 1
    BY <1>3, <1>4
  <2>4. QED
    BY <1>2, <2>2, <2>3, ScoresOrdered
<1>5. QED
  BY <1>1, <1>2, <1>4 DEF Outscores

\* The backends that may be selected, and the best of a set of them: it beats the
\* earlier ones and no later one beats it.
Eligible(pool, excluded) == {i \in 1 .. Len(pool) : scored_weight(pool[i]) > 0} \ excluded
IsBest(pool, E, b) ==
    IF E = {} THEN b = 0
    ELSE /\ b \in E
         /\ \A j \in E : /\ j < b => Outscores(pool[b], pool[j])
                         /\ j > b => ~ Outscores(pool[j], pool[b])

\* One more backend: the best of all is it, or the best so far.
LEMMA BestOfMore ==
  ASSUME NEW pool \in Seq(Members), NEW n \in 1 .. Len(pool), NEW E, E \subseteq 1 .. n - 1, NEW b, IsBest(pool, E, b)
  PROVE  IsBest(pool, E \cup {n}, IF b = 0 \/ Outscores(pool[n], pool[b]) THEN n ELSE b)
<1>1. CASE E = {}
  <2>1. b = 0 /\ E \cup {n} = {n}
    BY <1>1 DEF IsBest
  <2>2. QED
    BY <2>1 DEF IsBest
<1>2. CASE E # {}
  <2>1. b \in E /\ b \in 1 .. n - 1 /\ b # 0 /\ n \notin E /\ b < n
    <3>1. b \in E
      BY <1>2 DEF IsBest
    <3>2. n \in Nat /\ n \notin 1 .. n - 1
      OBVIOUS
    <3>3. QED
      BY <3>1, <3>2
  <2>2. \A j \in E : (j < b => Outscores(pool[b], pool[j])) /\ (j > b => ~ Outscores(pool[j], pool[b]))
    BY <1>2 DEF IsBest
  <2>3. \A j \in 1 .. n : pool[j] \in Members
    OBVIOUS
  <2>4. \A j \in E : j \in 1 .. n /\ j < n
    OBVIOUS
  <2>5. CASE Outscores(pool[n], pool[b])
    <3>1. ASSUME NEW j \in E PROVE Outscores(pool[n], pool[j])
      <4>1. pool[j] \in Members /\ pool[n] \in Members /\ pool[b] \in Members /\ j \in Nat /\ b \in Nat
        BY <2>1, <2>3, <2>4
      <4>2. CASE j = b
        BY <2>5, <4>2
      <4>3. CASE j # b
        <5>1. ~ Outscores(pool[j], pool[b])
          BY <2>2, <4>1, <4>3, OutscoresAsymmetric
        <5>2. QED
          BY <5>1, <2>5, <4>1, OutscoresOrdered
      <4>4. QED
        BY <4>2, <4>3
    <3>2. IsBest(pool, E \cup {n}, n)
      BY <3>1, <2>4 DEF IsBest
    <3>3. QED
      BY <3>2, <2>5
  <2>6. CASE ~ Outscores(pool[n], pool[b])
    <3>1. IsBest(pool, E \cup {n}, b)
      BY <2>1, <2>2, <2>4, <2>6 DEF IsBest
    <3>2. QED
      BY <3>1, <2>1, <2>6
  <2>7. QED
    BY <2>5, <2>6
<1>3. QED
  BY <1>1, <1>2

\* select_with_pressure_excluding takes the best eligible backend, the first of
\* those with the highest score; there is one unless none is eligible.
LEMMA SelectedIsBest ==
  ASSUME NEW pool \in Seq(Members), NEW excluded
  PROVE  IsBest(pool, Eligible(pool, excluded), select_with_pressure_excluding(pool, excluded))
<1>1. PICK N \in Nat : N = Len(pool)
  BY LenProperties
<1>2. PICK s : s = Scan(pool, excluded)
  OBVIOUS
<1>3. PICK E : E = Eligible(pool, excluded)
  OBVIOUS
<1>4. E \subseteq 1 .. N
  BY <1>1, <1>3 DEF Eligible
<1>5. s[0] = 0 /\ \A n \in 1 .. N : s[n] = Better(pool, excluded, n, s[n - 1])
  BY <1>1, <1>2, ScanDef
<1> DEFINE T == {n \in Nat : n <= N => IsBest(pool, E \cap (1 .. n), s[n])}
<1>6. 0 \in T
  BY <1>5 DEF IsBest
<1>7. ASSUME NEW n \in T PROVE n + 1 \in T
  <2>1. CASE n + 1 <= N
    <3>1. n \in Nat /\ n + 1 \in 1 .. N /\ (n + 1) - 1 = n /\ IsBest(pool, E \cap (1 .. n), s[n])
      BY <2>1
    <3>2. s[n + 1] = Better(pool, excluded, n + 1, s[n])
      BY <3>1, <1>5
    <3>3. CASE n + 1 \in E
      <4>1. s[n + 1] = IF s[n] = 0 \/ Outscores(pool[n + 1], pool[s[n]]) THEN n + 1 ELSE s[n]
        <5>1. ~ (scored_weight(pool[n + 1]) <= 0) /\ n + 1 \notin excluded
          <6>1. scored_weight(pool[n + 1]) \in Nat
            BY <1>1, <3>1, ScoreType
          <6>2. QED
            BY <6>1, <3>3, <1>3 DEF Eligible
        <5>2. QED
          BY <5>1, <3>2 DEF Better
      <4>2. E \cap (1 .. n + 1) = (E \cap (1 .. n)) \cup {n + 1}
        BY <3>1, <3>3
      <4>3. E \cap (1 .. n) \subseteq 1 .. (n + 1) - 1
        BY <3>1
      <4>4. IsBest(pool, (E \cap (1 .. n)) \cup {n + 1}, s[n + 1])
        BY <3>1, <4>1, <4>3, <1>1, BestOfMore
      <4>5. IsBest(pool, E \cap (1 .. n + 1), s[n + 1])
        BY <4>2, <4>4, Zenon
      <4>6. QED
        BY <3>1, <4>5
    <3>4. CASE n + 1 \notin E
      <4>1. s[n + 1] = s[n]
        <5>1. scored_weight(pool[n + 1]) <= 0 \/ n + 1 \in excluded
          <6>1. scored_weight(pool[n + 1]) \in Nat
            BY <1>1, <3>1, ScoreType
          <6>2. QED
            BY <6>1, <3>1, <3>4, <1>1, <1>3 DEF Eligible
        <5>2. QED
          BY <5>1, <3>2 DEF Better
      <4>2. E \cap (1 .. n + 1) = E \cap (1 .. n)
        BY <3>1, <3>4
      <4>3. IsBest(pool, E \cap (1 .. n + 1), s[n + 1])
        BY <3>1, <4>1, <4>2, Zenon
      <4>4. QED
        BY <3>1, <4>3
    <3>5. QED
      BY <3>3, <3>4
  <2>2. QED
    BY <2>1
<1>8. T = Nat
  <2> HIDE DEF T
  <2>1. T \subseteq Nat
    BY DEF T
  <2>2. QED
    BY <1>6, <1>7, <2>1, Induct
<1>9. IsBest(pool, E \cap (1 .. N), s[N])
  <2>1. N \in T
    <3> HIDE DEF T
    <3>1. QED
      BY <1>8
  <2>2. N <= N
    OBVIOUS
  <2>3. QED
    BY <2>1, <2>2
<1>10. E \cap (1 .. N) = E
  BY <1>4
<1>11. QED
  BY <1>1, <1>2, <1>3, <1>9, <1>10 DEF select_with_pressure_excluding

\* There is one best backend.
LEMMA BestIsUnique ==
  ASSUME NEW pool, NEW E, E \subseteq Nat, NEW b, NEW c, IsBest(pool, E, b), IsBest(pool, E, c)
  PROVE  b = c
<1>1. CASE E = {}
  BY <1>1 DEF IsBest
<1>2. CASE E # {}
  <2>1. b \in E /\ c \in E /\ b \in Nat /\ c \in Nat
    BY <1>2 DEF IsBest
  <2>2. c < b => Outscores(pool[b], pool[c]) /\ ~ Outscores(pool[b], pool[c])
    BY <1>2, <2>1 DEF IsBest
  <2>3. b < c => Outscores(pool[c], pool[b]) /\ ~ Outscores(pool[c], pool[b])
    BY <1>2, <2>1 DEF IsBest
  <2>4. QED
    BY <2>1, <2>2, <2>3
<1>3. QED
  BY <1>1, <1>2

\* It stays the best when another one goes.
LEMMA BestOfFewer ==
  ASSUME NEW pool, NEW E, NEW b, NEW i, i # b, IsBest(pool, E, b)
  PROVE  IsBest(pool, E \ {i}, b)
BY DEF IsBest

\* So in a pool of any size, with any weights and distances, a client moves
\* neither when a backend that it does not use is excluded nor when that one is
\* reported offline (select_with_pressure_excluding).
THEOREM SelectsLocally ==
  ASSUME NEW pool \in Seq(Members), NEW excluded, NEW i \in 1 .. Len(pool),
         i # select_with_pressure_excluding(pool, excluded)
  PROVE  /\ select_with_pressure_excluding(pool, excluded \cup {i}) = select_with_pressure_excluding(pool, excluded)
         /\ select_with_pressure_excluding([pool EXCEPT ![i].report = "offline"], excluded) = select_with_pressure_excluding(pool, excluded)
<1>1. PICK b : b = select_with_pressure_excluding(pool, excluded)
  OBVIOUS
<1>2. PICK E : E = Eligible(pool, excluded)
  OBVIOUS
<1>3. E \subseteq Nat /\ E \subseteq 1 .. Len(pool)
  BY <1>2 DEF Eligible
<1>4. IsBest(pool, E \ {i}, b)
  BY <1>1, <1>2, SelectedIsBest, BestOfFewer
<1>5. select_with_pressure_excluding(pool, excluded \cup {i}) = b
  <2>1. Eligible(pool, excluded \cup {i}) = E \ {i}
    BY <1>2 DEF Eligible
  <2>2. IsBest(pool, E \ {i}, select_with_pressure_excluding(pool, excluded \cup {i}))
    BY <2>1, SelectedIsBest
  <2>3. QED
    BY <2>2, <1>3, <1>4, BestIsUnique
<1>6. PICK other : other = [pool EXCEPT ![i].report = "offline"]
  OBVIOUS
<1>7. Len(other) = Len(pool) /\ \A j \in 1 .. Len(pool) : j # i => other[j] = pool[j]
  BY <1>6
<1>8. other[i] = [pool[i] EXCEPT !.report = "offline"] /\ pool[i] \in Members
  BY <1>6
<1>9. other[i] \in Members
  BY <1>8 DEF Members
<1>10. scored_weight(other[i]) = 0
  <2>1. weight_factor(other[i]) = 0
    BY <1>8 DEF Members, weight_factor
  <2>2. PICK w, p \in Int : w = other[i].weight /\ p = 2 - other[i].pressure
    BY <1>9 DEF Members
  <2>3. w * 0 * p = 0
    OBVIOUS
  <2>4. QED
    BY <2>1, <2>2, <2>3 DEF scored_weight
<1>11. other \in Seq(Members)
  <2>1. other = [j \in 1 .. Len(pool) |-> other[j]]
    <3>1. pool = [j \in 1 .. Len(pool) |-> pool[j]]
      OBVIOUS
    <3>2. DOMAIN other = 1 .. Len(pool) /\ other = [j \in DOMAIN other |-> other[j]]
      BY <1>6, <3>1, Zenon
    <3>3. QED
      BY <3>2
  <2>2. \A j \in 1 .. Len(pool) : other[j] \in Members
    BY <1>7, <1>9
  <2>3. Len(pool) \in Nat
    OBVIOUS
  <2>4. other \in [1 .. Len(pool) -> Members]
    BY <2>1, <2>2
  <2>5. QED
    BY <2>3, <2>4
<1>12. Eligible(other, excluded) = E \ {i}
  BY <1>2, <1>7, <1>10 DEF Eligible
<1>13. IsBest(other, E \ {i}, select_with_pressure_excluding(other, excluded))
  BY <1>11, <1>12, SelectedIsBest
<1>14. IsBest(other, E \ {i}, b)
  <2>1. \A j \in E \ {i} : other[j] = pool[j]
    BY <1>3, <1>7
  <2>2. QED
    BY <1>4, <2>1 DEF IsBest
<1>15. select_with_pressure_excluding(other, excluded) = b
  BY <1>3, <1>13, <1>14, BestIsUnique
<1>16. QED
  BY <1>1, <1>5, <1>6, <1>15

\* The questions about a pool.
SelectAsked == \E pool \in Seq(Candidates) : Len(pool) = 3 /\ question = [of |-> "select", pool |-> pool]

\* Failover is local.
LEMMA SelectAnswer == SelectAsked => FailoverIsLocal
<1> SUFFICES ASSUME SelectAsked, NEW excluded \in SUBSET (1 .. 3)
    PROVE  LET eligible == {i \in 1 .. 3 : scored_weight(question.pool[i]) > 0} \ excluded
               chosen == select_with_pressure_excluding(question.pool, excluded)
           IN  /\ chosen \in eligible \/ (eligible = {} /\ chosen = 0)
               /\ \A i \in 1 .. 3 \ {chosen} :
                    /\ select_with_pressure_excluding(question.pool, excluded \cup {i}) = chosen
                    /\ select_with_pressure_excluding([question.pool EXCEPT ![i].report = "offline"], excluded) = chosen
  BY Zenon DEF FailoverIsLocal
<1>1. PICK pool \in Seq(Candidates) : Len(pool) = 3 /\ pool = question.pool
  BY DEF SelectAsked
<1>2. Candidates \subseteq Members
  BY DEF Candidates, Members
<1>3. pool \in Seq(Members)
  BY <1>2
<1>4. IsBest(pool, Eligible(pool, excluded), select_with_pressure_excluding(pool, excluded))
  BY <1>3, SelectedIsBest
<1>5. Eligible(pool, excluded) = {i \in 1 .. 3 : scored_weight(pool[i]) > 0} \ excluded
  BY <1>1 DEF Eligible
<1>6. PICK chosen : chosen = select_with_pressure_excluding(pool, excluded)
  OBVIOUS
<1>7. chosen \in Eligible(pool, excluded) \/ (Eligible(pool, excluded) = {} /\ chosen = 0)
  BY <1>4, <1>6 DEF IsBest
<1>8. ASSUME NEW i \in 1 .. 3 \ {chosen}
      PROVE  /\ select_with_pressure_excluding(pool, excluded \cup {i}) = chosen
             /\ select_with_pressure_excluding([pool EXCEPT ![i].report = "offline"], excluded) = chosen
  <2>1. i \in 1 .. Len(pool) /\ i # chosen
    BY <1>1
  <2>2. QED
    BY <2>1, <1>3, <1>6, SelectsLocally, Zenon
<1>9. QED
  BY <1>1, <1>5, <1>6, <1>7, <1>8, Zenon

-----------------------------------------------------------------------------
(* The router: the sorted table and its first match.                       *)

\* Any route, tables in the router's order, and the routes of a table.
AnyRoute == [path_prefix : Seq(Bytes), backend_id : {"p", "q", "r"}]
Descending(s) == \A i, j \in 1 .. Len(s) : i <= j => Len(s[i].path_prefix) >= Len(s[j].path_prefix)
SortedTables == {s \in Seq(AnyRoute) : Descending(s)}

Shifted(z, s, k) == \A j \in k + 1 .. Len(s) : z[j + 1] = s[j]
Has(s, x) == \E i \in 1 .. Len(s) : s[i] = x

\* What an insertion leaves where.
LEMMA InsertAtIs ==
  ASSUME NEW R, NEW s \in Seq(R), NEW k \in 0 .. Len(s), NEW e \in R
  PROVE  /\ InsertAt(s, k + 1, e) \in Seq(R)
         /\ Len(InsertAt(s, k + 1, e)) = Len(s) + 1
         /\ \A j \in 1 .. k : InsertAt(s, k + 1, e)[j] = s[j]
         /\ InsertAt(s, k + 1, e)[k + 1] = e
         /\ Shifted(InsertAt(s, k + 1, e), s, k)
<1>1. (k + 1) - 1 = k /\ k \in Nat /\ Len(s) \in Nat
  OBVIOUS
<1>2. PICK p : p = SubSeq(s, 1, k)
  OBVIOUS
<1>3. PICK q : q = SubSeq(s, k + 1, Len(s))
  OBVIOUS
<1>4. p \in Seq(R) /\ Len(p) = k /\ \A j \in 1 .. k : p[j] = s[j]
  BY <1>1, <1>2, SubSeqProperties
<1>5. q \in Seq(R) /\ Len(q) = Len(s) - k /\ \A j \in 1 .. Len(s) - k : q[j] = s[k + j]
  BY <1>1, <1>3, SubSeqProperties
<1>6. PICK w : w = p \o <<e>>
  OBVIOUS
<1>7. w \in Seq(R) /\ Len(w) = k + 1 /\ (\A j \in 1 .. k : w[j] = s[j]) /\ w[k + 1] = e
  <2>1. <<e>> \in Seq(R) /\ Len(<<e>>) = 1 /\ <<e>>[1] = e
    OBVIOUS
  <2>2. w \in Seq(R) /\ Len(w) = k + 1
    BY <2>1, <1>1, <1>4, <1>6, ConcatProperties
  <2>3. \A j \in 1 .. k + 1 : w[j] = IF j <= Len(p) THEN p[j] ELSE <<e>>[j - Len(p)]
    BY <2>1, <2>2, <1>4, <1>6, ConcatProperties
  <2>4. \A j \in 1 .. k : w[j] = s[j]
    BY <2>3, <1>1, <1>4
  <2>5. w[k + 1] = <<e>>[(k + 1) - k]
    BY <2>3, <1>1, <1>4
  <2>6. (k + 1) - k = 1
    BY <1>1
  <2>7. QED
    BY <2>1, <2>2, <2>4, <2>5, <2>6
<1>8. InsertAt(s, k + 1, e) = w \o q
  BY <1>1, <1>2, <1>3, <1>6 DEF InsertAt
<1>9. PICK z : z = w \o q
  OBVIOUS
<1>10. z \in Seq(R) /\ Len(z) = Len(s) + 1
  BY <1>1, <1>5, <1>7, <1>9
<1>11. \A j \in 1 .. k + 1 : z[j] = w[j]
  BY <1>1, <1>5, <1>7, <1>9
<1>12. ASSUME NEW j \in k + 1 .. Len(s) PROVE z[j + 1] = s[j]
  <2>1. j - k \in 1 .. Len(s) - k /\ j + 1 = (k + 1) + (j - k) /\ k + (j - k) = j
    BY <1>1
  <2>2. z[(k + 1) + (j - k)] = q[j - k]
    <3>1. PICK i : i = (k + 1) + (j - k)
      OBVIOUS
    <3>2. i \in 1 .. Len(w) + Len(q) /\ ~ (i <= Len(w)) /\ i - Len(w) = j - k
      BY <1>1, <1>5, <1>7, <3>1, <2>1
    <3>3. z[i] = IF i <= Len(w) THEN w[i] ELSE q[i - Len(w)]
      BY <3>2, <1>5, <1>7, <1>9, ConcatProperties
    <3>4. QED
      BY <3>1, <3>2, <3>3
  <2>3. QED
    BY <2>1, <2>2, <1>5
<1>13. (\A j \in 1 .. k : z[j] = s[j]) /\ z[k + 1] = e
  <2>1. k + 1 \in 1 .. k + 1 /\ \A j \in 1 .. k : j \in 1 .. k + 1
    BY <1>1
  <2>2. QED
    BY <2>1, <1>7, <1>11
<1>14. InsertAt(s, k + 1, e) = z
  BY <1>8, <1>9
<1>15. QED
  BY <1>10, <1>12, <1>13, <1>14, Zenon DEF Shifted

\* The length of a prefix is a number.
LEMMA PrefixLength == \A r \in AnyRoute : Len(r.path_prefix) \in Nat
BY DEF AnyRoute

\* In a sorted table the routes whose prefix is not shorter come first, so there
\* is one place for a new one.
LEMMA PlaceIs ==
  ASSUME NEW s \in Seq(AnyRoute), Descending(s), NEW r \in AnyRoute
  PROVE  /\ Place(s, r) \in 0 .. Len(s)
         /\ \A i \in 1 .. Len(s) : i <= Place(s, r) <=> Len(s[i].path_prefix) >= Len(r.path_prefix)
<1>1. PICK L \in Nat : L = Len(r.path_prefix)
  BY PrefixLength
<1>2. PICK N \in Nat : N = Len(s)
  OBVIOUS
<1>3. PICK f : f = [i \in 1 .. N |-> Len(s[i].path_prefix)]
  OBVIOUS
<1>4. \A i \in 1 .. N : f[i] = Len(s[i].path_prefix) /\ f[i] \in Nat
  BY <1>2, <1>3, PrefixLength
<1>5. \A i, j \in 1 .. N : i <= j => f[i] >= f[j]
  BY <1>2, <1>4 DEF Descending
<1> DEFINE T == {k \in 0 .. N : \A i \in 1 .. N : i > k => f[i] < L}
<1>6. T \subseteq Nat /\ N \in T
  OBVIOUS
<1>7. PICK m \in T : \A k \in T : m <= k
  <2> HIDE DEF T
  <2>1. QED
    BY <1>6, LeastNumber
<1>8. m \in 0 .. N /\ \A i \in 1 .. N : i > m => f[i] < L
  OBVIOUS
<1>9. ASSUME NEW i \in 1 .. N, i <= m PROVE f[i] >= L
  <2>1. m - 1 \in 0 .. N /\ m - 1 \notin T
    BY <1>7, <1>8, <1>9
  <2>2. PICK j \in 1 .. N : j > m - 1 /\ ~ (f[j] < L)
    BY <2>1
  <2>3. j = m
    BY <1>8, <2>2
  <2>4. f[m] >= L
    BY <2>2, <2>3, <1>4
  <2>5. f[i] >= f[m]
    BY <2>3, <1>5, <1>9
  <2>6. QED
    BY <2>3, <2>4, <2>5, <1>4
<1>10. \A i \in 1 .. N : i <= m <=> f[i] >= L
  BY <1>4, <1>8, <1>9
<1>11. \E k \in 0 .. Len(s) : \A i \in 1 .. Len(s) : i <= k <=> Len(s[i].path_prefix) >= Len(r.path_prefix)
  BY <1>1, <1>2, <1>4, <1>8, <1>10
<1>12. QED
  BY <1>11, Zenon DEF Place

\* A table with one more route.
Inserted(s, r) == InsertAt(s, Place(s, r) + 1, r)

\* Inserting there keeps the table sorted and loses no route.
LEMMA InsertedIs ==
  ASSUME NEW s \in Seq(AnyRoute), Descending(s), NEW r \in AnyRoute
  PROVE  /\ Inserted(s, r) \in Seq(AnyRoute) /\ Len(Inserted(s, r)) = Len(s) + 1
         /\ Descending(Inserted(s, r))
         /\ \A x : Has(Inserted(s, r), x) <=> x = r \/ Has(s, x)
<1>1. PICK k \in 0 .. Len(s) : k = Place(s, r)
  BY PlaceIs
<1>2. \A i \in 1 .. Len(s) : i <= k <=> Len(s[i].path_prefix) >= Len(r.path_prefix)
  BY <1>1, PlaceIs
<1>3. PICK t : t = Inserted(s, r)
  OBVIOUS
<1>4. t = InsertAt(s, k + 1, r)
  BY <1>1, <1>3 DEF Inserted
<1>5. PICK N \in Nat : N = Len(s)
  OBVIOUS
<1>6. t \in Seq(AnyRoute) /\ Len(t) = N + 1
  BY <1>4, <1>5, InsertAtIs
<1>7. (\A j \in 1 .. k : t[j] = s[j]) /\ t[k + 1] = r /\ \A j \in k + 1 .. N : t[j + 1] = s[j]
  <2>1. PICK z : z = InsertAt(s, k + 1, r)
    OBVIOUS
  <2>2. \A j \in 1 .. k : z[j] = s[j]
    BY <2>1, InsertAtIs
  <2>3. z[k + 1] = r
    BY <2>1, InsertAtIs
  <2>4. Shifted(z, s, k)
    BY <2>1, InsertAtIs
  <2>5. QED
    BY <1>4, <1>5, <2>1, <2>2, <2>3, <2>4, Zenon DEF Shifted
<1>8. PICK f : f = [i \in 1 .. N |-> Len(s[i].path_prefix)]
  OBVIOUS
<1>9. \A i \in 1 .. N : f[i] = Len(s[i].path_prefix) /\ f[i] \in Nat
  BY <1>5, <1>8, PrefixLength
<1>10. PICK L \in Nat : L = Len(r.path_prefix)
  BY PrefixLength
<1>11. \A i, j \in 1 .. N : i <= j => f[i] >= f[j]
  BY <1>5, <1>9 DEF Descending
<1>12. \A i \in 1 .. N : i <= k <=> f[i] >= L
  BY <1>2, <1>5, <1>9, <1>10
<1>13. PICK g : g = [i \in 1 .. N + 1 |-> Len(t[i].path_prefix)]
  OBVIOUS
<1>14. ASSUME NEW j \in 1 .. k PROVE g[j] = f[j]
  <2>1. j \in 1 .. N /\ j \in 1 .. N + 1
    BY <1>5
  <2>2. QED
    BY <2>1, <1>7, <1>9, <1>13
<1>15. g[k + 1] = L
  BY <1>5, <1>7, <1>10, <1>13
<1>16. ASSUME NEW j \in k + 2 .. N + 1 PROVE g[j] = f[j - 1]
  <2>1. j - 1 \in k + 1 .. N /\ (j - 1) + 1 = j /\ j \in 1 .. N + 1 /\ j - 1 \in 1 .. N
    BY <1>5
  <2>2. t[j] = s[j - 1]
    BY <2>1, <1>7
  <2>3. QED
    BY <2>1, <2>2, <1>9, <1>13
<1>17. ASSUME NEW i \in 1 .. N + 1, NEW j \in 1 .. N + 1, i <= j PROVE g[i] >= g[j]
  <2>0. k \in 0 .. N
    BY <1>5
  <2>1. CASE j <= k
    BY <2>0, <2>1, <1>11, <1>14, <1>17
  <2>2. CASE j = k + 1
    BY <2>0, <2>2, <1>12, <1>14, <1>15, <1>17
  <2>3. CASE j > k + 1
    <3>1. g[j] = f[j - 1] /\ j - 1 \in 1 .. N /\ j - 1 > k
      BY <2>0, <2>3, <1>16
    <3>2. CASE i <= k
      BY <2>0, <3>1, <3>2, <1>11, <1>14
    <3>3. CASE i = k + 1
      BY <2>0, <3>1, <3>3, <1>9, <1>12, <1>15
    <3>4. CASE i > k + 1
      BY <2>0, <3>1, <3>4, <1>11, <1>16, <1>17
    <3>5. QED
      BY <2>0, <3>2, <3>3, <3>4
  <2>4. QED
    BY <2>0, <2>1, <2>2, <2>3
<1>18. Descending(t)
  BY <1>6, <1>13, <1>17 DEF Descending
<1>19. ASSUME NEW x PROVE (\E i \in 1 .. N + 1 : t[i] = x) <=> x = r \/ \E i \in 1 .. N : s[i] = x
  <2>1. ASSUME NEW i \in 1 .. N + 1, t[i] = x PROVE x = r \/ \E j \in 1 .. N : s[j] = x
    <3>1. CASE i <= k
      BY <1>5, <1>7, <2>1, <3>1
    <3>2. CASE i = k + 1
      BY <1>7, <2>1, <3>2
    <3>3. CASE i > k + 1
      <4>1. i - 1 \in k + 1 .. N /\ (i - 1) + 1 = i /\ i - 1 \in 1 .. N
        BY <1>5, <3>3
      <4>2. t[i] = s[i - 1]
        BY <4>1, <1>7
      <4>3. QED
        BY <4>1, <4>2, <2>1
    <3>4. QED
      BY <1>5, <3>1, <3>2, <3>3
  <2>2. ASSUME x = r PROVE \E i \in 1 .. N + 1 : t[i] = x
    <3>1. k + 1 \in 1 .. N + 1
      BY <1>5
    <3>2. QED
      BY <2>2, <3>1, <1>7
  <2>3. ASSUME NEW j \in 1 .. N, s[j] = x PROVE \E i \in 1 .. N + 1 : t[i] = x
    <3>1. CASE j <= k
      <4>1. j \in 1 .. k /\ j \in 1 .. N + 1
        BY <1>5, <3>1
      <4>2. QED
        BY <4>1, <1>7, <2>3
    <3>2. CASE j > k
      <4>1. j \in k + 1 .. N /\ j + 1 \in 1 .. N + 1
        BY <1>5, <3>2
      <4>2. t[j + 1] = x
        BY <4>1, <1>7, <2>3
      <4>3. QED
        BY <4>1, <4>2
    <3>3. QED
      BY <1>5, <3>1, <3>2
  <2>4. QED
    BY <2>1, <2>2, <2>3
<1>20. \A x : Has(t, x) <=> x = r \/ Has(s, x)
  BY <1>5, <1>6, <1>19, Zenon DEF Has
<1>21. QED
  BY <1>3, <1>5, <1>6, <1>18, <1>20

\* Sorting is what its recursive definition says.
LEMMA SortedDef ==
  ASSUME NEW routes \in Seq(AnyRoute)
  PROVE  /\ SortedUpTo(routes)[0] = <<>>
         /\ \A n \in 1 .. Len(routes) : SortedUpTo(routes)[n] = Inserted(SortedUpTo(routes)[n - 1], routes[n])
<1>1. PICK N \in Nat : N = Len(routes)
  OBVIOUS
<1>2. PICK S : S = SortedTables
  OBVIOUS
<1>3. PICK G : G = [a \in (1 .. N) \X S |-> Inserted(a[2], routes[a[1]])]
  OBVIOUS
<1>4. G \in [(1 .. N) \X S -> S]
  <2>1. ASSUME NEW n \in 1 .. N, NEW s \in S PROVE Inserted(s, routes[n]) \in S
    <3>1. routes[n] \in AnyRoute /\ s \in Seq(AnyRoute) /\ Descending(s)
      BY <1>1, <1>2 DEF SortedTables
    <3>2. Inserted(s, routes[n]) \in Seq(AnyRoute) /\ Descending(Inserted(s, routes[n]))
      BY <3>1, InsertedIs
    <3>3. QED
      BY <3>2, <1>2 DEF SortedTables
  <2>2. QED
    BY <2>1, <1>3
<1>5. <<>> \in S
  BY <1>2 DEF SortedTables, Descending
<1>6. PICK f : IteratesUpTo(N, f, S, <<>>, G)
  BY <1>4, <1>5, BoundedRecursion
<1>7. ASSUME NEW n \in 1 .. N PROVE f[n] = Inserted(f[n - 1], routes[n])
  <2>1. n - 1 \in 0 .. N
    OBVIOUS
  <2>2. f[n - 1] \in S
    BY <2>1, <1>6 DEF IteratesUpTo
  <2>3. QED
    BY <2>2, <1>3, <1>6 DEF IteratesUpTo
<1>8. f = [n \in 0 .. Len(routes) |-> IF n = 0 THEN <<>> ELSE Inserted(f[n - 1], routes[n])]
  <2>1. f = [n \in 0 .. N |-> f[n]] /\ f[0] = <<>>
    BY <1>6 DEF IteratesUpTo
  <2>2. \A n \in 0 .. N : f[n] = IF n = 0 THEN <<>> ELSE Inserted(f[n - 1], routes[n])
    <3> SUFFICES ASSUME NEW n \in 0 .. N
                 PROVE  f[n] = IF n = 0 THEN <<>> ELSE Inserted(f[n - 1], routes[n])
      OBVIOUS
    <3>1. CASE n = 0
      BY <2>1, <3>1
    <3>2. CASE n # 0
      <4>1. n \in 1 .. N
        BY <3>2
      <4>2. QED
        BY <4>1, <3>2, <1>7
    <3>3. QED
      BY <3>1, <3>2
  <2>3. QED
    BY <1>1, <2>1, <2>2
<1>9. SortedUpTo(routes) = CHOOSE g : g = [n \in 0 .. Len(routes) |-> IF n = 0 THEN <<>> ELSE Inserted(g[n - 1], routes[n])]
  BY Zenon DEF SortedUpTo, Inserted
<1>10. PICK s : s = SortedUpTo(routes)
  OBVIOUS
<1>11. s = [n \in 0 .. Len(routes) |-> IF n = 0 THEN <<>> ELSE Inserted(s[n - 1], routes[n])]
  BY <1>8, <1>9, <1>10, Zenon
<1>12. s[0] = <<>> /\ \A n \in 1 .. N : s[n] = Inserted(s[n - 1], routes[n])
  BY <1>1, <1>11
<1>13. QED
  BY <1>1, <1>10, <1>12, Zenon

\* So Router::new sorts: the longest prefixes first, the same routes.
LEMMA SortedIs ==
  ASSUME NEW routes \in Seq(AnyRoute)
  PROVE  /\ sorted_routes(routes) \in Seq(AnyRoute) /\ Descending(sorted_routes(routes))
         /\ \A x : Has(sorted_routes(routes), x) <=> Has(routes, x)
<1>1. PICK N \in Nat : N = Len(routes)
  OBVIOUS
<1>2. PICK s : s = SortedUpTo(routes)
  OBVIOUS
<1>3. s[0] = <<>> /\ \A n \in 1 .. N : s[n] = Inserted(s[n - 1], routes[n])
  BY <1>1, <1>2, SortedDef, Zenon
<1> DEFINE SortedSoFar(n) == /\ s[n] \in Seq(AnyRoute) /\ Len(s[n]) = n /\ Descending(s[n])
                      /\ \A x : Has(s[n], x) <=> \E i \in 1 .. n : routes[i] = x
           T == {n \in Nat : n <= N => SortedSoFar(n)}
<1>4. 0 \in T
  <2>1. s[0] \in Seq(AnyRoute) /\ Len(s[0]) = 0 /\ Descending(s[0])
    BY <1>3 DEF Descending
  <2>2. \A x : ~ Has(s[0], x)
    BY <2>1 DEF Has
  <2>3. 1 .. 0 = {}
    OBVIOUS
  <2>4. QED
    BY <2>1, <2>2, <2>3
<1>5. ASSUME NEW n \in T PROVE n + 1 \in T
  <2>1. CASE n + 1 <= N
    <3>1. n \in Nat /\ n + 1 \in 1 .. N /\ (n + 1) - 1 = n /\ SortedSoFar(n)
      BY <2>1
    <3>2. PICK u, t : u = s[n] /\ t = s[n + 1]
      OBVIOUS
    <3>3. t = Inserted(u, routes[n + 1]) /\ routes[n + 1] \in AnyRoute
      BY <3>1, <3>2, <1>1, <1>3
    <3>4. u \in Seq(AnyRoute) /\ Len(u) = n /\ Descending(u)
      BY <3>1, <3>2
    <3>5. t \in Seq(AnyRoute) /\ Len(t) = n + 1 /\ Descending(t)
      BY <3>3, <3>4, InsertedIs
    <3>6. ASSUME NEW x PROVE Has(t, x) <=> \E i \in 1 .. n + 1 : routes[i] = x
      <4>1. Has(t, x) <=> x = routes[n + 1] \/ Has(u, x)
        <5>1. PICK r \in AnyRoute : r = routes[n + 1]
          BY <3>3
        <5>2. Has(Inserted(u, r), x) <=> x = r \/ Has(u, x)
          BY <3>4, InsertedIs
        <5>3. QED
          BY <5>1, <5>2, <3>3
      <4>2. Has(u, x) <=> \E i \in 1 .. n : routes[i] = x
        BY <3>1, <3>2
      <4>3. (\E i \in 1 .. n + 1 : routes[i] = x) <=> x = routes[n + 1] \/ \E i \in 1 .. n : routes[i] = x
        <5>1. \A i \in 1 .. n + 1 : i = n + 1 \/ i \in 1 .. n
          BY <3>1
        <5>2. n + 1 \in 1 .. n + 1 /\ \A i \in 1 .. n : i \in 1 .. n + 1
          BY <3>1
        <5>3. QED
          BY <5>1, <5>2, Zenon
      <4>4. QED
        BY <4>1, <4>2, <4>3
    <3>7. SortedSoFar(n + 1)
      BY <3>2, <3>5, <3>6, Zenon
    <3>8. QED
      BY <3>1, <3>7
  <2>2. QED
    BY <2>1
<1>6. T = Nat
  <2> HIDE DEF T
  <2>1. T \subseteq Nat
    BY DEF T
  <2>2. QED
    BY <1>4, <1>5, <2>1, Induct
<1>7. SortedSoFar(N)
  <2>1. N \in T
    <3> HIDE DEF T
    <3>1. QED
      BY <1>6
  <2>2. N <= N
    OBVIOUS
  <2>3. QED
    BY <2>1, <2>2
<1>8. PICK sorted : sorted = sorted_routes(routes)
  OBVIOUS
<1>9. sorted = s[N]
  BY <1>1, <1>2, <1>8 DEF sorted_routes
<1>10. \A x : Has(sorted, x) <=> Has(routes, x)
  BY <1>1, <1>7, <1>9 DEF Has
<1>11. QED
  BY <1>7, <1>8, <1>9, <1>10

\* The first route that covers a path is one with the longest prefix.
LEMMA MatchIs ==
  ASSUME NEW routes \in Seq(AnyRoute), NEW uri
  PROVE  \/ match_route(routes, uri) = <<>> /\ \A x : Has(routes, x) => ~ Covers(x.path_prefix, uri)
         \/ \E r : /\ match_route(routes, uri) = <<r>>
                   /\ Has(routes, r) /\ Covers(r.path_prefix, uri)
                   /\ \A x : Has(routes, x) /\ Covers(x.path_prefix, uri) => Len(x.path_prefix) <= Len(r.path_prefix)
<1>1. PICK sorted : sorted = sorted_routes(routes)
  OBVIOUS
<1>2. sorted \in Seq(AnyRoute) /\ Descending(sorted) /\ \A x : Has(sorted, x) <=> Has(routes, x)
  BY <1>1, SortedIs
<1>3. PICK N \in Nat : N = Len(sorted)
  BY <1>2
<1>4. PICK hits : hits = {i \in 1 .. N : Covers(sorted[i].path_prefix, uri)}
  OBVIOUS
<1>5. match_route(routes, uri) = IF hits = {} THEN <<>> ELSE <<sorted[Min(hits)]>>
  BY <1>1, <1>3, <1>4, Zenon DEF match_route
<1>6. CASE hits = {}
  <2>1. \A x : Has(sorted, x) => ~ Covers(x.path_prefix, uri)
    BY <1>3, <1>4, <1>6 DEF Has
  <2>2. QED
    BY <1>2, <1>5, <1>6, <2>1
<1>7. CASE hits # {}
  <2>1. PICK m \in hits : m = Min(hits) /\ \A k \in hits : m <= k
    <3>1. hits \subseteq Nat
      BY <1>4
    <3>2. QED
      BY <3>1, <1>7, MinIsLeast
  <2>2. m \in 1 .. N /\ Covers(sorted[m].path_prefix, uri)
    BY <1>4, <2>1
  <2>3. PICK r : r = sorted[m]
    OBVIOUS
  <2>4. Has(sorted, r)
    BY <1>3, <2>2, <2>3 DEF Has
  <2>5. ASSUME NEW x, Has(sorted, x), Covers(x.path_prefix, uri) PROVE Len(x.path_prefix) <= Len(r.path_prefix)
    <3>1. PICK i \in 1 .. N : sorted[i] = x
      BY <1>3, <2>5 DEF Has
    <3>2. i \in hits
      BY <1>4, <2>5, <3>1
    <3>3. m <= i
      BY <2>1, <3>2
    <3>4. Len(sorted[m].path_prefix) >= Len(sorted[i].path_prefix)
      BY <1>2, <1>3, <2>2, <3>1, <3>3 DEF Descending
    <3>5. Len(sorted[m].path_prefix) \in Nat /\ Len(sorted[i].path_prefix) \in Nat
      BY <1>2, <1>3, <2>2, PrefixLength
    <3>6. QED
      BY <2>3, <3>1, <3>4, <3>5
  <2>6. match_route(routes, uri) = <<r>>
    BY <1>5, <1>7, <2>1, <2>3
  <2>7. QED
    BY <1>2, <2>2, <2>3, <2>4, <2>5, <2>6, Zenon
<1>8. QED
  BY <1>6, <1>7

\* Two prefixes of one path with one length are one prefix.
LEMMA SamePrefix ==
  ASSUME NEW p \in Seq(Bytes), NEW q \in Seq(Bytes), NEW uri, Covers(p, uri), Covers(q, uri), Len(p) = Len(q)
  PROVE  p = q
<1>1. SubSeq(p, 1, Len(p)) = SubSeq(q, 1, Len(q))
  BY DEF Covers, IsPrefix
<1>2. SubSeq(p, 1, Len(p)) = p /\ SubSeq(q, 1, Len(q)) = q
  OBVIOUS
<1>3. QED
  BY <1>1, <1>2

\* A table read backwards has the same routes.
LEMMA ReverseHas ==
  ASSUME NEW routes \in Seq(AnyRoute)
  PROVE  Reverse(routes) \in Seq(AnyRoute) /\ \A x : Has(Reverse(routes), x) <=> Has(routes, x)
<1>1. PICK N \in Nat : N = Len(routes)
  OBVIOUS
<1>2. PICK t : t = Reverse(routes)
  OBVIOUS
<1>3. t = [i \in 1 .. N |-> routes[(N - i) + 1]]
  BY <1>1, <1>2 DEF Reverse
<1>4. \A i \in 1 .. N : (N - i) + 1 \in 1 .. N /\ (N - ((N - i) + 1)) + 1 = i
  OBVIOUS
<1>5. \A i \in 1 .. N : routes[i] \in AnyRoute
  BY <1>1
<1>6. t \in [1 .. N -> AnyRoute]
  BY <1>3, <1>4, <1>5
<1>7. t \in Seq(AnyRoute) /\ Len(t) = N
  BY <1>6
<1>8. ASSUME NEW x PROVE Has(t, x) <=> Has(routes, x)
  <2>1. ASSUME Has(t, x) PROVE Has(routes, x)
    <3>1. PICK i \in 1 .. N : t[i] = x
      BY <2>1, <1>7 DEF Has
    <3>2. routes[(N - i) + 1] = x
      BY <3>1, <1>3
    <3>3. QED
      BY <3>2, <1>1, <1>4 DEF Has
  <2>2. ASSUME Has(routes, x) PROVE Has(t, x)
    <3>1. PICK i \in 1 .. N : routes[i] = x
      BY <2>2, <1>1 DEF Has
    <3>2. PICK k \in 1 .. N : k = (N - i) + 1 /\ (N - k) + 1 = i
      BY <1>4
    <3>3. t[k] = x
      BY <3>1, <3>2, <1>3
    <3>4. QED
      BY <3>3, <1>7 DEF Has
  <2>3. QED
    BY <2>1, <2>2
<1>9. QED
  BY <1>2, <1>7, <1>8

\* So with a table of any length that validate_routes accepts, the longest prefix
\* decides, the order in the file does not, and the pool of the route has a
\* backend.
THEOREM RoutesRight ==
  ASSUME NEW c, c.routes \in Seq(AnyRoute), Len(c.backends) \in Nat, DOMAIN c.backends = 1 .. Len(c.backends), validate_routes(c)
  PROVE  RoutedRight(c)
<1>1. PICK routes \in Seq(AnyRoute) : routes = c.routes
  OBVIOUS
<1>2. \A x : x \in Range(routes) <=> Has(routes, x)
  <2>1. DOMAIN routes = 1 .. Len(routes)
    OBVIOUS
  <2>2. QED
    BY <2>1 DEF Range, Has
<1>3. ASSUME NEW r, NEW s, Has(routes, r), Has(routes, s), r.path_prefix = s.path_prefix PROVE r = s
  <2>1. PICK i, j \in 1 .. Len(routes) : routes[i] = r /\ routes[j] = s
    BY <1>3 DEF Has
  <2>2. \A m \in 1 .. Len(routes) : \A k \in 1 .. m - 1 : routes[k].path_prefix # routes[m].path_prefix
    BY <1>1 DEF validate_routes
  <2>3. ~ (i < j)
    <3>1. i < j => i \in 1 .. j - 1
      OBVIOUS
    <3>2. QED
      BY <3>1, <2>1, <2>2, <1>3
  <2>4. ~ (j < i)
    <3>1. j < i => j \in 1 .. i - 1
      OBVIOUS
    <3>2. QED
      BY <3>1, <2>1, <2>2, <1>3
  <2>5. i = j
    BY <2>3, <2>4
  <2>6. QED
    BY <2>1, <2>5
<1>4. ASSUME NEW r, Has(routes, r) PROVE \E b \in Range(c.backends) : b.pool = r.backend_id
  <2>1. PICK i \in 1 .. Len(routes) : routes[i] = r
    BY <1>4 DEF Has
  <2>2. PICK k \in 1 .. Len(c.backends) : c.backends[k].pool = routes[i].backend_id
    BY <1>1 DEF validate_routes
  <2>3. c.backends[k] \in Range(c.backends)
    BY DEF Range
  <2>4. QED
    BY <2>1, <2>2, <2>3
<1>5. \A r : Has(routes, r) => r \in AnyRoute
  BY DEF Has
<1>6. ASSUME NEW p
      PROVE  LET m == match_route(routes, p)
             IN  /\ m # <<>> <=> \E r \in Range(routes) : Covers(r.path_prefix, p)
                 /\ m # <<>> =>
                      /\ \A r \in Range(routes) : Covers(r.path_prefix, p) => Len(r.path_prefix) <= Len(m[1].path_prefix)
                      /\ match_route(Reverse(routes), p)[1] = m[1]
                      /\ \E b \in Range(c.backends) : b.pool = m[1].backend_id
  <2>1. PICK m : m = match_route(routes, p)
    OBVIOUS
  <2>2. CASE m = <<>> /\ \A x : Has(routes, x) => ~ Covers(x.path_prefix, p)
    BY <1>2, <2>1, <2>2, Zenon
  <2>3. ASSUME NEW r, m = <<r>>, Has(routes, r), Covers(r.path_prefix, p),
               \A x : Has(routes, x) /\ Covers(x.path_prefix, p) => Len(x.path_prefix) <= Len(r.path_prefix)
        PROVE  /\ m # <<>> <=> \E x \in Range(routes) : Covers(x.path_prefix, p)
               /\ \A x \in Range(routes) : Covers(x.path_prefix, p) => Len(x.path_prefix) <= Len(m[1].path_prefix)
               /\ match_route(Reverse(routes), p)[1] = m[1]
               /\ \E b \in Range(c.backends) : b.pool = m[1].backend_id
    <3>1. m[1] = r /\ m # <<>>
      BY <2>3
    <3>2. Reverse(routes) \in Seq(AnyRoute) /\ \A x : Has(Reverse(routes), x) <=> Has(routes, x)
      BY ReverseHas
    <3>3. PICK q : /\ match_route(Reverse(routes), p) = <<q>>
                   /\ Has(routes, q) /\ Covers(q.path_prefix, p)
                   /\ \A x : Has(routes, x) /\ Covers(x.path_prefix, p) => Len(x.path_prefix) <= Len(q.path_prefix)
      <4>1. \/ match_route(Reverse(routes), p) = <<>> /\ \A x : Has(Reverse(routes), x) => ~ Covers(x.path_prefix, p)
            \/ \E q : /\ match_route(Reverse(routes), p) = <<q>>
                      /\ Has(Reverse(routes), q) /\ Covers(q.path_prefix, p)
                      /\ \A x : Has(Reverse(routes), x) /\ Covers(x.path_prefix, p) => Len(x.path_prefix) <= Len(q.path_prefix)
        BY <3>2, MatchIs
      <4>2. QED
        BY <4>1, <3>2, <2>3, Zenon
    <3>4. Len(q.path_prefix) = Len(r.path_prefix)
      <4>1. Len(q.path_prefix) \in Nat /\ Len(r.path_prefix) \in Nat
        BY <1>5, <2>3, <3>3, PrefixLength
      <4>2. QED
        BY <4>1, <2>3, <3>3
    <3>5. q.path_prefix = r.path_prefix
      <4>1. q.path_prefix \in Seq(Bytes) /\ r.path_prefix \in Seq(Bytes)
        BY <1>5, <2>3, <3>3 DEF AnyRoute
      <4>2. QED
        BY <4>1, <2>3, <3>3, <3>4, SamePrefix
    <3>6. q = r
      BY <1>3, <2>3, <3>3, <3>5
    <3>7. match_route(Reverse(routes), p)[1] = r
      BY <3>3, <3>6
    <3>8. QED
      BY <1>2, <1>4, <2>3, <3>1, <3>7, Zenon
  <2>4. \/ m = <<>> /\ \A x : Has(routes, x) => ~ Covers(x.path_prefix, p)
        \/ \E r : /\ m = <<r>> /\ Has(routes, r) /\ Covers(r.path_prefix, p)
                  /\ \A x : Has(routes, x) /\ Covers(x.path_prefix, p) => Len(x.path_prefix) <= Len(r.path_prefix)
    BY <2>1, MatchIs
  <2>5. QED
    BY <2>1, <2>2, <2>3, <2>4, Zenon
<1>7. QED
  BY <1>1, <1>6, Zenon DEF RoutedRight

-----------------------------------------------------------------------------
(* Validated configurations.                                               *)

\* 1 << attempt, saturating.
Shl(attempt) == IF attempt < Word THEN Pow2[attempt] ELSE U64_MAX

\* The saturating shift never falls, through the width of the word.
LEMMA ShlGrows ==
  ASSUME NEW a \in Nat
  PROVE  /\ U64_MAX \in Nat /\ Shl(0) = 1 /\ Shl(a) \in Nat /\ Shl(a + 1) \in Nat
         /\ Shl(a) <= Shl(a + 1)
<1>1. PICK w \in Nat : w = Word - 1 /\ w + 1 = Word
  BY RulesAssumption
<1>2. PICK p \in Nat : p = Pow2[w] /\ p >= 1
  BY Pow2Positive
<1>3. U64_MAX = 2 * p - 1
  BY <1>1, <1>2, Pow2Def DEF U64_MAX
<1>4. U64_MAX \in Nat
  BY <1>2, <1>3
<1>5. Shl(0) = 1
  BY <1>1, Pow2Def DEF Shl
<1>6. Shl(a) \in Nat /\ Shl(a + 1) \in Nat
  BY <1>4, Pow2Positive DEF Shl
<1>7. CASE a + 1 < Word
  <2>1. a < Word
    BY <1>1, <1>7
  <2>2. Shl(a) = Pow2[a] /\ Shl(a + 1) = 2 * Pow2[a] /\ Pow2[a] \in Nat
    BY <1>7, <2>1, Pow2Def DEF Shl
  <2>3. QED
    BY <2>2, <1>4, <1>5, <1>6
<1>8. CASE a + 1 = Word
  <2>1. a = w /\ a < Word /\ ~ (a + 1 < Word)
    BY <1>1, <1>8
  <2>2. Shl(a) = p /\ Shl(a + 1) = 2 * p - 1
    BY <2>1, <1>2, <1>3 DEF Shl
  <2>3. QED
    BY <2>2, <1>2, <1>4, <1>5, <1>6
<1>9. CASE a + 1 > Word
  <2>1. ~ (a < Word) /\ ~ (a + 1 < Word)
    BY <1>1, <1>9
  <2>2. Shl(a) = U64_MAX /\ Shl(a + 1) = U64_MAX
    BY <2>1 DEF Shl
  <2>3. QED
    BY <2>2, <1>4, <1>5, <1>6
<1>10. QED
  BY <1>1, <1>7, <1>8, <1>9

\* So the delay starts at base, never falls and stays below max plus the jitter,
\* whatever the width of the word, the base and the maximum (backoff_delay).
THEOREM BackoffRight ==
  ASSUME NEW r, r.base \in 0 .. U64_MAX, r.max \in Nat, r.jitter \in Nat, r.base <= r.max
  PROVE  BackoffGrows(r)
<1>0. U64_MAX \in Nat
  BY ShlGrows
<1>1. PICK b, x, u, g \in Nat : b = r.base /\ x = r.max /\ u = U64_MAX /\ g = r.jitter /\ b <= x /\ b <= u
  BY <1>0
<1>2. \A a \in Nat : exp_delay_ms(a, r) = Least(Least(b * Shl(a), u), x)
  BY <1>1 DEF exp_delay_ms, Shl
<1>3. exp_delay_ms(0, r) = b
  <2>1. b * 1 = b /\ Shl(0) = 1
    BY ShlGrows
  <2>2. QED
    BY <2>1, <1>1, <1>2 DEF Least
<1>4. ASSUME NEW a \in Nat
      PROVE  /\ exp_delay_ms(a, r) <= exp_delay_ms(a + 1, r)
             /\ exp_delay_ms(a, r) \in Nat /\ exp_delay_ms(a, r) <= x /\ exp_delay_ms(a, r) <= u
  <2>1. PICK s, t \in Nat : s = Shl(a) /\ t = Shl(a + 1) /\ s <= t
    BY ShlGrows
  <2>2. PICK bs, bt \in Nat : bs = b * s /\ bt = b * t /\ bs <= bt
    BY <2>1, TimesMonotone
  <2>3. exp_delay_ms(a, r) = Least(Least(bs, u), x) /\ exp_delay_ms(a + 1, r) = Least(Least(bt, u), x)
    BY <1>2, <2>1, <2>2
  <2>4. QED
    BY <2>2, <2>3, <1>1 DEF Least
<1>5. ASSUME NEW a \in Nat, NEW d \in backoff_delay(a, r) PROVE d \in exp_delay_ms(a, r) .. r.max + r.jitter
  <2>1. PICK j \in 0 .. (IF r.jitter > 0 THEN r.jitter - 1 ELSE 0) : d = Least(exp_delay_ms(a, r) + j, U64_MAX)
    BY DEF backoff_delay
  <2>2. PICK e \in Nat : e = exp_delay_ms(a, r) /\ e <= x /\ e <= u
    BY <1>4
  <2>3. j \in Nat /\ j <= g
    BY <1>1, <2>1
  <2>4. d = Least(e + j, u)
    BY <1>1, <2>1, <2>2
  <2>5. d \in e .. x + g
    BY <1>1, <2>2, <2>3, <2>4 DEF Least
  <2>6. QED
    BY <1>1, <2>2, <2>5
<1>6. \A a \in 0 .. Word + 1 : a \in Nat
  BY RulesAssumption
<1>7. QED
  BY <1>1, <1>3, <1>4, <1>5, <1>6 DEF BackoffGrows

\* Any backend of a configuration, and the questions about configurations.
Backs == [id : Nat, pool : {"p", "q"}, transport : {"tcp", "quic"}, scheme : {"http", "https"}]
ConfigAsked ==
    /\ question.config.routes \in Seq(AnyRoute)
    /\ question.config.backends \in Seq(Backs)
    /\ question.config.retry.base \in 0 .. U64_MAX /\ question.config.retry.max \in Nat /\ question.config.retry.jitter \in Nat

\* A configuration that validate accepts routes, retries, dials and listens as it
\* should.
LEMMA ConfigAnswer ==
  ASSUME question.of = "config" => ConfigAsked
  PROVE  ValidatedConfig
<1> SUFFICES ASSUME question.of = "config", validate(question.config), NEW c, c = question.config
    PROVE /\ RoutedRight(c) /\ BackoffGrows(c.retry)
          /\ \A b \in Range(c.backends) : b.transport = "quic" => c.client /\ b.scheme = "https"
          /\ \A g \in c.ingress : \A id \in g.backend_ids :
               Cardinality({i \in 1 .. Len(c.backends) : c.backends[i].id = id /\ c.backends[i].transport = "quic"}) = 1
          /\ c.acme => c.persist_command # "empty" /\ (c.client_auth \in {"required", "optional"} => c.ca)
          /\ \A x, y \in {"listen", "redirect", "health"} : x # y /\ c[x] # 0 => c[x] # c[y]
  BY Zenon DEF ValidatedConfig
<1>2. /\ validate_no_duplicate_backend_ids(c) /\ validate_routes(c) /\ validate_retry_backoff(c)
      /\ validate_ingress(c) /\ validate_backend_schemes(c) /\ validate_client_identity(c)
      /\ validate_acme_inbound_ca(c) /\ validate_http_redirect(c) /\ validate_health_endpoint(c)
      /\ validate_acme_barrel_state(c)
  BY Zenon DEF validate
<1>3. /\ c.routes \in Seq(AnyRoute) /\ c.backends \in Seq(Backs)
      /\ c.retry.base \in 0 .. U64_MAX /\ c.retry.max \in Nat /\ c.retry.jitter \in Nat
  BY DEF ConfigAsked
<1>4. Len(c.backends) \in Nat /\ DOMAIN c.backends = 1 .. Len(c.backends)
  BY <1>3
<1>5. RoutedRight(c)
  BY <1>2, <1>3, <1>4, RoutesRight
<1>6. BackoffGrows(c.retry)
  <2>1. c.retry.base <= c.retry.max
    BY <1>2 DEF validate_retry_backoff
  <2>2. QED
    BY <2>1, <1>3, BackoffRight
<1>7. ASSUME NEW b \in Range(c.backends), b.transport = "quic" PROVE c.client /\ b.scheme = "https"
  <2>1. PICK k \in 1 .. Len(c.backends) : b = c.backends[k]
    BY <1>4 DEF Range
  <2>2. b \in Backs
    BY <1>3, <2>1
  <2>3. b.scheme = "https"
    BY <1>2, <1>7, <2>1, <2>2 DEF validate_backend_schemes, Backs
  <2>4. c.client
    BY <1>2, <1>7, <2>1 DEF validate_client_identity, needs_client_tls
  <2>5. QED
    BY <2>3, <2>4
<1>8. ASSUME NEW g \in c.ingress, NEW id \in g.backend_ids
      PROVE  Cardinality({i \in 1 .. Len(c.backends) : c.backends[i].id = id /\ c.backends[i].transport = "quic"}) = 1
  <2>1. PICK k \in 1 .. Len(c.backends) : c.backends[k].id = id /\ c.backends[k].transport = "quic"
    BY <1>2 DEF validate_ingress
  <2>2. \A i \in 1 .. Len(c.backends) : c.backends[i].id = id => i = k
    BY <1>2, <2>1, Zenon DEF validate_no_duplicate_backend_ids
  <2>3. {i \in 1 .. Len(c.backends) : c.backends[i].id = id /\ c.backends[i].transport = "quic"} = {k}
    BY <2>1, <2>2
  <2>4. QED
    BY <2>3, FS_Singleton
<1>9. c.acme => c.persist_command # "empty" /\ (c.client_auth \in {"required", "optional"} => c.ca)
  <2>1. c.acme /\ c.client_auth # "disabled" => c.ca
    BY <1>2, Zenon DEF validate_acme_inbound_ca
  <2>2. c.acme => c.persist_command # "empty"
    BY <1>2, Zenon DEF validate_acme_barrel_state
  <2>3. QED
    BY <2>1, <2>2
<1>10. ASSUME NEW x \in {"listen", "redirect", "health"}, NEW y \in {"listen", "redirect", "health"}, x # y, c[x] # 0
       PROVE  c[x] # c[y]
  <2>1. c.redirect # 0 => c.redirect # c.listen
    BY <1>2, Zenon DEF validate_http_redirect
  <2>2. c.health # 0 => c.health # c.listen /\ c.health # c.redirect
    BY <1>2, Zenon DEF validate_health_endpoint
  <2>3. QED
    BY <1>10, <2>1, <2>2
<1>11. QED
  BY <1>5, <1>6, <1>7, <1>8, <1>9, <1>10, Zenon

-----------------------------------------------------------------------------
(* The sections of the file.                                               *)

\* The fields that must not be zero, and what makes a section usable.
Counts == {"max_backends", "h2_connections_per_backend", "quic_channel_capacity", "control_channel_capacity",
           "max_sessions_per_backend", "failure_threshold", "half_open_max_requests", "max_entries",
           "connect_secs", "handshake_secs", "request_secs", "response_idle_secs", "wake_timeout_secs"}
Positive(field) == (\A w \in field.legal : w >= 1) /\ (field.default # <<>> => field.default[1] >= 1)
Usable(schema, on) ==
    /\ \A f \in Counts \cap DOMAIN schema : Positive(schema[f])
    /\ "enabled" \in DOMAIN schema => schema["enabled"].default[1] = on

\* A NonZero field has no zero, as default or as a legal value.
LEMMA NonZeroPositive == \A d \in Nat \ {0} : Positive(NonZero(d))
<1> SUFFICES ASSUME NEW d \in Nat \ {0} PROVE Positive(NonZero(d))
  OBVIOUS
<1>1. NonZero(d).legal = 1 .. MAX_NUMBER /\ NonZero(d).default = <<d>>
  BY SMT DEF NonZero, Number
<1>2. MAX_NUMBER \in Nat
  BY SMT DEF MAX_NUMBER
<1>3. QED
  BY <1>1, <1>2, SMT DEF Positive

\* The field max_backends.
MaxBackendsField == [NonZero(64) EXCEPT !.legal = 1 .. HARD_MAX_BACKENDS]

\* max_backends is NonZero, and capped.
LEMMA MaxBackendsPositive ==
  Positive(MaxBackendsField) /\ MaxBackendsField.default[1] = 64 /\ MaxBackendsField.legal = 1 .. 256
<1>1. MaxBackendsField.legal = 1 .. 256 /\ MaxBackendsField.default = <<64>>
  BY SMT DEF MaxBackendsField, NonZero, Number, HARD_MAX_BACKENDS
<1>2. QED
  BY <1>1, SMT DEF Positive

\* What a switch is when it is left out.
LEMMA SwitchDefault == \A d : Switch(d).default[1] = d
BY SMT DEF Switch, Choice

\* Every section is usable: its counts and timeouts are at least 1, and it is off
\* unless it says otherwise, except compression.  One lemma per section.
LEMMA UsableBalancerConfig == Usable(BalancerConfig, "false")
<1>1. BalancerConfig["max_backends"] = MaxBackendsField
  BY SMT DEF BalancerConfig, MaxBackendsField
<1>2. DOMAIN BalancerConfig = {"queue_depth", "drain_timeout_secs", "max_backends"}
  BY SMT DEF BalancerConfig
<1>3. QED
  BY <1>1, <1>2, MaxBackendsPositive, SMT DEF Usable, Counts

\* The section TimeoutConfig.
LEMMA UsableTimeoutConfig == Usable(TimeoutConfig, "false")
BY NonZeroPositive, SwitchDefault, SMT DEF Usable, Counts, TimeoutConfig

\* The section RateLimitConfig.
LEMMA UsableRateLimitConfig == Usable(RateLimitConfig, "false")
BY NonZeroPositive, SwitchDefault, SMT DEF Usable, Counts, RateLimitConfig

\* The section AccessControlConfig.
LEMMA UsableAccessControlConfig == Usable(AccessControlConfig, "false")
BY NonZeroPositive, SwitchDefault, SMT DEF Usable, Counts, AccessControlConfig

\* The section MetricsConfig.
LEMMA UsableMetricsConfig == Usable(MetricsConfig, "false")
BY NonZeroPositive, SwitchDefault, SMT DEF Usable, Counts, MetricsConfig

\* The section TracingConfig.
LEMMA UsableTracingConfig == Usable(TracingConfig, "false")
BY NonZeroPositive, SwitchDefault, SMT DEF Usable, Counts, TracingConfig

\* The section ProxyConfig.
LEMMA UsableProxyConfig == Usable(ProxyConfig, "false")
BY NonZeroPositive, SwitchDefault, SMT DEF Usable, Counts, ProxyConfig

\* The section CompressionConfig.
LEMMA UsableCompressionConfig == Usable(CompressionConfig, "true")
BY NonZeroPositive, SwitchDefault, SMT DEF Usable, Counts, CompressionConfig

\* The section HealthConfig.
LEMMA UsableHealthConfig == Usable(HealthConfig, "false")
BY NonZeroPositive, SwitchDefault, SMT DEF Usable, Counts, HealthConfig

\* The section CircuitBreakerConfig.
LEMMA UsableCircuitBreakerConfig == Usable(CircuitBreakerConfig, "false")
BY NonZeroPositive, SwitchDefault, SMT DEF Usable, Counts, CircuitBreakerConfig

\* The section RetryConfig.
LEMMA UsableRetryConfig == Usable(RetryConfig, "false")
BY NonZeroPositive, SwitchDefault, SMT DEF Usable, Counts, RetryConfig

\* The section TunnelConfig.
LEMMA UsableTunnelConfig == Usable(TunnelConfig, "false")
BY NonZeroPositive, SwitchDefault, SMT DEF Usable, Counts, TunnelConfig

\* The section CacheConfig.
LEMMA UsableCacheConfig == Usable(CacheConfig, "false")
BY NonZeroPositive, SwitchDefault, SMT DEF Usable, Counts, CacheConfig

\* The section ListenConfig.
LEMMA UsableListenConfig == Usable(ListenConfig, "false")
BY NonZeroPositive, SwitchDefault, SMT DEF Usable, Counts, ListenConfig

\* The section HttpRedirectConfig.
LEMMA UsableHttpRedirectConfig == Usable(HttpRedirectConfig, "false")
<1>1. PICK a, b : HttpRedirectConfig = [enabled |-> Switch("false"), listen |-> a, to_host |-> b]
  BY Zenon DEF HttpRedirectConfig
<1>2. QED
  BY <1>1, SwitchDefault, SMT DEF Usable, Counts

\* The section HealthEndpointConfig.
LEMMA UsableHealthEndpointConfig == Usable(HealthEndpointConfig, "false")
BY NonZeroPositive, SwitchDefault, SMT DEF Usable, Counts, HealthEndpointConfig

\* The section RouteConfig.
LEMMA UsableRouteConfig == Usable(RouteConfig, "false")
BY NonZeroPositive, SwitchDefault, SMT DEF Usable, Counts, RouteConfig

\* The section IngressConfig.
LEMMA UsableIngressConfig == Usable(IngressConfig, "false")
BY NonZeroPositive, SwitchDefault, SMT DEF Usable, Counts, IngressConfig

\* The section TlsIdentity.
LEMMA UsableTlsIdentity == Usable(TlsIdentity, "false")
BY NonZeroPositive, SwitchDefault, SMT DEF Usable, Counts, TlsIdentity

\* The section AcmeTlsConfig.
LEMMA UsableAcmeTlsConfig == Usable(AcmeTlsConfig, "false")
BY NonZeroPositive, SwitchDefault, SMT DEF Usable, Counts, AcmeTlsConfig

\* The section BarrelStateConfig.
LEMMA UsableBarrelStateConfig == Usable(BarrelStateConfig, "false")
BY NonZeroPositive, SwitchDefault, SMT DEF Usable, Counts, BarrelStateConfig

\* Every section is usable.
LEMMA EverySchemaUsable ==
  ASSUME NEW s \in DOMAIN Schemas
  PROVE  Usable(Schemas[s], IF s = "compression" THEN "true" ELSE "false")
<1>1. s \in {"balancer", "timeouts", "ratelimit", "access", "metrics", "tracing", "proxy", "compression", "health", "circuit_breaker", "retry", "tunnel", "cache", "listen", "http_redirect", "health_endpoint", "route", "ingress", "identity", "acme", "barrel"}
  BY SMT DEF Schemas
<1>2. CASE s = "balancer"
  <2>1. Schemas[s] = BalancerConfig
    BY <1>2, SMT DEF Schemas
  <2>2. QED
    BY <2>1, <1>2, UsableBalancerConfig
<1>3. CASE s = "timeouts"
  <2>1. Schemas[s] = TimeoutConfig
    BY <1>3, SMT DEF Schemas
  <2>2. QED
    BY <2>1, <1>3, UsableTimeoutConfig
<1>4. CASE s = "ratelimit"
  <2>1. Schemas[s] = RateLimitConfig
    BY <1>4, SMT DEF Schemas
  <2>2. QED
    BY <2>1, <1>4, UsableRateLimitConfig
<1>5. CASE s = "access"
  <2>1. Schemas[s] = AccessControlConfig
    BY <1>5, SMT DEF Schemas
  <2>2. QED
    BY <2>1, <1>5, UsableAccessControlConfig
<1>6. CASE s = "metrics"
  <2>1. Schemas[s] = MetricsConfig
    BY <1>6, SMT DEF Schemas
  <2>2. QED
    BY <2>1, <1>6, UsableMetricsConfig
<1>7. CASE s = "tracing"
  <2>1. Schemas[s] = TracingConfig
    BY <1>7, SMT DEF Schemas
  <2>2. QED
    BY <2>1, <1>7, UsableTracingConfig
<1>8. CASE s = "proxy"
  <2>1. Schemas[s] = ProxyConfig
    BY <1>8, SMT DEF Schemas
  <2>2. QED
    BY <2>1, <1>8, UsableProxyConfig
<1>9. CASE s = "compression"
  <2>1. Schemas[s] = CompressionConfig
    BY <1>9, SMT DEF Schemas
  <2>2. QED
    BY <2>1, <1>9, UsableCompressionConfig
<1>10. CASE s = "health"
  <2>1. Schemas[s] = HealthConfig
    BY <1>10, SMT DEF Schemas
  <2>2. QED
    BY <2>1, <1>10, UsableHealthConfig
<1>11. CASE s = "circuit_breaker"
  <2>1. Schemas[s] = CircuitBreakerConfig
    BY <1>11, SMT DEF Schemas
  <2>2. QED
    BY <2>1, <1>11, UsableCircuitBreakerConfig
<1>12. CASE s = "retry"
  <2>1. Schemas[s] = RetryConfig
    BY <1>12, SMT DEF Schemas
  <2>2. QED
    BY <2>1, <1>12, UsableRetryConfig
<1>13. CASE s = "tunnel"
  <2>1. Schemas[s] = TunnelConfig
    BY <1>13, SMT DEF Schemas
  <2>2. QED
    BY <2>1, <1>13, UsableTunnelConfig
<1>14. CASE s = "cache"
  <2>1. Schemas[s] = CacheConfig
    BY <1>14, SMT DEF Schemas
  <2>2. QED
    BY <2>1, <1>14, UsableCacheConfig
<1>15. CASE s = "listen"
  <2>1. Schemas[s] = ListenConfig
    BY <1>15, SMT DEF Schemas
  <2>2. QED
    BY <2>1, <1>15, UsableListenConfig
<1>16. CASE s = "http_redirect"
  <2>1. Schemas[s] = HttpRedirectConfig
    BY <1>16, SMT DEF Schemas
  <2>2. QED
    BY <2>1, <1>16, UsableHttpRedirectConfig
<1>17. CASE s = "health_endpoint"
  <2>1. Schemas[s] = HealthEndpointConfig
    BY <1>17, SMT DEF Schemas
  <2>2. QED
    BY <2>1, <1>17, UsableHealthEndpointConfig
<1>18. CASE s = "route"
  <2>1. Schemas[s] = RouteConfig
    BY <1>18, SMT DEF Schemas
  <2>2. QED
    BY <2>1, <1>18, UsableRouteConfig
<1>19. CASE s = "ingress"
  <2>1. Schemas[s] = IngressConfig
    BY <1>19, SMT DEF Schemas
  <2>2. QED
    BY <2>1, <1>19, UsableIngressConfig
<1>20. CASE s = "identity"
  <2>1. Schemas[s] = TlsIdentity
    BY <1>20, SMT DEF Schemas
  <2>2. QED
    BY <2>1, <1>20, UsableTlsIdentity
<1>21. CASE s = "acme"
  <2>1. Schemas[s] = AcmeTlsConfig
    BY <1>21, SMT DEF Schemas
  <2>2. QED
    BY <2>1, <1>21, UsableAcmeTlsConfig
<1>22. CASE s = "barrel"
  <2>1. Schemas[s] = BarrelStateConfig
    BY <1>22, SMT DEF Schemas
  <2>2. QED
    BY <2>1, <1>22, UsableBarrelStateConfig
<1>23. QED
  BY <1>1, <1>2, <1>3, <1>4, <1>5, <1>6, <1>7, <1>8, <1>9, <1>10, <1>11, <1>12, <1>13, <1>14, <1>15, <1>16, <1>17, <1>18, <1>19, <1>20, <1>21, <1>22

\* The questions about sections.
SectionAsked == question.section \in DOMAIN Schemas

\* A section that deserializes is usable, whatever was left out of it.
LEMMA SectionAnswer ==
  ASSUME question.of = "section" => SectionAsked
  PROVE  SectionUsable
<1> SUFFICES ASSUME question.of = "section", Deserializes(Schemas[question.section], question.table)
             PROVE  LET v == deserialize(Schemas[question.section], question.table)
                        AtLeastOne(fs) == \A f \in fs \cap DOMAIN v : v[f] >= 1
                    IN  /\ AtLeastOne(Counts)
                        /\ question.section = "balancer" => v.max_backends <= HARD_MAX_BACKENDS
                        /\ question.section = "listen" /\ "client_auth" \notin DOMAIN question.table => v.client_auth = "required"
                        /\ "enabled" \notin DOMAIN question.table /\ "enabled" \in DOMAIN v =>
                             v.enabled = IF question.section = "compression" THEN "true" ELSE "false"
  BY Zenon DEF SectionUsable, Counts
<1>0. PICK s, table, schema, v :
          /\ s = question.section /\ table = question.table
          /\ schema = Schemas[s] /\ v = deserialize(schema, table)
  OBVIOUS
<1>a. s \in DOMAIN Schemas /\ Deserializes(schema, table)
  BY <1>0 DEF SectionAsked
<1>1. PICK on : on = IF s = "compression" THEN "true" ELSE "false"
  OBVIOUS
<1>2. Usable(schema, on)
  BY <1>0, <1>a, <1>1, EverySchemaUsable
<1>3. DOMAIN v = DOMAIN schema
  BY <1>0 DEF deserialize
<1>4. ASSUME NEW f \in DOMAIN schema
      PROVE  IF f \in DOMAIN table THEN v[f] = table[f] /\ v[f] \in schema[f].legal
             ELSE v[f] = schema[f].default[1] /\ schema[f].default # <<>>
  BY <1>0, <1>a DEF deserialize, Deserializes
<1>5. ASSUME NEW f \in Counts \cap DOMAIN v PROVE v[f] >= 1
  BY <1>2, <1>3, <1>4 DEF Usable, Positive
<1>6. ASSUME s = "balancer" PROVE v.max_backends <= HARD_MAX_BACKENDS
  <2>1. schema = BalancerConfig
    BY <1>0, <1>6, SMT DEF Schemas
  <2>2. "max_backends" \in DOMAIN schema /\ schema["max_backends"].default[1] = 64 /\ schema["max_backends"].legal = 1 .. 256
    <3>1. schema["max_backends"] = MaxBackendsField
      BY <2>1, SMT DEF BalancerConfig, MaxBackendsField
    <3>2. "max_backends" \in DOMAIN schema
      BY <2>1, SMT DEF BalancerConfig
    <3>3. QED
      BY <3>1, <3>2, MaxBackendsPositive, Zenon
  <2>3. v["max_backends"] <= 256
    <3>1. v["max_backends"] = 64 \/ v["max_backends"] \in 1 .. 256
      BY <2>2, <1>4, Zenon
    <3>2. QED
      BY <3>1, SMT
  <2>4. QED
    BY <2>3 DEF HARD_MAX_BACKENDS
<1>7. ASSUME s = "listen", "client_auth" \notin DOMAIN table PROVE v.client_auth = "required"
  <2>1. schema = ListenConfig
    BY <1>0, <1>7, SMT DEF Schemas
  <2>2. "client_auth" \in DOMAIN schema /\ schema["client_auth"].default[1] = "required"
    BY <2>1, SMT DEF ListenConfig, Choice
  <2>3. QED
    BY <2>2, <1>4, <1>7
<1>8. ASSUME "enabled" \notin DOMAIN table, "enabled" \in DOMAIN v PROVE v.enabled = on
  BY <1>2, <1>3, <1>4, <1>8 DEF Usable
<1>9. QED
  BY <1>0, <1>1, <1>5, <1>6, <1>7, <1>8, Zenon

-----------------------------------------------------------------------------
(* Reloads and the round trip of a backend.                                *)

\* The questions about tables of backends.
BackendAsked == "wakeable" \in DOMAIN question.table => question.table["wakeable"] \in BOOLEAN

\* The fields of a backend.
BackFields == {"id", "pool", "address", "host", "weight", "transport", "scheme", "max_connections", "wakeable"}

\* What deserialize fills in.
LEMMA ReadFields ==
  ASSUME NEW t
  PROVE  LET b == deserialize_backend(t)
         IN  /\ DOMAIN b = BackFields
             /\ b["id"] = t.id /\ b["pool"] = Given(t, "pool", t.id) /\ b["address"] = t.address
             /\ b["host"] = Given(t, "host", t.address) /\ b["weight"] = t.weight /\ b["transport"] = t.transport
             /\ b["scheme"] = Given(t, "scheme", "https")
             /\ b["max_connections"] = Given(t, "max_connections", DEFAULT_MAX_CONNECTIONS)
             /\ b["wakeable"] = Given(t, "wakeable", FALSE)
BY DEF deserialize_backend, BackFields

\* What serialize writes, and leaves out.
LEMMA WrittenFields ==
  ASSUME NEW b, DOMAIN b = BackFields
  PROVE  LET w == serialize_backend(b)
         IN  /\ BackFields \ {"scheme", "wakeable"} \subseteq DOMAIN w
             /\ \A f \in BackFields \ {"scheme", "wakeable"} : w[f] = b[f]
             /\ "scheme" \in DOMAIN w <=> b["scheme"] # "https"
             /\ "scheme" \in DOMAIN w => w["scheme"] = b["scheme"]
             /\ "wakeable" \in DOMAIN w <=> b["wakeable"]
             /\ "wakeable" \in DOMAIN w => w["wakeable"] = b["wakeable"]
BY DEF serialize_backend, BackFields

\* A backend that is written and read again is the same.
LEMMA WrittenIsRead ==
  ASSUME NEW t, "wakeable" \in DOMAIN t => t["wakeable"] \in BOOLEAN
  PROVE  LET b == deserialize_backend(t)
             w == serialize_backend(b)
         IN  /\ {"id", "address", "weight", "transport"} \subseteq DOMAIN w
             /\ w.id = t.id /\ w.weight = t.weight
             /\ Given(w, "pool", w.id) = Given(t, "pool", t.id)
             /\ Given(w, "max_connections", DEFAULT_MAX_CONNECTIONS) = Given(t, "max_connections", DEFAULT_MAX_CONNECTIONS)
             /\ deserialize_backend(w) = b
<1>1. PICK b : b = deserialize_backend(t)
  OBVIOUS
<1>2. PICK w : w = serialize_backend(b)
  OBVIOUS
<1>3. /\ DOMAIN b = BackFields /\ b = [f \in BackFields |-> b[f]]
      /\ b["id"] = t.id /\ b["pool"] = Given(t, "pool", t.id) /\ b["weight"] = t.weight
      /\ b["max_connections"] = Given(t, "max_connections", DEFAULT_MAX_CONNECTIONS)
  <2>1. DOMAIN b = BackFields /\ b = [f \in DOMAIN b |-> b[f]]
    BY <1>1 DEF deserialize_backend, BackFields
  <2>2. QED
    BY <1>1, <2>1, ReadFields
<1>4. b["wakeable"] \in BOOLEAN
  BY <1>1, ReadFields, Zenon DEF Given
<1>5. /\ BackFields \ {"scheme", "wakeable"} \subseteq DOMAIN w
      /\ \A f \in BackFields \ {"scheme", "wakeable"} : w[f] = b[f]
      /\ "scheme" \in DOMAIN w <=> b["scheme"] # "https"
      /\ "scheme" \in DOMAIN w => w["scheme"] = b["scheme"]
      /\ "wakeable" \in DOMAIN w <=> b["wakeable"]
      /\ "wakeable" \in DOMAIN w => w["wakeable"] = b["wakeable"]
  BY <1>2, <1>3, WrittenFields
<1>6. {"id", "pool", "address", "host", "weight", "transport", "max_connections"} = BackFields \ {"scheme", "wakeable"}
  BY DEF BackFields
<1>7. \A f \in {"id", "pool", "address", "host", "weight", "transport", "max_connections"} : f \in DOMAIN w /\ w[f] = b[f]
  BY <1>5, <1>6
<1>8. Given(w, "scheme", "https") = b["scheme"]
  BY <1>5 DEF Given
<1>9. Given(w, "wakeable", FALSE) = b["wakeable"]
  BY <1>4, <1>5, Zenon DEF Given
<1>10. /\ Given(w, "pool", w.id) = b["pool"] /\ Given(w, "host", w.address) = b["host"]
       /\ Given(w, "max_connections", DEFAULT_MAX_CONNECTIONS) = b["max_connections"]
  BY <1>7 DEF Given
<1>11. PICK d : d = deserialize_backend(w)
  OBVIOUS
<1>12. DOMAIN d = BackFields /\ d = [f \in BackFields |-> d[f]]
  <2>1. DOMAIN d = BackFields /\ d = [f \in DOMAIN d |-> d[f]]
    BY <1>11 DEF deserialize_backend, BackFields
  <2>2. QED
    BY <2>1
<1>13. \A f \in BackFields : d[f] = b[f]
  <2>1. /\ d["id"] = w.id /\ d["pool"] = Given(w, "pool", w.id) /\ d["address"] = w.address
        /\ d["host"] = Given(w, "host", w.address) /\ d["weight"] = w.weight /\ d["transport"] = w.transport
        /\ d["scheme"] = Given(w, "scheme", "https")
        /\ d["max_connections"] = Given(w, "max_connections", DEFAULT_MAX_CONNECTIONS)
        /\ d["wakeable"] = Given(w, "wakeable", FALSE)
    BY <1>11, ReadFields
  <2>2. d["id"] = b["id"] /\ d["pool"] = b["pool"] /\ d["address"] = b["address"] /\ d["host"] = b["host"]
    BY <2>1, <1>7, <1>10
  <2>3. d["weight"] = b["weight"] /\ d["transport"] = b["transport"] /\ d["max_connections"] = b["max_connections"]
    BY <2>1, <1>7, <1>10
  <2>4. d["scheme"] = b["scheme"] /\ d["wakeable"] = b["wakeable"]
    BY <2>1, <1>8, <1>9, Zenon
  <2>5. QED
    BY <2>2, <2>3, <2>4, Zenon DEF BackFields
<1>14. d = b
  BY <1>3, <1>12, <1>13, Zenon
<1>15. {"id", "address", "weight", "transport"} \subseteq DOMAIN w /\ w.id = t.id /\ w.weight = t.weight
  BY <1>3, <1>7
<1>16. QED
  BY <1>1, <1>2, <1>3, <1>10, <1>11, <1>14, <1>15, Zenon

\* So backends survive a round trip, and the shortest table is the constructor's
\* backend.
LEMMA BackendAnswer ==
  ASSUME question.of = "backend" => BackendAsked
  PROVE  BackendRoundTrip
<1> SUFFICES ASSUME question.of = "backend", backend_reads(question.table)
             PROVE  LET b == deserialize_backend(question.table)
                    IN  /\ backend_reads(serialize_backend(b)) /\ deserialize_backend(serialize_backend(b)) = b
                        /\ DOMAIN question.table = {"id", "address", "weight", "transport"} =>
                             b = backend_new(b.id, b.address, b.weight, b.transport)
  BY Zenon DEF BackendRoundTrip
<1>1. PICK t : t = question.table
  OBVIOUS
<1>2. PICK b, w : b = deserialize_backend(t) /\ w = serialize_backend(b)
  OBVIOUS
<1>3. "wakeable" \in DOMAIN t => t["wakeable"] \in BOOLEAN
  BY <1>1, Zenon DEF BackendAsked
<1>4. backend_reads(t)
  BY <1>1
<1>5. /\ {"id", "address", "weight", "transport"} \subseteq DOMAIN w
      /\ w.id = t.id /\ w.weight = t.weight
      /\ Given(w, "pool", w.id) = Given(t, "pool", t.id)
      /\ Given(w, "max_connections", DEFAULT_MAX_CONNECTIONS) = Given(t, "max_connections", DEFAULT_MAX_CONNECTIONS)
      /\ deserialize_backend(w) = b
  BY <1>2, <1>3, WrittenIsRead, Zenon
<1>6. backend_reads(w)
  BY <1>4, <1>5 DEF backend_reads
<1>7. ASSUME DOMAIN t = {"id", "address", "weight", "transport"} PROVE b = backend_new(b.id, b.address, b.weight, b.transport)
  BY <1>2, <1>7 DEF deserialize_backend, backend_new, Given
<1>8. QED
  BY <1>1, <1>2, <1>5, <1>6, <1>7, Zenon

\* A question about a table of a backend.
LEMMA BackendAskedNext == AskBackend => question'.of = "backend" /\ BackendAsked'
<1> SUFFICES ASSUME AskBackend PROVE question'.of = "backend" /\ BackendAsked'
  OBVIOUS
<1>1. PICK t, left_out : t \in Full /\ question' = [of |-> "backend", table |-> [f \in (DOMAIN t) \ left_out |-> t[f]]]
  BY Zenon DEF AskBackend, Ask
<1>2. question'.of = "backend" /\ question'.table = [f \in (DOMAIN t) \ left_out |-> t[f]]
  BY <1>1
<1>3. t.wakeable \in BOOLEAN
  BY <1>1 DEF Full
<1>4. "wakeable" \in DOMAIN question'.table => question'.table["wakeable"] = t["wakeable"]
  BY <1>2
<1>5. QED
  BY <1>2, <1>3, <1>4, Zenon DEF BackendAsked

-----------------------------------------------------------------------------
(* The questions that are asked.                                           *)

\* A question about access.
LEMMA AccessAskedNext == AskAccess => question'.of = "access" /\ AccessAsked'
BY DEF AskAccess, Ask, AccessAsked

\* A question about a pool.
LEMMA SelectAskedNext == AskSelect => question'.of = "select" /\ SelectAsked'
<1> SUFFICES ASSUME AskSelect PROVE question'.of = "select" /\ SelectAsked'
  OBVIOUS
<1>1. PICK two \in [1 .. 2 -> Candidates], last \in Candidates : question' = [of |-> "select", pool |-> Append(two, last)]
  BY DEF AskSelect, Ask
<1>2. two \in Seq(Candidates) /\ Len(two) = 2
  <2>1. 2 \in Nat
    OBVIOUS
  <2>2. \E n \in Nat : two \in [1 .. n -> Candidates]
    BY <2>1
  <2>3. two \in Seq(Candidates)
    BY <2>2, SeqDef
  <2>4. QED
    BY <2>3
<1>3. Append(two, last) \in Seq(Candidates) /\ Len(Append(two, last)) = 3
  <2>1. Append(two, last) \in Seq(Candidates) /\ Len(Append(two, last)) = Len(two) + 1
    BY <1>2, AppendProperties, Zenon
  <2>2. QED
    BY <1>2, <2>1
<1>4. QED
  BY <1>1, <1>3 DEF SelectAsked

\* A question about a section.
LEMMA SectionAskedNext == AskSection => question'.of = "section" /\ SectionAsked'
<1> SUFFICES ASSUME AskSection PROVE question'.of = "section" /\ SectionAsked'
  OBVIOUS
<1>1. \E s \in DOMAIN Schemas : \E table : question' = [of |-> "section", section |-> s, table |-> table]
  BY ZenonT(60) DEF AskSection, Ask
<1>2. QED
  BY <1>1 DEF SectionAsked

\* The configuration that the questions start from.
LEMMA BaseFields ==
  /\ Base.routes = <<>> /\ Base.backends \in Seq(Backs)
  /\ Base.backends[2] = Backend(2, "q", "tcp", "http")
  /\ Base.retry = [base |-> 1, max |-> 4, jitter |-> 0]
<1>1. Base.backends = <<Backend(1, "p", "quic", "https"), Backend(2, "q", "tcp", "http")>>
  BY SMT DEF Base
<1>2. Backend(1, "p", "quic", "https") \in Backs /\ Backend(2, "q", "tcp", "http") \in Backs
  BY DEF Backend, Backs
<1>3. Base.backends \in Seq(Backs)
  BY <1>1, <1>2
<1>4. Base.routes = <<>> /\ Base.retry = [base |-> 1, max |-> 4, jitter |-> 0]
  BY SMT DEF Base
<1>5. QED
  BY <1>1, <1>3, <1>4

\* What makes a question about a configuration one of those that are asked.
LEMMA ConfigKept ==
  ASSUME NEW c, question' = [of |-> "config", config |-> c],
         c.routes \in Seq(AnyRoute), c.backends \in Seq(Backs),
         c.retry.base \in 0 .. U64_MAX, c.retry.max \in Nat, c.retry.jitter \in Nat
  PROVE  question'.of = "config" /\ ConfigAsked'
<1>1. question'.of = "config" /\ question'.config = c
  OBVIOUS
<1>2. QED
  BY <1>1 DEF ConfigAsked

\* Its retry settings fit the word.
LEMMA BaseRetry == Base.retry.base \in 0 .. U64_MAX /\ Base.retry.max \in Nat /\ Base.retry.jitter \in Nat
<1>1. U64_MAX \in Nat /\ U64_MAX >= 1
  <2>1. PICK w \in Nat : w + 1 = Word
    BY RulesAssumption
  <2>2. Pow2[w] \in Nat /\ Pow2[w] >= 1 /\ Pow2[w + 1] = 2 * Pow2[w]
    BY Pow2Positive, Pow2Def
  <2>3. QED
    BY <2>1, <2>2 DEF U64_MAX
<1>2. QED
  BY <1>1, BaseFields

\* The routes that are asked about.
LEMMA PrefixesAreTexts == Routed \subseteq AnyRoute
<1>1. {"/", "a", "b"} = Bytes
  BY DEF Bytes
<1>2. RoutePrefixes \subseteq Seq(Bytes)
  BY <1>1 DEF RoutePrefixes
<1>3. ASSUME NEW r \in Routed PROVE r \in AnyRoute
  <2>1. PICK p \in RoutePrefixes, b \in {"p", "q", "r"} : r = [path_prefix |-> p, backend_id |-> b]
    BY DEF Routed
  <2>2. p \in Seq(Bytes)
    BY <1>2, <2>1
  <2>3. QED
    BY <2>1, <2>2 DEF AnyRoute
<1>4. QED
  BY <1>3

\* Questions about a configuration: its routes,
LEMMA RoutesAskedNext == AskRoutes => question'.of = "config" /\ ConfigAsked'
<1> SUFFICES ASSUME AskRoutes PROVE question'.of = "config" /\ ConfigAsked'
  OBVIOUS
<1>1. PICK routes \in UNION {[1 .. n -> Routed] : n \in 1 .. 3} :
           question' = [of |-> "config", config |-> [Base EXCEPT !.routes = routes]]
  BY Zenon DEF AskRoutes, Ask
<1>2. routes \in Seq(AnyRoute)
  <2>1. PICK n \in 1 .. 3 : routes \in [1 .. n -> Routed]
    BY Zenon
  <2>a. n \in Nat
    OBVIOUS
  <2>2. routes \in [1 .. n -> AnyRoute]
    BY <2>1, PrefixesAreTexts
  <2>3. QED
    BY <2>a, <2>2, SeqDef
<1>3. PICK c : c = [Base EXCEPT !.routes = routes]
  OBVIOUS
<1>4. c.routes = routes /\ c.backends = Base.backends /\ c.retry = Base.retry
  BY <1>3 DEF Base
<1>5. QED
  BY <1>1, <1>2, <1>3, <1>4, BaseFields, BaseRetry, ConfigKept

\* its retry settings,
LEMMA RetryAskedNext == AskRetry => question'.of = "config" /\ ConfigAsked'
<1> SUFFICES ASSUME AskRetry PROVE question'.of = "config" /\ ConfigAsked'
  OBVIOUS
<1>1. PICK retry \in [base : 0 .. U64_MAX, max : 0 .. U64_MAX, jitter : 0 .. 2] :
           question' = [of |-> "config", config |-> [Base EXCEPT !.retry = retry]]
  BY Zenon DEF AskRetry, Ask
<1>2. PICK c : c = [Base EXCEPT !.retry = retry]
  OBVIOUS
<1>3. c.routes = Base.routes /\ c.backends = Base.backends /\ c.retry = retry
  BY <1>2 DEF Base
<1>4. retry.base \in 0 .. U64_MAX /\ retry.max \in 0 .. U64_MAX /\ retry.jitter \in Nat
  OBVIOUS
<1>5. retry.max \in Nat
  BY <1>4, ShlGrows
<1>6. Base.routes \in Seq(AnyRoute)
  BY BaseFields
<1>7. QED
  BY <1>1, <1>2, <1>3, <1>4, <1>5, <1>6, BaseFields, ConfigKept

\* its backends and ingress,
LEMMA BackendsAskedNext == AskBackends => question'.of = "config" /\ ConfigAsked'
<1> SUFFICES ASSUME AskBackends PROVE question'.of = "config" /\ ConfigAsked'
  OBVIOUS
<1>1. PICK b \in [id : {1, 2}, pool : {"p", "q"}, transport : {"tcp", "quic"}, scheme : {"http", "https"}],
           ids \in SUBSET {1, 2, 3}, listens \in SUBSET {5, 6}, private, client \in BOOLEAN, allow \in {{}, {"net"}} :
        Ask([of |-> "config",
             config |-> [Base EXCEPT !.backends = <<@[2], b>>, !.client = client, !.allow = allow,
               !.ingress = {[listen |-> l, backend_ids |-> ids, private |-> private] : l \in listens}]])
  BY Zenon DEF AskBackends
<1>9. PICK ingress : ingress = {[listen |-> l, backend_ids |-> ids, private |-> private] : l \in listens}
  OBVIOUS
<1>2. PICK c : c = [Base EXCEPT !.backends = <<@[2], b>>, !.client = client, !.allow = allow, !.ingress = ingress]
  OBVIOUS
<1>10. question' = [of |-> "config", config |-> c]
  BY <1>1, <1>2, <1>9, Zenon DEF Ask
<1>3. c.backends = <<Base.backends[2], b>>
  BY <1>2 DEF Base
<1>4. c.routes = Base.routes /\ c.retry = Base.retry
  BY <1>2 DEF Base
<1>5. b \in Backs /\ Base.backends[2] \in Backs
  <2>1. Base.backends[2] \in Backs
    BY BaseFields DEF Backend, Backs
  <2>2. QED
    BY <2>1 DEF Backs
<1>6. c.backends \in Seq(Backs)
  BY <1>3, <1>5
<1>7. Base.routes \in Seq(AnyRoute)
  BY BaseFields
<1>8. QED
  BY <1>10, <1>4, <1>6, <1>7, BaseRetry, ConfigKept

\* its listeners and its ACME section.
LEMMA ListenersAskedNext == AskListeners => question'.of = "config" /\ ConfigAsked'
<1> SUFFICES ASSUME AskListeners PROVE question'.of = "config" /\ ConfigAsked'
  OBVIOUS
<1>1. PICK redirect, health \in 0 .. 2, host \in {"bare", "empty", "url"}, acme, ca \in BOOLEAN,
           auth \in {"required", "optional", "disabled"}, command \in {"none", "empty", "given"} :
        Ask([of |-> "config",
             config |-> [Base EXCEPT !.redirect = redirect, !.health = health, !.to_host = host,
                                     !.acme = acme, !.ca = ca, !.client_auth = auth,
                                     !.persist_command = command]])
  BY Zenon DEF AskListeners
<1>2. PICK c : c = [Base EXCEPT !.redirect = redirect, !.health = health, !.to_host = host,
                                !.acme = acme, !.ca = ca, !.client_auth = auth, !.persist_command = command]
  OBVIOUS
<1>3. c.routes = Base.routes /\ c.retry = Base.retry /\ c.backends = Base.backends
  BY <1>2 DEF Base
<1>4. Base.routes \in Seq(AnyRoute)
  BY BaseFields
<1>6. question' = [of |-> "config", config |-> c]
  BY <1>1, <1>2, Zenon DEF Ask
<1>5. QED
  BY <1>6, <1>3, <1>4, BaseFields, BaseRetry, ConfigKept

-----------------------------------------------------------------------------
(* The questions to Rules, Settings and Trust.  What is inductive about a  *)
(* question is that it is one of those that are asked; the answer is       *)
(* computed from it.                                                       *)

\* The questions whose answers are proved: what each of them may be.
HeadersAsked ==
    \E given \in SUBSET Names, nominated \in SUBSET {"x-client-id", "x-forwarded-for", "host", "x-debug"}, identity \in {"none", "device"} :
      question = [of |-> "headers", sent |-> given, nominated |-> nominated, identity |-> identity]
CacheAsked == \E q \in Requested, b \in Origins : question = [of |-> "cache", request |-> q, origin |-> b]
KeyAsked == \E k \in Keys : question = [of |-> "key", key |-> k]
PeerAsked ==
    \E other \in [cert : Certs, alpn : SUBSET {"h2", ACME_TLS_ALPN}],
       d \in [policy : {"required", "optional", "disabled"}, server : {"manual", "acme"}, door : {"tcp", "quic", "tunnel"},
              crl : BOOLEAN, acl : BOOLEAN, limited : BOOLEAN, draining : BOOLEAN,
              revoked_keys : {{}, {1}}, revoked_names : {{}, {"d1"}}] :
      question = [of |-> "peer", peer |-> other, d |-> d] /\ (d.server = "acme" => ~ d.crl)
DenylistAsked ==
    \E e \in [spki : KeyTexts, backend_id : {"none", "d1", "overlong"}] : question = [of |-> "denylist", entry |-> e]
HopAsked ==
    \E started \in SUBSET {"http", "https"}, scheme \in {"http", "https"}, by \in {"ca", "stranger"}, cn \in {"b1", "other"} :
      question = [of |-> "hop", started |-> {[transport |-> "tcp", scheme |-> s] : s \in started},
                  backend |-> [transport |-> "tcp", scheme |-> scheme], cert |-> [by |-> by, cn |-> cn]]
Asked ==
    /\ question.of = "headers" => HeadersAsked
    /\ question.of = "cache" => CacheAsked
    /\ question.of = "key" => KeyAsked
    /\ question.of = "peer" => PeerAsked
    /\ question.of = "denylist" => DenylistAsked
    /\ question.of = "hop" => HopAsked
    /\ question.of = "access" => AccessAsked
    /\ question.of = "select" => SelectAsked
    /\ question.of = "config" => ConfigAsked
    /\ question.of = "section" => SectionAsked
    /\ question.of = "backend" => BackendAsked

\* A question is one of those that are asked.
LEMMA AskedStep == Asked /\ [RulesNext \/ SettingsNext \/ TrustNext]_question => Asked'
<1> SUFFICES ASSUME Asked, [RulesNext \/ SettingsNext \/ TrustNext]_question PROVE Asked'
  OBVIOUS
<1> DEFINE Proved == {"headers", "cache", "key", "peer", "denylist", "hop", "access", "select", "config", "section", "backend"}
<1>1. CASE question' = question
  <2>1. (HeadersAsked => HeadersAsked') /\ (CacheAsked => CacheAsked') /\ (KeyAsked => KeyAsked')
    BY <1>1 DEF HeadersAsked, CacheAsked, KeyAsked
  <2>2. PeerAsked => PeerAsked'
    BY <1>1 DEF PeerAsked
  <2>3. DenylistAsked => DenylistAsked'
    BY <1>1 DEF DenylistAsked
  <2>4. HopAsked => HopAsked'
    BY <1>1 DEF HopAsked
  <2>5. (AccessAsked => AccessAsked') /\ (SelectAsked => SelectAsked') /\ (SectionAsked => SectionAsked')
    BY <1>1 DEF AccessAsked, SelectAsked, SectionAsked
  <2>6. ConfigAsked => ConfigAsked'
    BY <1>1 DEF ConfigAsked
  <2>7. BackendAsked => BackendAsked'
    BY <1>1, Zenon DEF BackendAsked
  <2>8. QED
    BY <1>1, <2>1, <2>2, <2>3, <2>4, <2>5, <2>6, <2>7 DEF Asked
<1>2. ASSUME question'.of \notin Proved PROVE Asked'
  BY <1>2 DEF Asked
<1>3. CASE AskHeaders
  <2>1. HeadersAsked'
    BY <1>3 DEF AskHeaders, Ask, HeadersAsked
  <2>2. question'.of = "headers"
    BY <2>1 DEF HeadersAsked
  <2>3. QED
    BY <2>1, <2>2 DEF Asked
<1>4. CASE AskCache
  <2>1. CacheAsked'
    BY <1>4 DEF AskCache, Ask, CacheAsked
  <2>2. question'.of = "cache"
    BY <2>1 DEF CacheAsked
  <2>3. QED
    BY <2>1, <2>2 DEF Asked
<1>5. CASE AskKey
  <2>1. KeyAsked'
    BY <1>5 DEF AskKey, Ask, KeyAsked
  <2>2. question'.of = "key"
    BY <2>1 DEF KeyAsked
  <2>3. QED
    BY <2>1, <2>2 DEF Asked
<1>6. CASE AskPeer
  <2>1. PeerAsked'
    <3>1. PICK policy \in {"required", "optional", "disabled"}, server \in {"manual", "acme"}, door \in {"tcp", "quic", "tunnel"},
               crl, acl, limited, draining \in BOOLEAN, keys \in {{}, {1}}, names \in {{}, {"d1"}},
               cert \in Certs, alpn \in SUBSET {"h2", ACME_TLS_ALPN} :
             /\ server = "acme" => ~ crl
             /\ Cardinality({x \in {<<acl, 1>>, <<~limited, 2>>, <<~draining, 3>>} : ~ x[1]}) <= 1
             /\ Ask([of |-> "peer", peer |-> [cert |-> cert, alpn |-> alpn],
                     d |-> [policy |-> policy, server |-> server, door |-> door, crl |-> crl, acl |-> acl,
                            limited |-> limited, draining |-> draining, revoked_keys |-> keys, revoked_names |-> names]])
      BY <1>6, Zenon DEF AskPeer
    <3>2. PICK d : d = [policy |-> policy, server |-> server, door |-> door, crl |-> crl, acl |-> acl,
                        limited |-> limited, draining |-> draining, revoked_keys |-> keys, revoked_names |-> names]
      OBVIOUS
    <3>3. PICK p : p = [cert |-> cert, alpn |-> alpn]
      OBVIOUS
    <3>4. question' = [of |-> "peer", peer |-> p, d |-> d]
      BY <3>1, <3>2, <3>3 DEF Ask
    <3>5. p \in [cert : Certs, alpn : SUBSET {"h2", ACME_TLS_ALPN}]
      BY <3>3
    <3>6. d \in [policy : {"required", "optional", "disabled"}, server : {"manual", "acme"}, door : {"tcp", "quic", "tunnel"},
                 crl : BOOLEAN, acl : BOOLEAN, limited : BOOLEAN, draining : BOOLEAN,
                 revoked_keys : {{}, {1}}, revoked_names : {{}, {"d1"}}]
      BY <3>2, Zenon
    <3>7. d.server = "acme" => ~ d.crl
      BY <3>1, <3>2
    <3>8. QED
      BY <3>4, <3>5, <3>6, <3>7 DEF PeerAsked
  <2>2. question'.of = "peer"
    BY <2>1 DEF PeerAsked
  <2>3. QED
    BY <2>1, <2>2 DEF Asked
<1>7. CASE AskDenylist
  <2>1. DenylistAsked'
    <3>1. PICK spki \in KeyTexts, id \in {"none", "d1", "overlong"} :
                question' = [of |-> "denylist", entry |-> [spki |-> spki, backend_id |-> id]]
      BY <1>7 DEF AskDenylist, Ask
    <3>2. [spki |-> spki, backend_id |-> id] \in [spki : KeyTexts, backend_id : {"none", "d1", "overlong"}]
      OBVIOUS
    <3>3. QED
      BY <3>1, <3>2 DEF DenylistAsked
  <2>2. question'.of = "denylist"
    BY <2>1 DEF DenylistAsked
  <2>3. QED
    BY <2>1, <2>2 DEF Asked
<1>8. CASE AskHop
  <2>1. HopAsked'
    BY <1>8 DEF AskHop, Ask, HopAsked
  <2>2. question'.of = "hop"
    BY <2>1 DEF HopAsked
  <2>3. QED
    BY <2>1, <2>2 DEF Asked
<1>9. CASE AskAccess \/ AskSelect
  BY <1>9, AccessAskedNext, SelectAskedNext DEF Asked
<1>10. CASE AskRoutes \/ AskRetry \/ AskBackends \/ AskListeners
  BY <1>10, RoutesAskedNext, RetryAskedNext, BackendsAskedNext, ListenersAskedNext DEF Asked
<1>11. CASE AskSection \/ AskBackend \/ AskReload
  <2>1. CASE AskSection \/ AskBackend
    BY <2>1, SectionAskedNext, BackendAskedNext DEF Asked
  <2>2. CASE AskReload
    <3>1. \E x, y, z : Ask([of |-> "reload", start |-> x, first |-> y, second |-> z])
      BY <2>2, Zenon DEF AskReload
    <3>2. question'.of = "reload"
      BY <3>1 DEF Ask
    <3>3. QED
      BY <1>2, <3>2
  <2>3. QED
    BY <1>11, <2>1, <2>2
<1>12. CASE Forget
  <2>1. question'.of = "none"
    BY <1>12 DEF Forget, NoQuestion
  <2>2. QED
    BY <1>2, <2>1
<1>13. QED
  BY <1>1, <1>3, <1>4, <1>5, <1>6, <1>7, <1>8, <1>9, <1>10, <1>11, <1>12 DEF RulesNext, SettingsNext, TrustNext

\* At first nothing is asked.
LEMMA AskedInitially == RulesInit => Asked
BY DEF RulesInit, NoQuestion, Asked
\* Removing headers, and setting one.
LEMMA WithoutIs ==
  ASSUME NEW h, NEW names
  PROVE  /\ \A n : n \in DOMAIN Without(h, names) <=> n \in DOMAIN h /\ n \notin names
         /\ \A n : n \in DOMAIN h /\ n \notin names => Without(h, names)[n] = h[n]
BY DEF Without

\* A header that is set replaces the one of its name.
LEMMA InsertIs ==
  ASSUME NEW h, NEW name, NEW value
  PROVE  /\ \A n : n \in DOMAIN Insert(h, name, value) <=> n \in DOMAIN h \/ n = name
         /\ Insert(h, name, value)[name] = value
         /\ \A n : n \in DOMAIN h /\ n # name => Insert(h, name, value)[n] = h[n]
BY DEF Insert

\* What the backend is told of the peer is what was proved of it.
LEMMA HeadersAnswer == HeadersAsked => HeadersProven
<1> SUFFICES ASSUME NEW given \in SUBSET Names, NEW nominated \in SUBSET {"x-client-id", "x-forwarded-for", "host", "x-debug"},
                    NEW identity \in {"none", "device"},
                    question = [of |-> "headers", sent |-> given, nominated |-> nominated, identity |-> identity]
             PROVE  HeadersProven
  BY DEF HeadersAsked
<1>0. question.sent = given /\ question.nominated = nominated /\ question.identity = identity
  OBVIOUS
<1>1. PICK h0 : h0 = [n \in given |-> "client"]
  OBVIOUS
<1>2. PICK dropped : dropped = HOP_BY_HOP \cup (IF "connection" \in given THEN nominated ELSE {})
  OBVIOUS
<1>3. PICK h1 : h1 = strip_hop_by_hop_headers(h0, nominated)
  OBVIOUS
<1>4. \A n : n \in DOMAIN h1 <=> n \in given /\ n \notin dropped
  <2>1. DOMAIN h0 = given
    BY <1>1
  <2>2. dropped = HOP_BY_HOP \cup (IF "connection" \in DOMAIN h0 THEN nominated ELSE {})
    BY <1>2, <2>1
  <2>3. h1 = Without(h0, dropped)
    BY <1>3, <2>2, Zenon DEF strip_hop_by_hop_headers
  <2>4. QED
    BY <2>1, <2>3, WithoutIs
<1>5. PICK h2 : h2 = Insert(h1, "host", "backend")
  OBVIOUS
<1>6. (\A n : n \in DOMAIN h2 <=> n \in DOMAIN h1 \/ n = "host") /\ h2["host"] = "backend"
  BY <1>5, InsertIs
<1>7. PICK g3 : g3 = Without(h2, FORWARDED)
  OBVIOUS
<1>8. (\A n : n \in DOMAIN g3 <=> n \in DOMAIN h2 /\ n \notin FORWARDED) /\ g3["host"] = "backend"
  <2>1. \A n : n \in DOMAIN g3 <=> n \in DOMAIN h2 /\ n \notin FORWARDED
    BY <1>7, WithoutIs
  <2>2. "host" \in DOMAIN h2 /\ "host" \notin FORWARDED
    BY <1>6 DEF FORWARDED
  <2>3. g3["host"] = h2["host"]
    BY <1>7, <2>2, WithoutIs
  <2>4. QED
    BY <1>6, <2>1, <2>3
<1>9. PICK h3 : h3 = apply_forwarded_headers(h2)
  OBVIOUS
<1>10. /\ \A n : n \in DOMAIN h3 <=> n \in DOMAIN g3 \/ n = "x-forwarded-for"
       /\ h3["x-forwarded-for"] = "peer" /\ h3["host"] = "backend"
  <2>1. h3 = Insert(g3, "x-forwarded-for", "peer")
    BY <1>7, <1>9 DEF apply_forwarded_headers
  <2>2. "host" \in DOMAIN g3
    BY <1>6, <1>8 DEF FORWARDED
  <2>3. h3["host"] = g3["host"]
    BY <2>1, <2>2, InsertIs
  <2>4. (\A n : n \in DOMAIN h3 <=> n \in DOMAIN g3 \/ n = "x-forwarded-for") /\ h3["x-forwarded-for"] = "peer"
    BY <2>1, InsertIs
  <2>5. QED
    BY <1>8, <2>3, <2>4
<1>11. PICK g4 : g4 = Without(h3, IDENTITY)
  OBVIOUS
<1>12. /\ \A n : n \in DOMAIN g4 <=> n \in DOMAIN h3 /\ n \notin IDENTITY
       /\ g4["host"] = "backend" /\ g4["x-forwarded-for"] = "peer"
  <2>1. \A n : n \in DOMAIN g4 <=> n \in DOMAIN h3 /\ n \notin IDENTITY
    BY <1>11, WithoutIs
  <2>2. "host" \in DOMAIN h3 /\ "x-forwarded-for" \in DOMAIN h3
    BY <1>6, <1>8, <1>10 DEF FORWARDED
  <2>3. "host" \notin IDENTITY /\ "x-forwarded-for" \notin IDENTITY
    BY DEF IDENTITY
  <2>4. g4["host"] = h3["host"] /\ g4["x-forwarded-for"] = h3["x-forwarded-for"]
    BY <1>11, <2>2, <2>3, WithoutIs
  <2>5. QED
    BY <1>10, <2>1, <2>4
<1>13. PICK h : h = apply_identity_headers(h3, identity)
  OBVIOUS
<1>14. /\ \A n : n \in DOMAIN h <=> n \in DOMAIN g4 \/ (n = "x-client-id" /\ identity # "none")
       /\ identity # "none" => h["x-client-id"] = identity
       /\ h["x-forwarded-for"] = "peer" /\ h["host"] = "backend"
  <2>1. CASE identity = "none"
    <3>1. h = g4
      BY <1>11, <1>13, <2>1 DEF apply_identity_headers
    <3>2. QED
      BY <1>12, <2>1, <3>1
  <2>2. CASE identity # "none"
    <3>1. h = Insert(g4, "x-client-id", identity)
      BY <1>11, <1>13, <2>2 DEF apply_identity_headers
    <3>2. "host" \in DOMAIN g4 /\ "x-forwarded-for" \in DOMAIN g4
      BY <1>6, <1>8, <1>10, <1>12 DEF FORWARDED, IDENTITY
    <3>3. h["host"] = g4["host"] /\ h["x-forwarded-for"] = g4["x-forwarded-for"] /\ h["x-client-id"] = identity
      BY <3>1, <3>2, InsertIs
    <3>4. \A n : n \in DOMAIN h <=> n \in DOMAIN g4 \/ n = "x-client-id"
      BY <3>1, InsertIs
    <3>5. QED
      BY <1>12, <2>2, <3>3, <3>4
  <2>3. QED
    BY <2>1, <2>2
<1>15. h = forward_request(h0, nominated, identity)
  BY <1>3, <1>5, <1>9, <1>13 DEF forward_request
<1>16. \A n : n \in DOMAIN h <=>
          \/ n = "host" \/ n = "x-forwarded-for" \/ (n = "x-client-id" /\ identity # "none")
          \/ n \in given /\ n \notin dropped /\ n \notin {"x-forwarded-for", "forwarded", "x-client-id"}
  BY <1>4, <1>6, <1>8, <1>10, <1>12, <1>14 DEF FORWARDED, IDENTITY
<1>17. "x-debug" \in DOMAIN h <=> "x-debug" \in given \ (IF "connection" \in given THEN nominated ELSE {})
  BY <1>2, <1>16 DEF HOP_BY_HOP
<1>18. DOMAIN h \cap (HOP_BY_HOP \cup {"forwarded"}) = {}
  BY <1>2, <1>16 DEF HOP_BY_HOP
<1>19. "host" \in DOMAIN h /\ "x-forwarded-for" \in DOMAIN h /\ ("x-client-id" \in DOMAIN h <=> identity # "none")
  BY <1>16
<1>20. QED
  <2>1. PICK ask : ask = question
    OBVIOUS
  <2>2. ask.sent = given /\ ask.nominated = nominated /\ ask.identity = identity
    BY <1>0, <2>1
  <2>3. forward_request([n \in ask.sent |-> "client"], ask.nominated, ask.identity) = h
    BY <1>1, <1>15, <2>2
  <2>4. QED
    BY <1>14, <1>17, <1>18, <1>19, <2>1, <2>2, <2>3 DEF HeadersProven

\* A backend's certificate counts only under a configuration with roots.
LEMMA HopAnswer == HopAsked => HopProven
<1> SUFFICES ASSUME NEW started \in SUBSET {"http", "https"}, NEW scheme \in {"http", "https"},
                    NEW by \in {"ca", "stranger"}, NEW cn \in {"b1", "other"},
                    question = [of |-> "hop", started |-> {[transport |-> "tcp", scheme |-> s] : s \in started},
                                backend |-> [transport |-> "tcp", scheme |-> scheme], cert |-> [by |-> by, cn |-> cn]]
             PROVE  HopProven
  BY DEF HopAsked
<1>1. PICK bs : bs = {[transport |-> "tcp", scheme |-> s] : s \in started}
  OBVIOUS
<1>2. /\ question.started = bs /\ question.backend = [transport |-> "tcp", scheme |-> scheme]
      /\ question.cert = [by |-> by, cn |-> cn]
  BY <1>1
<1>4. (\E b \in bs : b.scheme = "https") <=> "https" \in started
  <2>1. ASSUME "https" \in started PROVE \E b \in bs : b.scheme = "https"
    <3>1. [transport |-> "tcp", scheme |-> "https"] \in bs
      BY <1>1, <2>1
    <3>2. QED
      BY <3>1
  <2>2. ASSUME NEW b \in bs, b.scheme = "https" PROVE "https" \in started
    BY <1>1, <2>2
  <2>3. QED
    BY <2>1, <2>2
<1>3. (\E b \in bs : needs_client_tls(b)) <=> "https" \in started
  <2>1. ASSUME NEW b \in bs PROVE needs_client_tls(b) <=> b.scheme = "https"
    BY <1>1, <2>1 DEF needs_client_tls
  <2>2. QED
    BY <1>4, <2>1
<1>5. question.backend \in question.started /\ question.backend.scheme = "https" => "https" \in started
  BY <1>1, <1>2
<1>6. build_client_tls(bs).roots = IF "https" \in started THEN {"ca"} ELSE {}
  BY <1>3 DEF build_client_tls
<1>7. verify_server_cert(build_client_tls(bs), question.cert, "b1") <=> "https" \in started /\ by = "ca" /\ cn = "b1"
  BY <1>2, <1>6 DEF verify_server_cert
<1>8. question.cert = [by |-> "ca", cn |-> "b1"] <=> by = "ca" /\ cn = "b1"
  BY <1>2
<1>9. QED
  BY <1>2, <1>4, <1>5, <1>7, <1>8 DEF HopProven
\* Who is served is who the handshake proved.
LEMMA PeerAnswer == PeerAsked => PeerProven
<1> SUFFICES ASSUME NEW other \in [cert : Certs, alpn : SUBSET {"h2", ACME_TLS_ALPN}],
                    NEW d \in [policy : {"required", "optional", "disabled"}, server : {"manual", "acme"},
                               door : {"tcp", "quic", "tunnel"},
                               crl : BOOLEAN, acl : BOOLEAN, limited : BOOLEAN, draining : BOOLEAN,
                               revoked_keys : {{}, {1}}, revoked_names : {{}, {"d1"}}],
                    question = [of |-> "peer", peer |-> other, d |-> d], d.server = "acme" => ~ d.crl
             PROVE  PeerProven
  BY DEF PeerAsked
<1>0. question.d = d /\ question.peer = other
  OBVIOUS
<1>1. PICK cert : cert = other.cert
  OBVIOUS
<1>2. PICK who : who = connect_addr(d, other)
  OBVIOUS
<1>3. PICK cfg : cfg = build_server_tls(d)
  OBVIOUS
<1>4. /\ cfg.asks <=> d.policy # "disabled"
      /\ cfg.mandatory <=> d.policy = "required"
      /\ cfg.crl <=> d.policy # "disabled" /\ d.server = "manual" /\ d.crl
  BY <1>3 DEF build_server_tls, build_server_config_for_policy, build_acme_server_config_for_policy, builds_verifier, is_mandatory
<1>5. /\ cert.cn \in {"none", "d1", "missing", "long"} /\ cert.by \in {"none", "ca", "stranger"}
      /\ cert.cn = "none" <=> cert = NoCert
      /\ cert.by = "none" <=> cert = NoCert
  BY <1>1 DEF Certs, NoCert
<1>6. /\ who = NoIdentity \/ (cfg.asks /\ cert.cn = "d1" /\ who.cn = "d1" /\ who.key = cert.key /\ who = [cn |-> "d1", key |-> cert.key])
      /\ cfg.asks /\ cert.cn = "d1" => who # NoIdentity
  <2>1. who = IF cfg.asks /\ cert.cn = "d1" THEN [cn |-> cert.cn, key |-> cert.key] ELSE NoIdentity
    BY <1>1, <1>2, <1>3, <1>5 DEF connect_addr, from_leaf_der
  <2>2. [cn |-> "d1", key |-> cert.key] # NoIdentity
    BY DEF NoIdentity
  <2>3. QED
    BY <2>1, <2>2
<1>7. handshake_connection(d, other) <=>
        /\ ~ (d.server = "acme" /\ d.door = "tcp" /\ ACME_TLS_ALPN \in other.alpn)
        /\ other.alpn \cap TRAFFIC_ALPN # {}
        /\ cfg.asks => IF cert = NoCert THEN ~ cfg.mandatory ELSE cert.by = "ca" /\ ~ (cfg.crl /\ cert.crl)
  BY <1>1, <1>3 DEF handshake_connection, is_acme_probe, has_challenge_config, into_stream, verify_client_cert
<1>8. Served(d, other) <=>
        /\ handshake_connection(d, other)
        /\ IF d.door = "tunnel" THEN who # NoIdentity /\ ~ Denied(d, who)
           ELSE /\ ~ d.draining /\ d.acl /\ ~ d.limited /\ ~ Denied(d, who)
                /\ ~ (who = NoIdentity /\ d.policy = "required")
  BY <1>2 DEF Served, tunnel_admits, admit_client, reject_before_routing, allows_anonymous
<1>9. Denied(d, who) <=> who # NoIdentity /\ (who.key \in d.revoked_keys \/ who.cn \in d.revoked_names)
  BY DEF Denied
<1>10. ASSUME Served(d, other) PROVE who # NoIdentity =>
           /\ cert.by = "ca" /\ who.cn = cert.cn
           /\ ~ (d.server = "manual" /\ d.crl /\ cert.crl)
           /\ cert.key \notin d.revoked_keys /\ cert.cn \notin d.revoked_names
  BY <1>4, <1>5, <1>6, <1>7, <1>8, <1>9, <1>10
<1>11. ASSUME Served(d, other)
       PROVE  /\ who = NoIdentity => d.policy # "required" /\ d.door # "tunnel"
              /\ d.door = "tcp" /\ d.server = "acme" => ACME_TLS_ALPN \notin other.alpn
  BY <1>7, <1>8, <1>11
<1>12. ASSUME d.acl, ~ d.limited, ~ d.draining, d.door # "tunnel", other.alpn = {"h2"},
              \/ cert = NoCert /\ d.policy # "required"
              \/ cert.by = "ca" /\ cert.cn = "d1" /\ ~ cert.crl /\ ~ Denied(d, [cn |-> "d1", key |-> cert.key])
       PROVE  Served(d, other)
  <2>1. ACME_TLS_ALPN \notin other.alpn /\ other.alpn \cap TRAFFIC_ALPN # {}
    BY <1>12 DEF ACME_TLS_ALPN, TRAFFIC_ALPN
  <2>2. handshake_connection(d, other)
    BY <1>4, <1>5, <1>7, <1>12, <2>1
  <2>3. CASE cert = NoCert
    <3>1. who = NoIdentity
      BY <1>5, <1>6, <2>3
    <3>2. d.policy # "required"
      BY <1>5, <1>12, <2>3
    <3>3. QED
      BY <1>8, <1>9, <1>12, <2>2, <3>1, <3>2
  <2>4. CASE cert # NoCert
    <3>1. who = NoIdentity => ~ cfg.asks
      BY <1>6, <1>12, <2>4
    <3>2. ~ Denied(d, who)
      BY <1>6, <1>9, <1>12, <2>4
    <3>3. ~ (who = NoIdentity /\ d.policy = "required")
      BY <1>4, <3>1
    <3>4. QED
      BY <1>8, <1>12, <2>2, <3>2, <3>3
  <2>5. QED
    BY <2>3, <2>4
<1>13. /\ who # NoIdentity => "ca" \in build_server_trust_watcher(d)
       /\ cfg.crl => "crl" \in build_server_trust_watcher(d)
  BY <1>3, <1>4, <1>6 DEF build_server_trust_watcher
<1>14. QED
  <2>1. /\ Served(d, other) =>
             /\ who # NoIdentity =>
                  /\ cert.by = "ca" /\ who.cn = cert.cn
                  /\ ~ (d.server = "manual" /\ d.crl /\ cert.crl)
                  /\ cert.key \notin d.revoked_keys /\ cert.cn \notin d.revoked_names
             /\ who = NoIdentity => d.policy # "required" /\ d.door # "tunnel"
             /\ d.door = "tcp" /\ d.server = "acme" => ACME_TLS_ALPN \notin other.alpn
        /\ d.acl /\ ~ d.limited /\ ~ d.draining /\ d.door # "tunnel" /\ other.alpn = {"h2"} =>
             /\ cert = NoCert /\ d.policy # "required" => Served(d, other)
             /\ cert.by = "ca" /\ cert.cn = "d1" /\ ~ cert.crl /\ ~ Denied(d, [cn |-> "d1", key |-> cert.key])
                  => Served(d, other)
    <3>1. ASSUME Served(d, other)
          PROVE  /\ who # NoIdentity =>
                     /\ cert.by = "ca" /\ who.cn = cert.cn
                     /\ ~ (d.server = "manual" /\ d.crl /\ cert.crl)
                     /\ cert.key \notin d.revoked_keys /\ cert.cn \notin d.revoked_names
                 /\ who = NoIdentity => d.policy # "required" /\ d.door # "tunnel"
                 /\ d.door = "tcp" /\ d.server = "acme" => ACME_TLS_ALPN \notin other.alpn
      <4>1. who # NoIdentity =>
              /\ cert.by = "ca" /\ who.cn = cert.cn
              /\ ~ (d.server = "manual" /\ d.crl /\ cert.crl)
              /\ cert.key \notin d.revoked_keys /\ cert.cn \notin d.revoked_names
        BY <1>10, <3>1
      <4>2. /\ who = NoIdentity => d.policy # "required" /\ d.door # "tunnel"
            /\ d.door = "tcp" /\ d.server = "acme" => ACME_TLS_ALPN \notin other.alpn
        BY <1>11, <3>1
      <4>3. QED
        BY <4>1, <4>2
    <3>2. ASSUME d.acl /\ ~ d.limited /\ ~ d.draining /\ d.door # "tunnel" /\ other.alpn = {"h2"}
          PROVE  /\ cert = NoCert /\ d.policy # "required" => Served(d, other)
                 /\ cert.by = "ca" /\ cert.cn = "d1" /\ ~ cert.crl /\ ~ Denied(d, [cn |-> "d1", key |-> cert.key])
                      => Served(d, other)
      BY <1>12, <3>2, Zenon
    <3>3. QED
      BY <3>1, <3>2, Zenon
  <2>2. QED
    BY <1>0, <1>1, <1>2, <1>3, <1>13, <2>1 DEF PeerProven

\* The sixteen digits are different.
LEMMA HexOnce == \A v, w \in 1 .. 16 : HEX_ALPHABET[v] = HEX_ALPHABET[w] => v = w
<1>1. /\ HEX_ALPHABET[1] = "0" /\ HEX_ALPHABET[2] = "1" /\ HEX_ALPHABET[3] = "2" /\ HEX_ALPHABET[4] = "3"
      /\ HEX_ALPHABET[5] = "4" /\ HEX_ALPHABET[6] = "5" /\ HEX_ALPHABET[7] = "6" /\ HEX_ALPHABET[8] = "7"
      /\ HEX_ALPHABET[9] = "8" /\ HEX_ALPHABET[10] = "9" /\ HEX_ALPHABET[11] = "a" /\ HEX_ALPHABET[12] = "b"
      /\ HEX_ALPHABET[13] = "c" /\ HEX_ALPHABET[14] = "d" /\ HEX_ALPHABET[15] = "e" /\ HEX_ALPHABET[16] = "f"
  BY DEF HEX_ALPHABET
<1>2. \A v \in 1 .. 16 : \/ v = 1 \/ v = 2 \/ v = 3 \/ v = 4 \/ v = 5 \/ v = 6 \/ v = 7 \/ v = 8
                         \/ v = 9 \/ v = 10 \/ v = 11 \/ v = 12 \/ v = 13 \/ v = 14 \/ v = 15 \/ v = 16
  OBVIOUS
<1>3. QED
  BY <1>1, <1>2

\* hex_nibble is the value of a digit, in either case.
LEMMA NibbleIs ==
  ASSUME NEW c, IsHex(c)
  PROVE  /\ hex_nibble(c) \in 0 .. 15
         /\ c = HEX_ALPHABET[hex_nibble(c) + 1] \/ c = UPPER[hex_nibble(c) + 1]
<1>1. PICK v : v = CHOOSE w \in 1 .. 16 : c \in {HEX_ALPHABET[w], UPPER[w]}
  OBVIOUS
<1>2. v \in 1 .. 16 /\ c \in {HEX_ALPHABET[v], UPPER[v]}
  BY <1>1 DEF IsHex
<1>3. hex_nibble(c) = v - 1
  BY <1>1 DEF hex_nibble
<1>4. hex_nibble(c) \in 0 .. 15 /\ hex_nibble(c) + 1 = v
  BY <1>2, <1>3
<1>5. QED
  BY <1>2, <1>4

\* A byte and its halves.
LEMMA Halves ==
  /\ \A b \in 0 .. 255 : b \div 16 \in 0 .. 15 /\ b % 16 \in 0 .. 15
  /\ \A h, l \in 0 .. 15 : h * 16 + l \in 0 .. 255 /\ (h * 16 + l) \div 16 = h /\ (h * 16 + l) % 16 = l
<1>1. \A b \in 0 .. 255 : b \div 16 \in 0 .. 15 /\ b % 16 \in 0 .. 15
  <2> SUFFICES ASSUME NEW b \in 0 .. 255
               PROVE  b \div 16 \in 0 .. 15 /\ b % 16 \in 0 .. 15
    OBVIOUS
  <2>1. b \in Int /\ 0 <= b /\ b <= 255
    OBVIOUS
  <2>2. b \div 16 \in 0 .. 15
    BY <2>1
  <2>3. b % 16 \in 0 .. 15
    BY <2>1
  <2>5. QED
    BY <2>2, <2>3
<1>2. \A h, l \in 0 .. 15 : h * 16 + l \in 0 .. 255 /\ (h * 16 + l) \div 16 = h /\ (h * 16 + l) % 16 = l
  OBVIOUS
<1>3. QED
  BY <1>1, <1>2

\* Two bytes with the same halves are the same.
LEMMA SameByte == ASSUME NEW b \in 0 .. 255, NEW c \in 0 .. 255, b \div 16 = c \div 16, b % 16 = c % 16 PROVE b = c
OBVIOUS

\* The byte of a character, and the characters of a byte.
LEMMA Places ==
  ASSUME NEW L \in Nat
  PROVE  /\ \A i \in 1 .. 2 * L : \E j \in 1 .. L :
              (i + 1) \div 2 = j /\ ((i % 2 = 1 /\ i = 2 * j - 1) \/ (i % 2 # 1 /\ i = 2 * j))
         /\ \A j \in 1 .. L :
              /\ 2 * j - 1 \in 1 .. 2 * L /\ (2 * j - 1) % 2 = 1 /\ (2 * j - 1 + 1) \div 2 = j
              /\ 2 * j \in 1 .. 2 * L /\ (2 * j) % 2 = 0 /\ (2 * j + 1) \div 2 = j
<1>1. ASSUME NEW i \in 1 .. 2 * L
      PROVE  \E j \in 1 .. L :
              (i + 1) \div 2 = j /\ ((i % 2 = 1 /\ i = 2 * j - 1) \/ (i % 2 # 1 /\ i = 2 * j))
  <2>1. (i + 1) \div 2 \in 1 .. L
    OBVIOUS
  <2>2. (i % 2 = 1 /\ i = 2 * ((i + 1) \div 2) - 1) \/ (i % 2 # 1 /\ i = 2 * ((i + 1) \div 2))
    OBVIOUS
  <2>3. QED
    BY <2>1, <2>2
<1>2. ASSUME NEW j \in 1 .. L
      PROVE  /\ 2 * j - 1 \in 1 .. 2 * L /\ (2 * j - 1) % 2 = 1 /\ (2 * j - 1 + 1) \div 2 = j
             /\ 2 * j \in 1 .. 2 * L /\ (2 * j) % 2 = 0 /\ (2 * j + 1) \div 2 = j
  OBVIOUS
<1>3. QED
  BY <1>1, <1>2

\* The digit of a byte that stands at place i.
Half(byte, i) == IF i % 2 = 1 THEN byte \div 16 ELSE byte % 16

\* What a text that is accepted says: the denylist's key is written as the
\* allowlist's text, and no other key is.
LEMMA TextNamesKey ==
  ASSUME NEW t, WellFormed(t)
  PROVE  /\ decode_spki_hex(t) \in [1 .. SpkiLen -> 0 .. 255]
         /\ spki_hex(decode_spki_hex(t)) = normalize_spki_hex(t)
         /\ \A k \in [1 .. SpkiLen -> 0 .. 255] : spki_hex(k) = normalize_spki_hex(t) => k = decode_spki_hex(t)
         /\ \A i \in 1 .. Len(t) : \E v \in 1 .. 16 :
              /\ t[i] = HEX_ALPHABET[v] \/ t[i] = UPPER[v]
              /\ spki_hex(decode_spki_hex(t))[i] = HEX_ALPHABET[v]
<1> SpkiLen \in Nat
  BY TrustAssumption
<1>1. Len(t) = 2 * SpkiLen
  BY DEF WellFormed
<1>2. PICK nib : nib = [i \in 1 .. 2 * SpkiLen |-> hex_nibble(t[i])]
  OBVIOUS
<1>3. \A i \in 1 .. 2 * SpkiLen : /\ nib[i] = hex_nibble(t[i]) /\ nib[i] \in 0 .. 15
                                  /\ t[i] = HEX_ALPHABET[nib[i] + 1] \/ t[i] = UPPER[nib[i] + 1]
  <2> SUFFICES ASSUME NEW i \in 1 .. 2 * SpkiLen
               PROVE  /\ nib[i] = hex_nibble(t[i]) /\ nib[i] \in 0 .. 15
                      /\ t[i] = HEX_ALPHABET[nib[i] + 1] \/ t[i] = UPPER[nib[i] + 1]
    OBVIOUS
  <2>1. IsHex(t[i])
    BY <1>1 DEF WellFormed
  <2>2. nib[i] = hex_nibble(t[i])
    BY <1>2
  <2>3. QED
    BY <2>1, <2>2, NibbleIs
<1>4. PICK d : d = decode_spki_hex(t)
  OBVIOUS
<1>5. d = [j \in 1 .. SpkiLen |-> nib[2 * j - 1] * 16 + nib[2 * j]]
  <2>1. \A j \in 1 .. SpkiLen : 2 * j - 1 \in 1 .. 2 * SpkiLen /\ 2 * j \in 1 .. 2 * SpkiLen
    BY Places
  <2>2. \A j \in 1 .. SpkiLen : hex_nibble(t[2 * j - 1]) = nib[2 * j - 1] /\ hex_nibble(t[2 * j]) = nib[2 * j]
    BY <1>3, <2>1
  <2>3. QED
    BY <1>4, <2>2 DEF decode_spki_hex
<1>6. \A j \in 1 .. SpkiLen :
        /\ nib[2 * j - 1] \in 0 .. 15 /\ nib[2 * j] \in 0 .. 15 /\ d[j] = nib[2 * j - 1] * 16 + nib[2 * j]
        /\ d[j] \in 0 .. 255 /\ d[j] \div 16 = nib[2 * j - 1] /\ d[j] % 16 = nib[2 * j]
  <2> SUFFICES ASSUME NEW j \in 1 .. SpkiLen
               PROVE  /\ nib[2 * j - 1] \in 0 .. 15 /\ nib[2 * j] \in 0 .. 15 /\ d[j] = nib[2 * j - 1] * 16 + nib[2 * j]
                      /\ d[j] \in 0 .. 255 /\ d[j] \div 16 = nib[2 * j - 1] /\ d[j] % 16 = nib[2 * j]
    OBVIOUS
  <2>1. 2 * j - 1 \in 1 .. 2 * SpkiLen /\ 2 * j \in 1 .. 2 * SpkiLen
    BY Places
  <2>2. PICK h \in 0 .. 15, l \in 0 .. 15 : h = nib[2 * j - 1] /\ l = nib[2 * j]
    BY <1>3, <2>1
  <2>3. d[j] = h * 16 + l
    BY <1>5, <2>2
  <2>4. h * 16 + l \in 0 .. 255 /\ (h * 16 + l) \div 16 = h /\ (h * 16 + l) % 16 = l
    BY Halves
  <2>5. QED
    BY <2>2, <2>3, <2>4
<1>7. d \in [1 .. SpkiLen -> 0 .. 255]
  BY <1>5, <1>6
<1>8. \A i \in 1 .. 2 * SpkiLen : Half(d[(i + 1) \div 2], i) = nib[i]
  <2> SUFFICES ASSUME NEW i \in 1 .. 2 * SpkiLen PROVE Half(d[(i + 1) \div 2], i) = nib[i]
    OBVIOUS
  <2>1. PICK j \in 1 .. SpkiLen : (i + 1) \div 2 = j /\ ((i % 2 = 1 /\ i = 2 * j - 1) \/ (i % 2 # 1 /\ i = 2 * j))
    BY Places
  <2>2. QED
    BY <1>6, <2>1 DEF Half
<1>9. \A k : spki_hex(k) = [i \in 1 .. 2 * SpkiLen |-> HEX_ALPHABET[1 + Half(k[(i + 1) \div 2], i)]]
  BY DEF spki_hex, Half
<1>10. normalize_spki_hex(t) = [i \in 1 .. 2 * SpkiLen |-> HEX_ALPHABET[nib[i] + 1]]
  BY <1>1, <1>3 DEF normalize_spki_hex
<1>11. \A i \in 1 .. 2 * SpkiLen : 1 + Half(d[(i + 1) \div 2], i) = nib[i] + 1
  BY <1>3, <1>8
<1>12. spki_hex(d) = normalize_spki_hex(t)
  BY <1>9, <1>10, <1>11
<1>13. ASSUME NEW k \in [1 .. SpkiLen -> 0 .. 255], spki_hex(k) = normalize_spki_hex(t) PROVE k = d
  <2>1. ASSUME NEW i \in 1 .. 2 * SpkiLen PROVE HEX_ALPHABET[1 + Half(k[(i + 1) \div 2], i)] = HEX_ALPHABET[nib[i] + 1]
    BY <1>9, <1>10, <1>13, <2>1
  <2>2. ASSUME NEW j \in 1 .. SpkiLen PROVE k[j] = d[j]
    <3>1. k[j] \in 0 .. 255 /\ k[j] \div 16 \in 0 .. 15 /\ k[j] % 16 \in 0 .. 15
      BY <1>13, <2>2, Halves
    <3>2. k[j] \div 16 = nib[2 * j - 1]
      <4>1. PICK i \in 1 .. 2 * SpkiLen : i = 2 * j - 1 /\ i % 2 = 1 /\ (i + 1) \div 2 = j
        BY <2>2, Places
      <4>2. Half(k[(i + 1) \div 2], i) = k[j] \div 16
        BY <4>1 DEF Half
      <4>3. HEX_ALPHABET[1 + (k[j] \div 16)] = HEX_ALPHABET[nib[i] + 1]
        BY <2>1, <4>2
      <4>4. PICK x \in 0 .. 15, y \in 0 .. 15 : x = k[j] \div 16 /\ y = nib[i]
        BY <1>3, <3>1
      <4>5. x = y
        <5>1. HEX_ALPHABET[1 + x] = HEX_ALPHABET[y + 1]
          BY <4>3, <4>4
        <5>2. 1 + x \in 1 .. 16 /\ y + 1 \in 1 .. 16
          OBVIOUS
        <5>3. 1 + x = y + 1
          BY <5>1, <5>2, HexOnce
        <5>4. QED
          BY <5>3
      <4>6. QED
        BY <4>1, <4>4, <4>5
    <3>3. k[j] % 16 = nib[2 * j]
      <4>1. PICK i \in 1 .. 2 * SpkiLen : i = 2 * j /\ i % 2 = 0 /\ (i + 1) \div 2 = j
        BY <2>2, Places
      <4>2. Half(k[(i + 1) \div 2], i) = k[j] % 16
        BY <4>1 DEF Half
      <4>3. HEX_ALPHABET[1 + (k[j] % 16)] = HEX_ALPHABET[nib[i] + 1]
        BY <2>1, <4>2
      <4>4. PICK x \in 0 .. 15, y \in 0 .. 15 : x = k[j] % 16 /\ y = nib[i]
        BY <1>3, <3>1
      <4>5. x = y
        <5>1. HEX_ALPHABET[1 + x] = HEX_ALPHABET[y + 1]
          BY <4>3, <4>4
        <5>2. 1 + x \in 1 .. 16 /\ y + 1 \in 1 .. 16
          OBVIOUS
        <5>3. 1 + x = y + 1
          BY <5>1, <5>2, HexOnce
        <5>4. QED
          BY <5>3
      <4>6. QED
        BY <4>1, <4>4, <4>5
    <3>4. QED
      <4>1. d[j] \in 0 .. 255 /\ d[j] \div 16 = k[j] \div 16 /\ d[j] % 16 = k[j] % 16
        BY <1>6, <2>2, <3>2, <3>3
      <4>2. QED
        BY <3>1, <4>1, SameByte
  <2>3. QED
    BY <1>7, <1>13, <2>2
<1>14. ASSUME NEW i \in 1 .. Len(t)
       PROVE  \E v \in 1 .. 16 : (t[i] = HEX_ALPHABET[v] \/ t[i] = UPPER[v]) /\ spki_hex(d)[i] = HEX_ALPHABET[v]
  <2>1. i \in 1 .. 2 * SpkiLen
    BY <1>1
  <2>2. nib[i] + 1 \in 1 .. 16
    <3>1. PICK x \in 0 .. 15 : x = nib[i]
      BY <1>3, <2>1
    <3>2. x + 1 \in 1 .. 16
      OBVIOUS
    <3>3. QED
      BY <3>1, <3>2
  <2>3. spki_hex(d)[i] = HEX_ALPHABET[nib[i] + 1]
    BY <1>10, <1>12, <2>1
  <2>4. QED
    BY <1>3, <2>1, <2>2, <2>3
<1>15. QED
  BY <1>4, <1>7, <1>12, <1>13, <1>14

\* A text that is accepted names one key, to both lists.
LEMMA DenylistAnswer == DenylistAsked => SameKey
<1> DEFINE e == question.entry
           policy == [backend_id |-> "b1", known |-> {"b1"}, cns |-> {}, spkis |-> {e.spki}]
           Named == {k \in [1 .. SpkiLen -> 0 .. 255] : parse_revokes(e, k, "nobody")}
<1> SUFFICES ASSUME DenylistAsked, parse_accepts(e), e.spki # <<>>
             PROVE  /\ RawRelayAuthz_accepts(policy)
                    /\ Cardinality(Named) = 1
                    /\ \A k \in [1 .. SpkiLen -> 0 .. 255] : k \in Named <=> is_allowed({policy}, "b1", k, "nobody")
                    /\ \A k \in Named : \A i \in 1 .. Len(e.spki) :
                         \/ e.spki[i] = spki_hex(k)[i]
                         \/ \E v \in 1 .. 16 : e.spki[i] = UPPER[v] /\ spki_hex(k)[i] = HEX_ALPHABET[v]
  BY Zenon DEF SameKey
<1>0. e \in [spki : KeyTexts, backend_id : {"none", "d1", "overlong"}]
  BY DEF DenylistAsked
<1>1. PICK t : t = e.spki
  OBVIOUS
<1>2. WellFormed(t)
  BY <1>1 DEF parse_accepts
<1>3. PICK d \in [1 .. SpkiLen -> 0 .. 255] : d = decode_spki_hex(t)
  BY <1>2, TextNamesKey
<1>4. \A k : parse_revokes(e, k, "nobody") <=> d = k
  <2>1. e.backend_id # "nobody"
    BY <1>0
  <2>2. QED
    BY <1>1, <1>3, <2>1 DEF parse_revokes
<1>5. Named = {d}
  BY <1>4, ZenonT(60)
<1>6. Cardinality(Named) = 1
  BY <1>5, FS_Singleton
<1>7. RawRelayAuthz_accepts(policy)
  BY <1>1, <1>2 DEF RawRelayAuthz_accepts
<1>8. \A k : is_allowed({policy}, "b1", k, "nobody") <=> spki_hex(k) = normalize_spki_hex(t)
  BY <1>1 DEF is_allowed
<1>9. \A k \in [1 .. SpkiLen -> 0 .. 255] : k \in Named <=> is_allowed({policy}, "b1", k, "nobody")
  <2>1. spki_hex(d) = normalize_spki_hex(t)
    BY <1>2, <1>3, TextNamesKey
  <2>2. \A k \in [1 .. SpkiLen -> 0 .. 255] : spki_hex(k) = normalize_spki_hex(t) => k = d
    BY <1>2, <1>3, TextNamesKey
  <2>3. QED
    BY <1>5, <1>8, <2>1, <2>2
<1>10. \A i \in 1 .. Len(t) :
          \/ t[i] = spki_hex(d)[i]
          \/ \E v \in 1 .. 16 : t[i] = UPPER[v] /\ spki_hex(d)[i] = HEX_ALPHABET[v]
  <2> SUFFICES ASSUME NEW i \in 1 .. Len(t)
               PROVE  \/ t[i] = spki_hex(d)[i]
                      \/ \E v \in 1 .. 16 : t[i] = UPPER[v] /\ spki_hex(d)[i] = HEX_ALPHABET[v]
    OBVIOUS
  <2>1. PICK v \in 1 .. 16 : (t[i] = HEX_ALPHABET[v] \/ t[i] = UPPER[v]) /\ spki_hex(d)[i] = HEX_ALPHABET[v]
    <3>1. \A x \in 1 .. Len(t) : \E v \in 1 .. 16 :
            /\ t[x] = HEX_ALPHABET[v] \/ t[x] = UPPER[v]
            /\ spki_hex(decode_spki_hex(t))[x] = HEX_ALPHABET[v]
      BY <1>2, TextNamesKey, Zenon
    <3>2. QED
      BY <1>3, <3>1, Zenon
  <2>2. QED
    BY <2>1
<1>11. \A k \in Named : \A i \in 1 .. Len(e.spki) :
          \/ e.spki[i] = spki_hex(k)[i]
          \/ \E v \in 1 .. 16 : e.spki[i] = UPPER[v] /\ spki_hex(k)[i] = HEX_ALPHABET[v]
  <2> SUFFICES ASSUME NEW k \in Named, NEW i \in 1 .. Len(e.spki)
               PROVE  \/ e.spki[i] = spki_hex(k)[i]
                      \/ \E v \in 1 .. 16 : e.spki[i] = UPPER[v] /\ spki_hex(k)[i] = HEX_ALPHABET[v]
    OBVIOUS
  <2>1. k = d
    BY <1>5
  <2>2. QED
    BY <1>1, <1>10, <2>1
<1>12. QED
  BY <1>6, <1>7, <1>9, <1>11

\* What may be stored is what any request that may be answered from the cache
\* would have been answered.
LEMMA CacheAnswer ==
  ASSUME CacheAsked, NEW r, r = Answer(question.origin, question.request),
         should_cache_response(question.request, r), Put_stores(r),
         NEW q \in Requested, cache_lookup_applies(q), q.identity = question.request.identity
  PROVE  Answer(question.origin, q).body = r.body /\ (maybe_compress(q, r).encoded => q.encoding)
<1>1. PICK p \in Requested, b \in Origins : question = [of |-> "cache", request |-> p, origin |-> b]
  BY DEF CacheAsked
<1>2. question.request = p /\ question.origin = b
  BY <1>1
<1>3. PICK mine : mine = [a \in b.depends \ {"encoding"} |-> p[a]]
  OBVIOUS
<1>4. PICK yours : yours = [a \in b.depends \ {"encoding"} |-> q[a]]
  OBVIOUS
<1>5. PICK ranged : ranged = (p.range /\ b.ranges)
  OBVIOUS
<1>6. r = Answer(b, p)
  BY <1>2
<1>7. r.status = (IF p.range /\ b.ranges THEN 206 ELSE 200) /\ r.vary = b.depends /\ "encoded" \in DOMAIN r
  BY <1>6 DEF Answer
<1>8. Answer(b, p).body = <<[a \in b.depends \ {"encoding"} |-> p[a]], p.cookie, p.range /\ b.ranges>>
  BY Zenon DEF Answer
<1>9. r.body = <<mine, p.cookie, ranged>>
  BY <1>3, <1>5, <1>6, <1>8, Zenon
<1>10. ~ (p.range /\ b.ranges) /\ ~ r.encoded /\ b.depends \subseteq {"encoding", "identity"} /\ ~ p.cookie
  BY <1>2, <1>7 DEF should_cache_response, is_cacheable_status, vary_permits_caching, response_permits_shared_caching
<1>11. ~ q.cookie /\ ~ q.range
  BY DEF cache_lookup_applies
<1>12. mine = yours
  BY <1>2, <1>3, <1>4, <1>10
<1>13. p.cookie = q.cookie /\ ranged = (q.range /\ b.ranges)
  <2>1. p.cookie \in BOOLEAN /\ q.cookie \in BOOLEAN
    BY DEF Requested
  <2>2. QED
    BY <1>5, <1>10, <1>11, <2>1
<1>14. Answer(b, q).body = <<yours, q.cookie, q.range /\ b.ranges>>
  BY <1>4, Zenon DEF Answer
<1>15. Answer(b, q).body = r.body
  BY <1>9, <1>12, <1>13, <1>14
<1>16. maybe_compress(q, r).encoded => q.encoding
  <2>1. PICK more : more = (q.encoding /\ r.status # 206 /\ "no-transform" \notin r.directives)
    OBVIOUS
  <2>2. maybe_compress(q, r) = [r EXCEPT !.encoded = @ \/ more]
    BY <2>1, Zenon DEF maybe_compress
  <2>3. maybe_compress(q, r).encoded = (r.encoded \/ more)
    BY <1>7, <2>2
  <2>4. QED
    BY <1>10, <2>1, <2>3
<1>17. QED
  BY <1>2, <1>15, <1>16

\* The characters of a written key.
Chars == {"0", "1", "2", ":"}

\* Concatenation, for texts.
LEMMA CharCat == \A s, t \in Seq(Chars) : s \o t \in Seq(Chars)
OBVIOUS

\* It is associative.
LEMMA Charwise == \A s, t, u \in Seq(Chars) : (s \o t) \o u = s \o (t \o u)
OBVIOUS

\* And it can be undone where the lengths are known.
LEMMA CharSame == \A a, b, c, d \in Seq(Chars) : Len(a) = Len(c) /\ a \o b = c \o d => a = c /\ b = d
BY CatSame

\* A text has at most two characters, so its length is one digit.
LEMMA TextIs == \A s \in Texts : s \in Seq(Chars) /\ Len(s) \in 0 .. 2 /\ Digit[Len(s) + 1] \in Chars
<1> SUFFICES ASSUME NEW s \in Texts PROVE s \in Seq(Chars) /\ Len(s) \in 0 .. 2 /\ Digit[Len(s) + 1] \in Chars
  OBVIOUS
<1>1. PICK n \in 0 .. 2 : s \in [1 .. n -> {"1", ":"}]
  BY DEF Texts
<1>2. s \in Seq(Chars) /\ Len(s) = n
  BY <1>1 DEF Chars
<1>3. Digit[n + 1] \in Chars
  <2>1. n = 0 \/ n = 1 \/ n = 2
    OBVIOUS
  <2>2. QED
    BY <2>1 DEF Digit, Chars
<1>4. QED
  BY <1>2, <1>3

\* The first part of a key can be told from the rest.
Lengthed(s) == <<Digit[Len(s) + 1], ":">> \o s
\* Its length comes first, so where it ends is known.
LEMMA FirstPart ==
  ASSUME NEW s \in Texts, NEW t \in Texts, NEW x \in Seq(Chars), NEW y \in Seq(Chars),
         Lengthed(s) \o x = Lengthed(t) \o y
  PROVE  s = t /\ x = y
<1>1. /\ s \in Seq(Chars) /\ t \in Seq(Chars) /\ Len(s) \in 0 .. 2 /\ Len(t) \in 0 .. 2
      /\ Digit[Len(s) + 1] \in Chars /\ Digit[Len(t) + 1] \in Chars
  BY TextIs
<1>2. PICK a : a = <<Digit[Len(s) + 1], ":">>
  OBVIOUS
<1>3. PICK b : b = <<Digit[Len(t) + 1], ":">>
  OBVIOUS
<1>4. a \in Seq(Chars) /\ Len(a) = 2 /\ a[1] = Digit[Len(s) + 1] /\ b \in Seq(Chars) /\ Len(b) = 2 /\ b[1] = Digit[Len(t) + 1]
  <2>1. ":" \in Chars
    BY DEF Chars
  <2>2. QED
    BY <1>1, <1>2, <1>3, <2>1
<1>5. /\ (a \o s) \o x = a \o (s \o x) /\ (b \o t) \o y = b \o (t \o y)
      /\ s \o x \in Seq(Chars) /\ t \o y \in Seq(Chars)
  <2>1. (a \o s) \o x = a \o (s \o x)
    BY <1>1, <1>4, Charwise, ZenonT(60)
  <2>2. (b \o t) \o y = b \o (t \o y)
    BY <1>1, <1>4, Charwise, ZenonT(60)
  <2>3. s \o x \in Seq(Chars) /\ t \o y \in Seq(Chars)
    BY <1>1, CharCat, Zenon
  <2>4. QED
    BY <2>1, <2>2, <2>3
<1>6. a \o (s \o x) = b \o (t \o y)
  BY <1>2, <1>3, <1>5 DEF Lengthed
<1>7. a = b /\ s \o x = t \o y
  <2>1. Len(a) = Len(b)
    BY <1>4
  <2>2. QED
    BY <1>4, <1>5, <1>6, <2>1, CharSame, Zenon
<1>8. Digit[Len(s) + 1] = Digit[Len(t) + 1]
  BY <1>4, <1>7
<1>9. Len(s) = Len(t)
  <2>1. \A i, j \in 0 .. 2 : Digit[i + 1] = Digit[j + 1] => i = j
    <3>1. Digit[1] = "0" /\ Digit[2] = "1" /\ Digit[3] = "2"
      BY DEF Digit
    <3>2. \A i \in 0 .. 2 : i = 0 \/ i = 1 \/ i = 2
      OBVIOUS
    <3>3. QED
      BY <3>1, <3>2
  <2>2. QED
    BY <1>1, <1>8, <2>1
<1>10. QED
  BY <1>1, <1>7, <1>9, CatSame

\* The same for all texts.
LEMMA PartsFirst ==
  \A s, t \in Texts : \A x, y \in Seq(Chars) : Lengthed(s) \o x = Lengthed(t) \o y => s = t /\ x = y
BY FirstPart

\* A part is written in characters.
LEMMA LengthedIs == ASSUME NEW s \in Texts PROVE Lengthed(s) \in Seq(Chars)
<1>1. s \in Seq(Chars) /\ Digit[Len(s) + 1] \in Chars /\ ":" \in Chars
  BY TextIs DEF Chars
<1>2. <<Digit[Len(s) + 1], ":">> \in Seq(Chars)
  BY <1>1
<1>3. QED
  BY <1>1, <1>2, CatIs DEF Lengthed

\* No two keys are written alike.
LEMMA KeyAnswer ==
  ASSUME NEW j \in Keys, NEW k \in Keys, write_cache_key(k) = write_cache_key(j)
  PROVE  k = j
<1>1. /\ j.method \in Texts /\ j.path \in Texts /\ j.identity \in Texts
      /\ k.method \in Texts /\ k.path \in Texts /\ k.identity \in Texts
  BY DEF Keys
<1>2. \A x \in Keys : write_cache_key(x) = (Lengthed(x.method) \o Lengthed(x.path)) \o Lengthed(x.identity)
  BY DEF write_cache_key, Lengthed
<1>3. Lengthed(k.method) \in Seq(Chars) /\ Lengthed(k.path) \in Seq(Chars) /\ Lengthed(k.identity) \in Seq(Chars)
  BY <1>1, LengthedIs
<1>4. Lengthed(j.method) \in Seq(Chars) /\ Lengthed(j.path) \in Seq(Chars) /\ Lengthed(j.identity) \in Seq(Chars)
  BY <1>1, LengthedIs
<1>5. (Lengthed(k.method) \o Lengthed(k.path)) \o Lengthed(k.identity) = Lengthed(k.method) \o (Lengthed(k.path) \o Lengthed(k.identity))
  BY <1>3, Charwise, Zenon
<1>6. (Lengthed(j.method) \o Lengthed(j.path)) \o Lengthed(j.identity) = Lengthed(j.method) \o (Lengthed(j.path) \o Lengthed(j.identity))
  BY <1>4, Charwise, Zenon
<1>7. Lengthed(k.path) \o Lengthed(k.identity) \in Seq(Chars) /\ Lengthed(j.path) \o Lengthed(j.identity) \in Seq(Chars)
  BY <1>3, <1>4, CharCat, Zenon
<1>8. Lengthed(k.method) \o (Lengthed(k.path) \o Lengthed(k.identity)) = Lengthed(j.method) \o (Lengthed(j.path) \o Lengthed(j.identity))
  BY <1>5, <1>6, <1>2, Zenon
<1>9. k.method = j.method /\ Lengthed(k.path) \o Lengthed(k.identity) = Lengthed(j.path) \o Lengthed(j.identity)
  <2>1. \A x, y \in Seq(Chars) : Lengthed(k.method) \o x = Lengthed(j.method) \o y => k.method = j.method /\ x = y
    BY <1>1, PartsFirst, Zenon
  <2>2. PICK x \in Seq(Chars), y \in Seq(Chars) : x = Lengthed(k.path) \o Lengthed(k.identity) /\ y = Lengthed(j.path) \o Lengthed(j.identity)
    BY <1>7, Zenon
  <2>3. Lengthed(k.method) \o x = Lengthed(j.method) \o y
    BY <1>8, <2>2, Zenon
  <2>4. k.method = j.method /\ x = y
    BY <2>1, <2>3, Zenon
  <2>5. QED
    BY <2>2, <2>4, Zenon
<1>10. k.path = j.path /\ Lengthed(k.identity) = Lengthed(j.identity)
  <2>1. \A x, y \in Seq(Chars) : Lengthed(k.path) \o x = Lengthed(j.path) \o y => k.path = j.path /\ x = y
    BY <1>1, PartsFirst, Zenon
  <2>2. QED
    BY <1>3, <1>4, <1>9, <2>1, Zenon
<1>11. <<>> \in Seq(Chars) /\ Lengthed(k.identity) \o <<>> = Lengthed(j.identity) \o <<>>
  <2>1. <<>> \in Seq(Chars)
    OBVIOUS
  <2>2. QED
    BY <1>10, <2>1
<1>12. k.identity = j.identity
  BY <1>1, <1>11, PartsFirst, Zenon
<1>13. \A x \in Keys : x = [method |-> x.method, path |-> x.path, identity |-> x.identity]
  BY DEF Keys
<1>14. QED
  BY <1>9, <1>10, <1>12, <1>13

\* Both together are what the run checks.
LEMMA HitAnswer ==
  ASSUME question.of = "cache" => CacheAsked, question.of = "key" => KeyAsked
  PROVE  HitIsAnswer
<1>1. ASSUME question.of = "cache"
      PROVE  LET r == Answer(question.origin, question.request)
             IN  should_cache_response(question.request, r) /\ Put_stores(r) =>
                   \A q \in Requested :
                     cache_lookup_applies(q) /\ q.identity = question.request.identity =>
                       /\ Answer(question.origin, q).body = r.body
                       /\ maybe_compress(q, r).encoded => q.encoding
  <2>1. PICK r : r = Answer(question.origin, question.request)
    OBVIOUS
  <2>2. CacheAsked
    BY <1>1
  <2>3. ASSUME should_cache_response(question.request, r), Put_stores(r),
               NEW q \in Requested, cache_lookup_applies(q), q.identity = question.request.identity
        PROVE  Answer(question.origin, q).body = r.body /\ (maybe_compress(q, r).encoded => q.encoding)
    BY <2>1, <2>2, <2>3, CacheAnswer
  <2>4. QED
    BY <2>1, <2>3
<1>2. ASSUME question.of = "key", NEW k \in Keys, write_cache_key(k) = write_cache_key(question.key) PROVE k = question.key
  <2>1. question.key \in Keys
    BY <1>2 DEF KeyAsked
  <2>2. QED
    BY <1>2, <2>1, KeyAnswer
<1>3. QED
  BY <1>1, <1>2 DEF HitIsAnswer

-----------------------------------------------------------------------------
(* The parts together.                                                     *)

\* A step of the whole is a step of one part, which leaves the others alone.
LEMMA PartsStep ==
  [MCNext]_<<subject, partVars>> =>
     /\ [Next]_vars /\ [WatchNext]_watchVars /\ [ControlNext]_controlVars
     /\ [CompressNext]_compressVars /\ [StartupNext]_startupVars
     /\ [RulesNext \/ SettingsNext \/ TrustNext]_question
BY DEF MCNext, partVars

\* So a behaviour of the whole is one of each part.
LEMMA PartsOf ==
  MCSpec => /\ Spec /\ WatchSpec /\ StartupSpec
            /\ ControlInit /\ [][ControlNext]_controlVars
            /\ CompressInit /\ [][CompressNext]_compressVars
            /\ RulesInit /\ [][RulesNext \/ SettingsNext \/ TrustNext]_question
<1>1. MCInit => Init /\ WatchInit /\ RulesInit /\ ControlInit /\ CompressInit /\ StartupInit
  BY DEF MCInit
<1>2. QED
  BY <1>1, PartsStep, PTL DEF MCSpec, Spec, WatchSpec, StartupSpec

\* Nothing grows past its cap, whatever the caps are: the pool's connections,
\* the threads of a watcher, the bytes of a frame being read (MAX_FRAME_SIZE),
\* the attempts to bind, and the requests that one generation of a queue
\* admits to a pool while configurations are reloaded.
THEOREM EverythingBounded == MCSpec => []Bounded
<1>1. Spec => [](ReloadTypeOK /\ RequestInv)
  BY ReloadTypeCorrect
<1>2. Spec => []AdmissionBound
  BY AdmissionBounded
<1>3. WatchSpec => []WatchTypeOK
  BY WatchTypeCorrect
<1>4. ControlInit /\ [][ControlNext]_controlVars => []ControlInv
  BY ControlInitially, ControlInvStep, PTL
<1>5. CompressInit /\ [][CompressNext]_compressVars => []CompressInv
  BY CompressInitially, CompressInvStep, PTL
<1>6. StartupInv => StartupTypeOK
  BY DEF StartupInv
<1>7. StartupSpec => []StartupInv
  <2>1. StartupInit => StartupInv
    BY StartupInitially
  <2>2. QED
    BY <2>1, StartupInvStep, PTL DEF StartupSpec
<1>8. ReloadTypeOK /\ AdmissionBound /\ WatchTypeOK /\ ControlInv /\ CompressInv /\ StartupInv => Bounded
  BY <1>6, ControlPromises, CompressPromises DEF Bounded, TypeOK
<1>9. QED
  BY <1>1, <1>2, <1>3, <1>4, <1>5, <1>7, <1>8, PartsOf, PTL

\* Byte streams come out whole and in order, however their bytes are cut up
\* and whatever interrupts a read: the control loop acts on the frames that
\* the peer wrote, in its order, answers each heartbeat and writes nothing
\* after a write that failed (run_control_loop); a compressed body that comes to
\* its own end without an error is, decoded, what the backend sent, and one that
\* is ended before, by an error or by trailers, is the beginning of it
\* (CompressedBody::poll_frame).
THEOREM StreamsAreWhole == MCSpec => []ByteStreams
<1>1. ControlInit /\ [][ControlNext]_controlVars => []ControlInv
  BY ControlInitially, ControlInvStep, PTL
<1>2. CompressInit /\ [][CompressNext]_compressVars => []CompressInv
  BY CompressInitially, CompressInvStep, PTL
<1>3. ControlInv /\ CompressInv => ByteStreams
  BY ControlPromises, CompressPromises DEF ByteStreams
<1>4. QED
  BY <1>1, <1>2, <1>3, PartsOf, PTL

\* Whoever is served is who the handshake proved (build_server_tls,
\* connect_addr, reject_before_routing), a backend is told that identity and
\* the peer's address and nothing the client put in their place
\* (forward_request), a text of the denylist or the allowlist names one key,
\* the same to both, whatever the length of a hash (decode_spki_hex,
\* normalize_spki_hex), and a TLS backend proved its name (build_client_tls).
THEOREM IdentityAlwaysProven == MCSpec => []ProvenIdentity
<1>1. RulesInit /\ [][RulesNext \/ SettingsNext \/ TrustNext]_question => []Asked
  BY AskedInitially, AskedStep, PTL
<1>2. Asked => ProvenIdentity
  <2> SUFFICES ASSUME Asked PROVE ProvenIdentity
    OBVIOUS
  <2>1. HeadersProven
    BY HeadersAnswer DEF Asked, HeadersProven
  <2>2. PeerProven
    BY PeerAnswer DEF Asked, PeerProven
  <2>3. SameKey
    BY DenylistAnswer DEF Asked, SameKey
  <2>4. HopProven
    BY HopAnswer DEF Asked, HopProven
  <2>5. QED
    BY <2>1, <2>2, <2>3, <2>4 DEF ProvenIdentity, IdentityProven
<1>3. QED
  BY <1>1, <1>2, PartsOf, PTL

\* A response from the cache is what the origin would have answered, although
\* the key has neither cookies, ranges nor languages (should_cache_response,
\* cache_lookup_applies), and no two requests share a key that differ in a
\* part of it (write_cache_key).
THEOREM HitsAreAnswers == MCSpec => []HitIsAnswer
<1>1. RulesInit /\ [][RulesNext \/ SettingsNext \/ TrustNext]_question => []Asked
  BY AskedInitially, AskedStep, PTL
<1>2. Asked => HitIsAnswer
  BY HitAnswer DEF Asked
<1>3. QED
  BY <1>1, <1>2, PartsOf, PTL

\* A request is placed as its peer and its pool say: access control decides by
\* host, however the peer's address and the rule are spelt, for address
\* families of any width (AccessControl::check, canonicalize_net), and the
\* balancer takes an eligible backend, which stays when another one is excluded
\* or goes offline (select_with_pressure_excluding).
THEOREM RequestsPlaced == MCSpec => []Placement
<1>1. RulesInit /\ [][RulesNext \/ SettingsNext \/ TrustNext]_question => []Asked
  BY AskedInitially, AskedStep, PTL
<1>2. Asked => Placement
  <2> SUFFICES ASSUME Asked PROVE Placement
    OBVIOUS
  <2>1. OneHost
    BY AccessAnswer DEF Asked, OneHost
  <2>2. FailoverIsLocal
    BY SelectAnswer DEF Asked, FailoverIsLocal
  <2>3. QED
    BY <2>1, <2>2 DEF Placement
<1>3. QED
  BY <1>1, <1>2, PartsOf, PTL

\* A configuration that loads is safe to run: the longest prefix routes and the
\* order of the file does not, delays grow up to their bound, a QUIC backend has
\* its identity and an ingress its backend, listeners do not collide (validate);
\* what a section leaves out is usable, and a backend survives a round trip.
THEOREM ConfigsSafe == MCSpec => []SafeConfig
<1>1. RulesInit /\ [][RulesNext \/ SettingsNext \/ TrustNext]_question => []Asked
  BY AskedInitially, AskedStep, PTL
<1>2. Asked => SafeConfig
  <2> SUFFICES ASSUME Asked PROVE SafeConfig
    OBVIOUS
  <2>1. ValidatedConfig
    BY ConfigAnswer DEF Asked
  <2>2. SectionUsable
    BY SectionAnswer DEF Asked
  <2>3. BackendRoundTrip
    BY BackendAnswer DEF Asked
  <2>4. QED
    BY <2>1, <2>2, <2>3 DEF SafeConfig, SettingsKept
<1>3. QED
  BY <1>1, <1>2, PartsOf, PTL
=============================================================================
