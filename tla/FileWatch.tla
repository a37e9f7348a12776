------------------------------ MODULE FileWatch ------------------------------
(***************************************************************************)
(* Hot reload of files: the debounced watcher of fs_watch.rs and what is   *)
(* loaded through it - the configuration (config/watcher.rs), the tunnel   *)
(* denylist (tunnel/revocation_reload.rs), the certificate pairs and the   *)
(* trust stores (tls/reload.rs and its submodules) - and the second loader *)
(* of the denylist, the configuration reload task (config_reload.rs).      *)
(*                                                                         *)
(* An operator saves files by rename or in place.  Each event starts a     *)
(* thread that sleeps through the debounce, and loads if no event of its   *)
(* watcher came after its own.  Two facts about time are assumed, both by  *)
(* the guard of Wake: the two writes of an in-place save are closer than   *)
(* the debounce, and so are the read and the publication of a load.        *)
(***************************************************************************)
EXTENDS Naturals, FiniteSets, Sequences

CONSTANTS
    StartOrder,  \* the fs watchers, in the order in which startup creates them
    Triggers,    \* the files that each of them watches
    Consumers,   \* what is loaded: configuration, denylist, pairs, trust stores
    WatcherOf,   \* the watcher that reloads a consumer
    First,       \* the file a consumer's load reads first
    Second,      \* the file it reads next, or NoFile
    Pairs,       \* the consumers that are a certificate and its key
    EmptyOK,     \* files that may be empty: the denylist and the CRL
    Versions,    \* contents an operator saves; equal in a pair if cert and key match
    NoFile,
    MaxSaves     \* bound: saves by the operator

Watchers == {StartOrder[i] : i \in 1 .. Len(StartOrder)}
Files == UNION {Triggers[w] : w \in Watchers}
\* What a file holds: a version, or something that is none.  "invalid" parses
\* but fails the semantic checks.
Contents == [ver : Versions, as : {"good", "invalid", "garbled", "empty", "missing"}]
Good(v) == [ver |-> v, as |-> "good"]

ASSUME WatchAssumption ==
    /\ WatcherOf \in [Consumers -> Watchers]
    /\ First \in [Consumers -> Files] /\ Second \in [Consumers -> Files \cup {NoFile}]
    /\ NoFile \notin Files /\ Pairs \subseteq Consumers /\ EmptyOK \subseteq Files
    /\ \A c \in Consumers : {First[c], Second[c]} \ {NoFile} \subseteq Triggers[WatcherOf[c]]
    /\ {"config", "denylist"} \subseteq Consumers
    /\ Second["config"] = NoFile /\ Second["denylist"] = NoFile
    \* A pair has two files, and neither may be empty.
    /\ \A c \in Pairs : Second[c] # NoFile /\ {First[c], Second[c]} \cap EmptyOK = {}
    \* The deployments modelled: a file is loaded by one consumer only.
    /\ \A c, d \in Consumers : c # d => {First[c], Second[c]} \cap {First[d], Second[d]} \subseteq {NoFile}
    \* A watcher watches nothing that it does not load.
    /\ \A w \in Watchers : \A f \in Triggers[w] :
          \E c \in Consumers : WatcherOf[c] = w /\ f \in {First[c], Second[c]}
    /\ Versions # {} /\ MaxSaves \in Nat

VARIABLES
    disk,       \* what each file holds
    saved,      \* what the operator last saved in each
    saving,     \* the file an in-place save has truncated, or NoFile
    saves,      \* saves so far
    watching,   \* watchers that have registered their directories
    generation, \* of each watcher
    workers,    \* debounce threads: [w, gen, file, at, got]
    running,  \* what each consumer runs with: the contents of its two files
    untaken,     \* the reload task has a configuration to take
    task,       \* the reload task's re-read of the denylist: [at, gen, got]
    lost        \* history: why no load will pick up a consumer's last save, or "no"

watchVars == <<disk, saved, saving, saves, watching, generation, workers, running, untaken, task, lost>>

ReadsOf(c) == {First[c], Second[c]} \ {NoFile}
SavedOf(c) == [f \in ReadsOf(c) |-> saved[f]]
Idle(v) == [at |-> "idle", gen |-> 0, got |-> v]

\* The consumers an event on file f concerns: the winning event's path decides
\* which side of the certificate watcher reloads; a trust store is reloaded for
\* either of its files.
Affected(w, f) == {c \in Consumers : WatcherOf[c] = w /\ f \in ReadsOf(c)}

\* The consumer whose load k runs.
LoadOf(k) == CHOOSE c \in Affected(k.w, k.file) : TRUE

WatchTypeOK ==
    /\ disk \in [Files -> Contents] /\ saved \in [Files -> Contents]
    /\ saving \in Files \cup {NoFile}
    /\ saves \in 0 .. MaxSaves
    /\ watching \subseteq Watchers
    /\ generation \in [Watchers -> 0 .. 2 * MaxSaves]
    /\ \A k \in workers :
          /\ k.w \in watching /\ k.gen \in 1 .. generation[k.w] /\ k.file \in Triggers[k.w]
          /\ k.at \in {"sleep", "first", "second", "publish"}
          /\ k.got \in [DOMAIN k.got -> Contents] /\ DOMAIN k.got \subseteq ReadsOf(LoadOf(k))
    /\ \A c \in Consumers : running[c] \in [ReadsOf(c) -> Contents]
    /\ untaken \in BOOLEAN
    /\ task.at \in {"idle", "read"}
    /\ lost \in [Consumers -> {"no", "missed", "shadowed", "quarantined"}]

\* Startup has loaded every file; the watchers are registered after that.
WatchInit ==
    LET v == CHOOSE x \in Versions : TRUE
    IN  /\ disk = [f \in Files |-> Good(v)] /\ saved = disk
        /\ saving = NoFile /\ saves = 0 /\ watching = {}
        /\ generation = [w \in Watchers |-> 0]
        /\ workers = {}
        /\ running = [c \in Consumers |-> [f \in ReadsOf(c) |-> Good(v)]]
        /\ untaken = FALSE /\ task = Idle(Good(v))
        /\ lost = [c \in Consumers |-> "no"]

\* spawn_trailing_edge_watcher registers the parent directories.
Register(w) ==
    /\ w \notin watching /\ w = StartOrder[Cardinality(watching) + 1]
    /\ watching' = watching \cup {w}
    /\ UNCHANGED <<disk, saved, saving, saves, generation, workers, running, untaken, task, lost>>

-----------------------------------------------------------------------------
(* Which contents load.                                                    *)

\* PEM bundles, keys and the configuration must not be empty; a denylist or
\* a CRL may.
Parses(f, x) == x.as \in {"good", "invalid"} \/ (x.as = "empty" /\ f \in EmptyOK)

\* Mutant: certificate and key are not compared.
build_unchecked_key(c, got) ==
    \A f \in ReadsOf(c) : Parses(f, got[f]) /\ got[f].as # "invalid"

\* A load succeeds if each file parses and passes its checks, and the key is
\* that of the certificate.
build_certified_key(c, got) ==
    /\ \A f \in ReadsOf(c) : Parses(f, got[f]) /\ got[f].as # "invalid"
    /\ c \in Pairs => got[First[c]].ver = got[Second[c]].ver

Loads(c, got) == build_certified_key(c, got)

-----------------------------------------------------------------------------
(* Saves and events.                                                       *)

\* A consumer whose newest event, still asleep, is superseded by one on f that
\* does not concern it.
Shadowed(w, f) ==
    (UNION {Affected(w, k.file) : k \in {j \in workers : /\ j.w = w /\ j.at = "sleep"
                                                         /\ j.gen = generation[w]}})
        \ Affected(w, f)

\* What becomes of the last save of each consumer when f is saved and ws hear of it.
Noted(ws, f) ==
    [c \in Consumers |->
        CASE f \in ReadsOf(c) -> IF WatcherOf[c] \in ws THEN "no" ELSE "missed"
          [] \E w \in ws : c \in Shadowed(w, f) -> "shadowed"
          [] OTHER -> lost[c]]

\* Mutant: the thread remembers the generation before its own increment.
EventOffByOne(f) ==
    LET ws == {w \in watching : f \in Triggers[w]}
    IN  /\ generation' = [w \in Watchers |-> generation[w] + IF w \in ws THEN 1 ELSE 0]
        /\ workers' = workers \cup
             {[w |-> w, gen |-> generation[w], file |-> f, at |-> "sleep", got |-> << >>] : w \in ws}
        /\ lost' = Noted(ws, f)

\* An event on f: every watcher of f counts it and starts a thread.  Before its
\* watcher is registered there is no event.
Event(f) ==
    LET ws == {w \in watching : f \in Triggers[w]}
    IN  /\ generation' = [w \in Watchers |-> generation[w] + IF w \in ws THEN 1 ELSE 0]
        /\ workers' = workers \cup
             {[w |-> w, gen |-> generation[w] + 1, file |-> f, at |-> "sleep", got |-> << >>] : w \in ws}
        /\ lost' = Noted(ws, f)

\* The operator replaces f by rename: one event, never a partial file.
SaveByRename(f, x) ==
    /\ saving = NoFile /\ saves < MaxSaves
    /\ saves' = saves + 1
    /\ disk' = [disk EXCEPT ![f] = x] /\ saved' = [saved EXCEPT ![f] = x]
    /\ Event(f)
    /\ UNCHANGED <<saving, watching, running, untaken, task>>

\* The operator writes f in place: truncated first, then written.
SaveTruncate(f, x) ==
    /\ saving = NoFile /\ saves < MaxSaves
    /\ saves' = saves + 1
    /\ saving' = f
    /\ disk' = [disk EXCEPT ![f] = [x EXCEPT !.as = "empty"]]
    /\ saved' = [saved EXCEPT ![f] = x]
    /\ Event(f)
    /\ UNCHANGED <<watching, running, untaken, task>>

SaveWrite ==
    /\ saving # NoFile /\ disk[saving].as # "missing"
    /\ disk' = [disk EXCEPT ![saving] = saved[saving]]
    /\ saving' = NoFile
    /\ Event(saving)
    /\ UNCHANGED <<saved, saves, watching, running, untaken, task>>

\* The file was moved away after it was truncated: the writer's second write
\* goes to the moved file, of which no watcher hears.
SaveWriteMoved ==
    /\ saving # NoFile /\ disk[saving].as = "missing"
    /\ saving' = NoFile
    /\ lost' = [c \in Consumers |-> IF saving \in ReadsOf(c) THEN "quarantined" ELSE lost[c]]
    /\ UNCHANGED <<disk, saved, saves, watching, generation, workers, running, untaken, task>>

-----------------------------------------------------------------------------
(* A debounce thread.                                                      *)

Newest(k) == generation[k.w] = k.gen
Step(k, at, got) ==
    workers' = (workers \ {k}) \cup {[w |-> k.w, gen |-> k.gen, file |-> k.file, at |-> at, got |-> got]}
Retire(k) == workers' = workers \ {k}

\* The thread wakes up and finds a newer event.
WakeStale(k) ==
    /\ k \in workers /\ k.at = "sleep" /\ ~Newest(k)
    /\ Retire(k)
    /\ UNCHANGED <<disk, saved, saving, saves, watching, generation, running, untaken, task, lost>>

\* It wakes up as the newest.  The debounce has passed since its event: an
\* in-place save that caused it is complete, and so is every load that began
\* before it.
Wake(k) ==
    /\ k \in workers /\ k.at = "sleep" /\ Newest(k)
    /\ saving \notin Triggers[k.w]
    /\ \A j \in workers : j.w = k.w => j.at = "sleep"
    /\ ~(LoadOf(k) = "denylist" /\ task.at = "read" /\ task.gen < k.gen)
    /\ Step(k, "first", << >>)
    /\ UNCHANGED <<disk, saved, saving, saves, watching, generation, running, untaken, task, lost>>

\* load_or_recover moves a configuration file away that does not parse.
Quarantine(c, f, d) ==
    IF c = "config" /\ d[f].as # "missing" /\ ~Parses(f, d[f])
    THEN [d EXCEPT ![f].as = "missing"] ELSE d

ReadFirst(k) ==
    /\ k \in workers /\ k.at = "first"
    /\ LET c == LoadOf(k)
           f == First[c]
       IN  /\ disk' = Quarantine(c, f, disk)
           /\ IF ~Parses(f, disk[f]) THEN Retire(k)
              ELSE Step(k, IF Second[c] = NoFile THEN "publish" ELSE "second",
                        [g \in {f} |-> disk[f]])
    /\ UNCHANGED <<saved, saving, saves, watching, generation, running, untaken, task, lost>>

ReadSecond(k) ==
    /\ k \in workers /\ k.at = "second"
    /\ LET c == LoadOf(k)
           got == [f \in ReadsOf(c) |-> IF f = First[c] THEN k.got[f] ELSE disk[f]]
       IN  Step(k, "publish", got)
    /\ UNCHANGED <<disk, saved, saving, saves, watching, generation, running, untaken, task, lost>>

\* The load is swapped in; a load that fails leaves what was there.  A new
\* configuration wakes the reload task.
Reloaded(k) ==
    /\ k \in workers /\ k.at = "publish"
    /\ LET c == LoadOf(k)
           ok == Loads(c, k.got)
       IN  /\ running' = IF ok THEN [running EXCEPT ![c] = k.got] ELSE running
           /\ untaken' = (untaken \/ (ok /\ c = "config"))
    /\ Retire(k)
    /\ UNCHANGED <<disk, saved, saving, saves, watching, generation, task, lost>>

-----------------------------------------------------------------------------
(* The reload task reads the denylist again for every configuration.       *)

TaskRead ==
    /\ untaken /\ task.at = "idle"
    /\ untaken' = FALSE
    /\ task' = [at |-> "read", gen |-> generation[WatcherOf["denylist"]], got |-> disk[First["denylist"]]]
    /\ UNCHANGED <<disk, saved, saving, saves, watching, generation, workers, running, lost>>

TaskPublish ==
    /\ task.at = "read"
    /\ LET got == [f \in ReadsOf("denylist") |-> task.got]
       IN  running' = IF Loads("denylist", got) THEN [running EXCEPT !["denylist"] = got]
                        ELSE running
    /\ task' = Idle(task.got)
    /\ UNCHANGED <<disk, saved, saving, saves, watching, generation, workers, untaken, lost>>

Operator ==
    \/ \E f \in Files, x \in Contents :
          /\ x.as \in {"good", "garbled"} \/ (x.as = "invalid" /\ f = First["config"])
          /\ SaveByRename(f, x) \/ SaveTruncate(f, x)
    \/ SaveWrite \/ SaveWriteMoved

WatchNext ==
    \/ Operator
    \/ \E w \in Watchers : Register(w)
    \/ \E k \in workers : WakeStale(k) \/ Wake(k) \/ ReadFirst(k) \/ ReadSecond(k) \/ Reloaded(k)
    \/ TaskRead \/ TaskPublish

WatchSpec == WatchInit /\ [][WatchNext]_watchVars

-----------------------------------------------------------------------------
(* Properties.                                                             *)

Quiet == workers = {} /\ ~untaken /\ task.at = "idle" /\ saving = NoFile

\* Once no save, thread or task is under way, everything that is loaded from
\* files runs with what was last saved, or keeps its last good load if that does
\* not load.  There are three exceptions: a save before the watcher was
\* registered, one whose event an event on the other side's files superseded
\* (CertWatcher), and a configuration moved away half saved (load_or_recover).
FollowsFile ==
    Quiet => \A c \in Consumers :
        lost[c] = "no" /\ Loads(c, SavedOf(c)) => running[c] = SavedOf(c)

\* Whatever the operator does between the two reads of a load, a certificate is
\* only ever served with its own key, and neither is a partial file
\* (ReloadingCertResolver::reload keeps the previous pair).
PairMatches ==
    \A c \in Pairs : /\ running[c][First[c]].ver = running[c][Second[c]].ver
                     /\ \A f \in ReadsOf(c) : running[c][f].as = "good"
=============================================================================
