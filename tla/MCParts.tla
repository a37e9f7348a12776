------------------------------ MODULE MCParts -------------------------------
(***************************************************************************)
(* The parts of the proxy of which safety alone is asked.  A behaviour is  *)
(* about one of them: a reload that is applied under requests, files being *)
(* loaded, a tunnel's control stream, a body being compressed, the start   *)
(* of the process, or the questions to Rules, Settings and Trust.          *)
(*                                                                         *)
(* Reload has one path: c1 routes it to pool p1 at a1, c2 to the pool of   *)
(* backend b2 at a2, and crowded has more members than max_backends; a     *)
(* save of c1 while c1 is published changes no route and no backend.       *)
(***************************************************************************)
EXTENDS Reload, FileWatch, Settings, Trust, Control, Compress, Startup, TLC

CONSTANTS c1, c2, crowded, p1, b1, b2, a1, a2, path1

One(b, p, a) == [routes |-> path1 :> p, pool |-> b :> p, addr |-> b :> a, conns |-> b :> 1]
MCContent ==
    [c \in Configs |->
        CASE c = c2 -> One(b2, b2, a2)
          [] c = crowded -> [routes |-> path1 :> p1, pool |-> (b1 :> p1) @@ (b2 :> p1),
                             addr |-> (b1 :> a1) @@ (b2 :> a2), conns |-> (b1 :> 1) @@ (b2 :> 1)]
          [] OTHER -> One(b1, p1, a1)]
MCTransport == [b \in Backends |-> IF b = b1 THEN "h2" ELSE "quic"]
Symmetry == Permutations(Requests)

\* The watched files, and what is loaded from them.
FilesOf ==
    [config |-> {"config"}, revocation |-> {"denylist"},
     cert |-> {"s_cert", "s_key", "c_cert", "c_key"}, trust |-> {"ca", "crl"}]
Order == <<"config", "cert", "trust", "revocation">>
Loaded == {"config", "denylist", "server", "client", "trust"}
LoadedBy ==
    [config |-> "config", denylist |-> "revocation", server |-> "cert", client |-> "cert", trust |-> "trust"]
ReadFirstOf ==
    [config |-> "config", denylist |-> "denylist", server |-> "s_cert", client |-> "c_cert", trust |-> "ca"]
ReadNextOf ==
    [config |-> "none", denylist |-> "none", server |-> "s_key", client |-> "c_key", trust |-> "crl"]

VARIABLE subject
partVars == <<vars, watchVars, question, controlVars, compressVars, startupVars>>

MCInit ==
    /\ subject \in {"reload", "files", "rules", "control", "compress", "startup"}
    /\ Init /\ WatchInit /\ RulesInit /\ ControlInit /\ CompressInit /\ StartupInit
    \* One initial state of each part that is at rest.
    /\ subject # "control" => peer = CHOOSE p \in Peers : TRUE
    /\ subject # "compress" => expands = 0
    /\ subject # "startup" => plan = [l \in Listeners |-> IF l = "data" THEN <<"tcp", 1>> ELSE Off]
MCNext ==
    /\ UNCHANGED subject
    /\ \/ subject = "reload" /\ Next /\ UNCHANGED <<watchVars, question, controlVars, compressVars, startupVars>>
       \/ subject = "files" /\ WatchNext /\ UNCHANGED <<vars, question, controlVars, compressVars, startupVars>>
       \/ subject = "rules" /\ (RulesNext \/ SettingsNext \/ TrustNext) /\ UNCHANGED <<vars, watchVars, controlVars, compressVars, startupVars>>
       \/ subject = "control" /\ ControlNext /\ UNCHANGED <<vars, watchVars, question, compressVars, startupVars>>
       \/ subject = "compress" /\ CompressNext /\ UNCHANGED <<vars, watchVars, question, controlVars, startupVars>>
       \/ subject = "startup" /\ StartupNext /\ UNCHANGED <<vars, watchVars, question, controlVars, compressVars>>
MCSpec == MCInit /\ [][MCNext]_<<subject, partVars>>

TypeOK == ReloadTypeOK /\ WatchTypeOK /\ ControlTypeOK /\ CompressTypeOK /\ StartupTypeOK

\* Nothing grows past its cap: the pool's connections, the watchers' threads,
\* the requests that a queue admits to a pool across reloads.
Bounded == TypeOK /\ AdmissionBound

\* Whoever is served, and whatever a backend is told of it, is who the
\* handshake proved.
ProvenIdentity == HeadersProven /\ IdentityProven

\* A configuration that is loaded is one to run with, whatever the file leaves
\* out, and a backend that is written is read as it was.
SafeConfig == ValidatedConfig /\ SettingsKept

\* What goes over a byte stream comes out of it whole and in order: a tunnel's
\* frames, a compressed body.
ByteStreams == FramesInStep /\ CompressAccounted
=============================================================================
