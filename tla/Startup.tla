------------------------------ MODULE Startup ------------------------------
(***************************************************************************)
(* startup::run (startup/): the subsystems are built and the sockets bound *)
(* in a fixed order, readiness is announced (health_endpoint.rs), and the  *)
(* data plane's socket is bound last.  The tunnel listener binds in a task *)
(* of its own.  A socket is a protocol and an address; one that the        *)
(* process holds cannot be bound again, and any bind may fail (another     *)
(* process's socket, a privileged port, an address that is not the host's).*)
(***************************************************************************)
EXTENDS Naturals, Sequences

CONSTANT BindAddrs    \* the addresses that listeners are configured with

ASSUME StartupAssumption == BindAddrs \subseteq Nat \ {0}

Listeners == {"ingress", "redirect", "health", "tunnel", "data"}
Off == <<"off", 0>>
Sockets == {"tcp", "udp"} \X BindAddrs

VARIABLES
    plan,        \* the socket of each listener, Off when it is not enabled
    step,        \* the number of steps done
    bound,       \* listeners that have their socket
    tunnel,      \* the tunnel's task: "none", "spawned", "listening" or "failed"
    readyz,      \* what /readyz answers: "refused", "starting" or "ready"
    run          \* "starting", "serving" or "failed"

startupVars == <<plan, step, bound, tunnel, readyz, run>>

\* Mutant: the raw relay's policy is read after readiness was announced.
StepsReadyFirst ==
    <<"tls", "balancing", "revocation", "state", "reload", "gc", "ingress", "redirect", "tunnel", "warm", "health", "ready", "authz", "data">>

\* The order of run and spawn_background_tasks.
Steps ==
    <<"tls", "balancing", "revocation", "state", "reload", "gc", "ingress", "redirect", "tunnel", "warm", "health", "authz", "ready", "data">>
Now == Steps[step + 1]

\* validate: the HTTP listeners' addresses differ, whatever their protocols;
\* nothing is said of the ingress's and the tunnel's.
Validated(p) ==
    \A x, y \in {"data", "redirect", "health"} : x # y /\ p[x] # Off => p[x][2] # p[y][2]

StartupTypeOK ==
    /\ Validated(plan) /\ step \in 0 .. Len(Steps)
    /\ bound \subseteq Listeners
    /\ tunnel \in {"none", "spawned", "listening", "failed"}
    /\ readyz \in {"refused", "starting", "ready"}
    /\ run \in {"starting", "serving", "failed"}

StartupInit ==
    /\ plan \in {p \in [Listeners -> Sockets \cup {Off}] :
                   /\ p["data"] # Off
                   /\ {p["redirect"][1], p["health"][1]} \subseteq {"tcp", "off"} /\ p["tunnel"][1] \in {"udp", "off"}
                   /\ Validated(p)}
    /\ step = 0 /\ bound = {} /\ tunnel = "none"
    /\ readyz = "refused" /\ run = "starting"

Free(l) == \A b \in bound : plan[b] # plan[l]

Goes(s) == run = "starting" /\ Now = s
Done == step' = step + 1
Fail == run' = "failed" /\ readyz' = "refused" /\ bound' = {} /\ UNCHANGED <<step, tunnel>>

\* A step that succeeds or ends the process.
MayFail(s) ==
    /\ Goes(s)
    /\ \/ Done /\ UNCHANGED <<bound, tunnel, readyz, run>>
       \/ Fail
    /\ UNCHANGED plan

\* The files of TLS, the config watcher.
build_tls_setup == MayFail("tls")
\* A pool or the rate limiter may refuse its configuration.
build_balancing == MayFail("balancing")
\* A denylist that cannot be read is fatal, a watcher that cannot start is not.
setup_revocation_watcher == MayFail("revocation")
\* A policy may be malformed.
RawRelayAuthz_new == MayFail("authz")

\* build_proxy_state, spawn_config_reload_task and spawn_ratelimit_gc do not
\* fail, and neither does warm_up: a backend that is not there is skipped.
Infallible(s) ==
    /\ Goes(s) /\ s \in {"state", "reload", "gc", "warm"}
    /\ Done
    /\ UNCHANGED <<plan, bound, tunnel, readyz, run>>

\* Bind l now and go on, or fail; nothing when it is not enabled.
BindNow(l, answer) ==
    \/ plan[l] = Off /\ Done /\ UNCHANGED <<bound, readyz, tunnel, run>>
    \/ plan[l] # Off /\ Free(l) /\ Done /\ bound' = bound \cup {l} /\ readyz' = answer /\ UNCHANGED <<tunnel, run>>
    \/ plan[l] # Off /\ Fail

spawn_ingress_listeners == Goes("ingress") /\ BindNow("ingress", readyz) /\ UNCHANGED plan
spawn_http_redirect == Goes("redirect") /\ BindNow("redirect", readyz) /\ UNCHANGED plan
spawn_health_endpoint == Goes("health") /\ BindNow("health", "starting") /\ UNCHANGED plan

spawn_tunnel_listener ==
    /\ Goes("tunnel") /\ Done
    /\ tunnel' = IF plan["tunnel"] = Off THEN "none" ELSE "spawned"
    /\ UNCHANGED <<plan, bound, readyz, run>>

\* run_tunnel_listener in its task, whenever it is polled: a failure is logged.
run_tunnel_listener ==
    /\ tunnel = "spawned" /\ run # "failed"
    /\ \/ Free("tunnel") /\ tunnel' = "listening" /\ bound' = bound \cup {"tunnel"}
       \/ tunnel' = "failed" /\ UNCHANGED bound
    /\ UNCHANGED <<plan, step, readyz, run>>

set_ready ==
    /\ Goes("ready") /\ Done
    /\ readyz' = IF "health" \in bound THEN "ready" ELSE readyz
    /\ UNCHANGED <<plan, bound, tunnel, run>>

\* serve_transport up to its bind: build_quic_server_config, over QUIC, or the
\* bind may fail.
bind_data_plane ==
    /\ Goes("data")
    /\ \/ Free("data") /\ Done /\ bound' = bound \cup {"data"} /\ run' = "serving" /\ UNCHANGED <<tunnel, readyz>>
       \/ Fail
    /\ UNCHANGED plan

StartupNext ==
    \/ build_tls_setup \/ build_balancing \/ setup_revocation_watcher
    \/ \E s \in {"state", "reload", "gc", "warm"} : Infallible(s)
    \/ spawn_ingress_listeners \/ spawn_http_redirect \/ spawn_tunnel_listener \/ run_tunnel_listener
    \/ spawn_health_endpoint \/ RawRelayAuthz_new \/ set_ready \/ bind_data_plane

StartupSpec == StartupInit /\ [][StartupNext]_startupVars

-----------------------------------------------------------------------------
\* Readiness is announced as late as can be but for one step: a process that has
\* announced it and then fails does so over the data plane (every policy, file and
\* other socket was found good before).  One that serves has every listener that is
\* enabled, the tunnel's excepted, each with a socket of its own, and answers
\* that it is ready.
ReadyIsKept ==
    /\ run = "failed" /\ (\E i \in 1 .. step : Steps[i] = "ready") => Now = "data"
    /\ run = "serving" =>
         /\ \A l \in Listeners \ {"tunnel"} : plan[l] # Off => l \in bound
         /\ \A l, k \in bound : l # k => plan[l] # plan[k]
         /\ plan["health"] # Off => readyz = "ready"

\* health_endpoint.rs: "Ready: serving", and /readyz answers 503 before, "so traffic is
\* withheld until the proxy can serve".  Whenever it answers 200 the data plane is
\* there to take the traffic.
ReadyMeansServing == readyz = "ready" => "data" \in bound
=============================================================================
