------------------------------ MODULE Settings ------------------------------
(***************************************************************************)
(* The sections of the configuration file (config/types/): what a table of *)
(* TOML is read as, what of a changed file takes effect without a restart  *)
(* and what the reload says about the rest (config/watcher.rs).            *)
(*                                                                         *)
(* A section is a function from its fields to how each is read; a table is *)
(* a function from the fields that the file has to their values.  Like     *)
(* Rules, whose variable it shares, it asks one question at a time.        *)
(***************************************************************************)
EXTENDS Rules

\* The largest number here stands for u32::MAX and u64::MAX.
MAX_NUMBER == 2147483647

\* A field: its default, if any, the legal values, and those that are tried.
Number(default, least) == [default |-> <<default>>, legal |-> least .. MAX_NUMBER, tried |-> {0, 1, 257}]
NonZero(default) == Number(default, 1)
OptionNonZero == [default |-> <<0>>, legal |-> 1 .. MAX_NUMBER, tried |-> {0, 1}]    \* None is 0
Choice(default, legal) == [default |-> <<default>>, legal |-> legal, tried |-> legal \cup {"bogus"}]
Switch(default) == Choice(default, {"true", "false"})
Option == Choice("None", {"some"})
Required(legal) == [default |-> <<>>, legal |-> legal, tried |-> legal \cup {"bogus"}]

-----------------------------------------------------------------------------
(* The sections.                                                           *)

HARD_MAX_BACKENDS == 256
BalancerConfig ==
    [queue_depth |-> Number(1000, 0), drain_timeout_secs |-> Number(30, 0),
     max_backends |-> [NonZero(64) EXCEPT !.legal = 1 .. HARD_MAX_BACKENDS]]
TimeoutConfig ==
    [connect_secs |-> NonZero(5), handshake_secs |-> NonZero(5), request_secs |-> NonZero(30), response_idle_secs |-> NonZero(60)]
RateLimitConfig == [requests_per_second |-> Number(MAX_NUMBER, 0), retain_interval_secs |-> NonZero(300)]
AccessControlConfig == [allow |-> Choice("[]", {"[]", "nets"}), deny |-> Choice("[]", {"[]", "nets"})]
MetricsConfig == [otlp_endpoint |-> Option]
TracingConfig == [otlp_endpoint |-> Option, sample_ratio |-> Choice("1.0", {"0.1", "1.0"})]
ProxyConfig ==
    [max_response_body_bytes |-> Number(10485760, 0), max_request_body_bytes |-> Number(10485760, 0),
     h2_connections_per_backend |-> NonZero(4), max_idle_quic_per_host |-> Number(16, 0),
     h2_stream_window |-> Number(2097152, 0), h2_conn_window |-> Number(4194304, 0),
     inline_compress_threshold |-> Number(8192, 0), quic_channel_capacity |-> NonZero(256), wake_timeout_secs |-> NonZero(30)]
CompressionConfig == [enabled |-> Switch("true"), level |-> Number(3, 0), min_bytes |-> Number(256, 0)]
HealthConfig == [staleness_ttl_secs |-> Number(300, 0), latency_threshold_ms |-> Number(500, 0)]
CircuitBreakerConfig ==
    [failure_threshold |-> NonZero(5), recovery_timeout_secs |-> Number(60, 0), half_open_max_requests |-> NonZero(2)]
RetryConfig ==
    [max_retries |-> Number(2, 0), base_delay_ms |-> Number(200, 0), max_delay_ms |-> Number(2000, 0), jitter_ms |-> Number(100, 0)]
TunnelConfig ==
    [enabled |-> Switch("false"), listen_address |-> Option, heartbeat_timeout_secs |-> Number(45, 0),
     allowed_backend_ids |-> Choice("[]", {"[]", "ids"}), max_sessions_per_backend |-> NonZero(8),
     registration_timeout_secs |-> Number(10, 0), control_channel_capacity |-> NonZero(16), revocation_path |-> Option,
     max_total_sessions |-> OptionNonZero, max_accepts_per_second_per_ip |-> OptionNonZero, control_plane_health |-> Switch("false")]
CacheConfig ==
    [enabled |-> Switch("false"), max_entries |-> NonZero(1000), max_entry_bytes |-> NonZero(1048576), default_ttl_secs |-> NonZero(60)]

ClientAuthPolicies == {"required", "optional", "disabled"}
ListenConfig ==
    [address |-> Required({"addr"}), transport |-> Required({"tcp", "quic"}), client_auth |-> Choice("required", ClientAuthPolicies)]
HttpRedirectConfig == [enabled |-> Switch("false"), listen |-> Choice("0.0.0.0:80", {"addr"}), to_host |-> Choice("", {"host"})]
HealthEndpointConfig == [enabled |-> Switch("false"), listen |-> Choice("127.0.0.1:9090", {"addr"})]
RouteConfig ==
    [path_prefix |-> Required({"prefix"}), backend_id |-> Required({"id"}), timeout_secs |-> Number(0, 0)]    \* None is 0
IngressConfig ==
    [id |-> Required({"id"}), protocol |-> Required({"udp", "tcp"}), listen |-> Required({"addr"}), backend_ids |-> Required({"ids"}),
     workers |-> Number(0, 0), recv_buffer_bytes |-> Number(8388608, 0), max_datagram_bytes |-> Number(8192, 0),
     batch_max_datagrams |-> Number(512, 0), batch_max_bytes |-> Number(61440, 0), linger_ms |-> Number(20, 0),
     queue_depth_per_backend |-> Number(4096, 0), max_connections |-> Number(0, 0), idle_timeout_secs |-> Number(0, 0)]
TlsIdentity ==
    [cert_path |-> Required({"path"}), key_path |-> Required({"path"}), ca_cert_path |-> Required({"path"}), crl_path |-> Option]
AcmeTlsConfig ==
    [domains |-> Required({"names"}), acme_email |-> Required({"mail"}), ca_cert_path |-> Option,
     cache_dir |-> Choice("./acme_cache", {"path"}), staging |-> Switch("false"), directory_url |-> Option,
     directory_ca_cert |-> Option, barrel_state |-> Option]
BarrelStateConfig == [env_var |-> Choice("REDUCTION_ACME_STATE", {"name"}), persist_command |-> Required({"[]", "command"})]

Schemas ==
    [balancer |-> BalancerConfig, timeouts |-> TimeoutConfig, ratelimit |-> RateLimitConfig, access |-> AccessControlConfig,
     metrics |-> MetricsConfig, tracing |-> TracingConfig, proxy |-> ProxyConfig, compression |-> CompressionConfig,
     health |-> HealthConfig, circuit_breaker |-> CircuitBreakerConfig, retry |-> RetryConfig, tunnel |-> TunnelConfig,
     cache |-> CacheConfig, listen |-> ListenConfig, http_redirect |-> HttpRedirectConfig,
     health_endpoint |-> HealthEndpointConfig, route |-> RouteConfig, ingress |-> IngressConfig,
     identity |-> TlsIdentity, acme |-> AcmeTlsConfig, barrel |-> BarrelStateConfig]

\* serde with deny_unknown_fields and default.
Deserializes(schema, table) ==
    /\ DOMAIN table \subseteq DOMAIN schema
    /\ \A f \in DOMAIN schema \ DOMAIN table : schema[f].default # <<>>
    /\ \A f \in DOMAIN table : table[f] \in schema[f].legal
deserialize(schema, table) == [f \in DOMAIN schema |-> IF f \in DOMAIN table THEN table[f] ELSE schema[f].default[1]]

-----------------------------------------------------------------------------
(* Backends are written and read by hand.  A table lacks what is absent.   *)

MAX_POOL_NAME == 32
MAX_BACKEND_ID == 256
DEFAULT_MAX_CONNECTIONS == 256

validate_max_connections(n) == n >= 1
validate_weight(w) == w >= 0    \* -1 is a number below 0, infinite or none

\* A name is its length; a host is a name or the address's own.
backend_new(id, address, weight, transport) ==
    [id |-> id, pool |-> id, address |-> address, host |-> address, weight |-> weight, transport |-> transport,
     scheme |-> "https", max_connections |-> DEFAULT_MAX_CONNECTIONS, wakeable |-> FALSE]

serialize_backend(b) ==
    [f \in DOMAIN b \ ((IF b.scheme = "https" THEN {"scheme"} ELSE {}) \cup (IF b.wakeable THEN {} ELSE {"wakeable"})) |-> b[f]]

Given(t, f, default) == IF f \in DOMAIN t THEN t[f] ELSE default
backend_reads(t) ==
    /\ {"id", "address", "weight", "transport"} \subseteq DOMAIN t
    /\ validate_weight(t.weight) /\ validate_max_connections(Given(t, "max_connections", DEFAULT_MAX_CONNECTIONS))
    /\ t.id <= MAX_BACKEND_ID /\ Given(t, "pool", t.id) <= MAX_POOL_NAME
deserialize_backend(t) ==
    [id |-> t.id, pool |-> Given(t, "pool", t.id), address |-> t.address, host |-> Given(t, "host", t.address),
     weight |-> t.weight, transport |-> t.transport, scheme |-> Given(t, "scheme", "https"),
     max_connections |-> Given(t, "max_connections", DEFAULT_MAX_CONNECTIONS), wakeable |-> Given(t, "wakeable", FALSE)]

-----------------------------------------------------------------------------
(* Reloads.  A configuration gives each part of the file a version.        *)

\* restart_required_sections compares these.
Compared ==
    {"listen.address", "listen.transport", "tls.server", "tls.client", "timeouts", "proxy", "compression", "health",
     "ratelimit", "metrics", "circuit_breaker", "retry", "tracing", "tunnel", "cache", "balancer.queue_depth", "raw_relay_authz"}
\* These the reload task puts into its new state or uses for its own work ...
Reread == {"routes", "backends", "access", "balancer.max_backends", "balancer.drain_timeout_secs"}
\* ... and these stay as startup::run read them, in the process or a part of
\* it: a shutdown drains for the time that startup read, and the limit on a
\* backend's connections is made once.
FixedAtStart ==
    {"listen.address", "listen.transport", "listen.client_auth", "tls.server", "tls.client", "timeouts", "proxy",
     "compression", "health", "ratelimit", "metrics", "circuit_breaker", "retry", "tracing", "tunnel", "cache",
     "balancer.queue_depth", "balancer.drain_timeout_secs", "backends.max_connections", "raw_relay_authz",
     "http_redirect", "health_endpoint", "ingress"}
Parts == Reread \cup FixedAtStart

restart_required_sections(old, new) == {p \in Compared : old[p] # new[p]}

-----------------------------------------------------------------------------
(* The questions.                                                          *)

AskSection ==
    \E s \in DOMAIN Schemas, given \in SUBSET {1, 2}, unknown \in BOOLEAN :
      LET schema == Schemas[s]
          required == {f \in DOMAIN schema : schema[f].default = <<>>}
      IN  \E f \in DOMAIN schema : \E v \in schema[f].tried :
            LET table == [g \in (IF 1 \in given THEN required ELSE {}) \cup (IF 2 \in given THEN {f} ELSE {})
                               \cup (IF unknown THEN {"unknown"} ELSE {}) |->
                            IF g = f THEN v ELSE IF g = "unknown" THEN v ELSE CHOOSE w \in schema[g].legal : TRUE]
            IN  Ask([of |-> "section", section |-> s, table |-> table])

Full ==
    [id : {1, MAX_POOL_NAME, MAX_POOL_NAME + 1, MAX_BACKEND_ID + 1}, pool : {2, MAX_POOL_NAME + 1}, address : {"ip"},
     host : {"name"}, weight : {-1, 1}, transport : {"tcp", "quic"}, scheme : {"http", "https"},
     max_connections : {0, 1}, wakeable : BOOLEAN]
Optional == {"pool", "host", "scheme", "max_connections", "wakeable"}
AskBackend ==
    \E t \in Full, left_out \in {{}, Optional} \cup {{f} : f \in Optional} :
      Ask([of |-> "backend", table |-> [f \in DOMAIN t \ left_out |-> t[f]]])

\* A file is changed once or twice, in one or two parts each time.
Unchanged == [p \in Parts |-> 0]
Edited(c, ps) == [p \in Parts |-> IF p \in ps THEN 1 - c[p] ELSE c[p]]
AskReload ==
    \E a, b, c \in Parts :
      LET first == Edited(Unchanged, {a, b})
      IN  Ask([of |-> "reload", start |-> Unchanged, first |-> first, second |-> Edited(first, {c})])

SettingsNext == question = NoQuestion /\ (AskSection \/ AskBackend \/ AskReload)

-----------------------------------------------------------------------------
\* A section that is read has no count of 0 where the code takes at least one
\* (a channel's capacity, a cap, a threshold: the assumptions of the other
\* modules), whichever fields the file leaves out.
SectionUsable ==
    question.of = "section" /\ Deserializes(Schemas[question.section], question.table) =>
      LET v == deserialize(Schemas[question.section], question.table)
          AtLeastOne(fs) == \A f \in fs \cap DOMAIN v : v[f] >= 1
      IN  /\ AtLeastOne({"max_backends", "h2_connections_per_backend", "quic_channel_capacity", "control_channel_capacity",
                         "max_sessions_per_backend", "failure_threshold", "half_open_max_requests", "max_entries",
                         "connect_secs", "handshake_secs", "request_secs", "response_idle_secs", "wake_timeout_secs"})
          /\ question.section = "balancer" => v.max_backends <= HARD_MAX_BACKENDS
          /\ question.section = "listen" /\ "client_auth" \notin DOMAIN question.table => v.client_auth = "required"
          /\ "enabled" \notin DOMAIN question.table /\ "enabled" \in DOMAIN v => v.enabled = IF question.section = "compression" THEN "true" ELSE "false"

\* What is written for a backend is read as that backend, although defaults
\* are left out and the pool's and the host's come from other fields.
BackendRoundTrip ==
    question.of = "backend" /\ backend_reads(question.table) =>
      LET b == deserialize_backend(question.table)
      IN  /\ backend_reads(serialize_backend(b)) /\ deserialize_backend(serialize_backend(b)) = b
          /\ DOMAIN question.table = {"id", "address", "weight", "transport"} => b = backend_new(b.id, b.address, b.weight, b.transport)

SettingsKept == SectionUsable /\ BackendRoundTrip

\* watcher.rs of the diff that a reload reports: "so 'config reloaded successfully' is
\* never the whole story when part of the change was silently inert".  After any
\* reloads, a part of the file that differs from what the process runs with was
\* reported by one of them.
InertIsReported ==
    question.of = "reload" =>
      LET reported == restart_required_sections(question.start, question.first)
                        \cup restart_required_sections(question.first, question.second)
      IN  {p \in FixedAtStart : question.second[p] # question.start[p]} \subseteq reported
=============================================================================
