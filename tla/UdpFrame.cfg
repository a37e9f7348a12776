SPECIFICATION Spec
CONSTANTS
    Members = {"m1"}
    Payloads = {1, 2}
    Tunables <- Caps
    MaxFrame = 3
    QueueDepth = 2
    MaxDatagrams = 4
    MaxReloads = 1
    Clients = {"k1", "k2", "k3"}
    MaxConnections = 2
    RawStreams = {1, 2}
    Devices = {"d"}
    NoIdentity = "none"
    DeviceOf <- Identities
    Allowed = {"d"}
    MaxRelays = 2
    MaxBackend = 1
    MaxPublishes = 1
    IdleTimeout = 3
    MaxTime = 10
    Transports = {"tcp", "quic"}
    Conns = {1, 2}
    Streams = {1, 2, 3}
    ConnOf <- StreamConn
    MaxHandshakes = 1
    MaxReads = 1
    Capacity = 1
    Domains = {"a", "b"}
    Custodies = {"file", "barrel"}
    MaxFailures = 2
INVARIANT FrameFits
CHECK_DEADLOCK FALSE
