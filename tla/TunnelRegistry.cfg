SPECIFICATION Spec
CONSTANTS
    c1 = c1
    c2 = c2
    c3 = c3
    b1 = b1
    b2 = b2
    k1 = k1
    k2 = k2
    Conns <- MCConns
    Requests = {r1}
    Backends = {b1, b2}
    Keys = {k1, k2}
    Cn <- MCCn
    Key <- MCKey
    ControlPeers = {c3}
    AllowedIds = {}
    MaxPerBackend = 1
    MaxTotal = 1
    PendingCap = 2
    DrainCap = 1
    Denylists <- MCDenylists
    CanStop = FALSE
INVARIANTS
    TypeOK
    NoGhostSession
    HardBackendCap
    SoftCapOvershoot
    RevokedIsOwed
