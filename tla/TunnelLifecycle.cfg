SPECIFICATION FairSpec
CONSTANTS
    c1 = c1
    c2 = c2
    c3 = c3
    b1 = b1
    b2 = b2
    k1 = k1
    k2 = k2
    Conns <- MCPair
    Requests = {}
    Backends = {b1}
    Keys = {k1, k2}
    Cn <- MCPairCn
    Key <- MCPairKey
    ControlPeers = {c2}
    AllowedIds = {}
    MaxPerBackend = 2
    MaxTotal = 3
    PendingCap = 2
    DrainCap = 1
    Denylists <- MCPairDenylists
    CanStop = TRUE
PROPERTIES
    RevokedTornDown
    PermitReturned
    ShutdownEmpties
