SPECIFICATION MCSpec
CONSTANTS
    c1 = c1
    c2 = c2
    crowded = crowded
    p1 = p1
    b1 = b1
    b2 = b2
    a1 = a1
    a2 = a2
    path1 = path1
    None = None
    Configs = {c1, c2, crowded}
    Initial = c1
    Content <- MCContent
    Transport <- MCTransport
    Paths = {path1}
    PoolIds = {p1, b2}
    Backends = {b1, b2}
    Addrs = {a1, a2}
    Requests = {r1, r2}
    MaxBackends = 1
    QueueDepth = 1
    PoolCap = 1
    MaxEdits = 2
    StartOrder <- Order
    Triggers <- FilesOf
    Consumers <- Loaded
    WatcherOf <- LoadedBy
    First <- ReadFirstOf
    Second <- ReadNextOf
    Pairs = {"server", "client"}
    EmptyOK = {"denylist", "crl"}
    Versions = {0, 1}
    NoFile = "none"
    MaxSaves = 2
    V4Bits = 2
    BlockBits = 2
    Word = 3
    MaxFrameSize = 2
    HeartbeatTimeout = 2
    MaxFrames = 3
    MaxBody = 2
    MaxChunks = 3
    BindAddrs = {1, 2}
    SpkiLen = 1
INVARIANTS
    StaleIsLate
    OrphanIsLate
    Bounded
    FollowsFile
    PairMatches
    Placement
    ProvenIdentity
    HitIsAnswer
    SafeConfig
    ByteStreams
    ReadyIsKept
SYMMETRY Symmetry
CHECK_DEADLOCK FALSE
