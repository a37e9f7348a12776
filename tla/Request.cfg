SPECIFICATION FairSpec
CONSTANTS
    b1 = b1
    b2 = b2
    Requests = {r1, r2, r3}
    Backends = {b1, b2}
    Wakeable = {b1}
    Tunnelled = {b1}
    Flaky = {b2}
    NoBackend = NoBackend
    MaxConns <- MCMaxConns
    QueueDepth = 2
    MaxRetries = 1
INVARIANTS
    NoReplay
    PermitsAccounted
PROPERTY Answered
