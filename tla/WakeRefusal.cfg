SPECIFICATION HeardSpec
CONSTANTS
    Waiters = {w1, w2}
    Backends = {b1}
INVARIANT RefusalReleases
