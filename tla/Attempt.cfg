SPECIFICATION AttemptSpec
CONSTANTS
    Requests = {r1, r2, r3}
    FailureThreshold = 2
    HalfOpenMax = 2
    Wrap = 5
    Waiters = {w1, w2}
    Backends = {b1}
INVARIANTS
    NeverWedged
    ProbeBound
    NoLostWake
PROPERTIES
    OpenIsProbed
    HalfOpenKeepsProbing
    ParkEnds
