SPECIFICATION Spec
CONSTANTS
    Requests = {r1, r2}
    FailureThreshold = 1
    HalfOpenMax = 1
    Wrap = 4
    Workers = 2
INVARIANT OpenHasTimestamp
