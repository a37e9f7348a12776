SPECIFICATION Spec
CONSTANTS
    Requests = {r1, r2, r3}
    FailureThreshold = 2
    HalfOpenMax = 2
    Wrap = 5
    Workers = 1
PROPERTY ImplementsCircuitBreaker
