SPECIFICATION Spec
CONSTANTS
    Callers = {c1, c2}
    Limit = 2
    MaxEstimate = 2
    MaxCharge = 2
    MaxRetries = 1
    Threshold = 2
    MaxCalls = 3
    MaxFaults = 2
INVARIANTS TypeOK LedgersAccountedFor OvershootBounded
PROPERTY EveryCallEnds
CHECK_DEADLOCK FALSE
