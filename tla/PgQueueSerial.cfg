CONSTANTS
    Ids = {p1, p2}
    Callers = {c1}
    Spellings <- MCSpellings
    Trim <- MCTrim
    NoActor = NoActor
    System = System
    NoRow = NoRow
    SodMayRelax = FALSE
    PoolMayEnd = TRUE
    MayCrash = TRUE
SPECIFICATION Spec
INVARIANTS DecidedHasNoJobId
PROPERTIES ImplementsLifecycle
CHECK_DEADLOCK FALSE
