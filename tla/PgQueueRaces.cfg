CONSTANTS
    Ids = {p1}
    Callers = {c1, c2, c3}
    Spellings <- MCSpellings
    Trim <- MCTrim
    NoActor = NoActor
    System = System
    NoRow = NoRow
    SodMayRelax = FALSE
    PoolMayEnd = FALSE
    MayCrash = TRUE
SPECIFICATION Spec
SYMMETRY CallerSymmetry
INVARIANTS TypeOK RowsConsistent SodRespected JobIdsLive
PROPERTIES NeverReopened
CHECK_DEADLOCK FALSE
