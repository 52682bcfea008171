SPECIFICATION ApplySpec
CONSTANTS
    Ids = {p1, p2}
    Spellings <- MCSpellings
    Trim <- MCTrim
    NoActor = NoActor
    System = System
    Absent = Absent
    Torn = Torn
    SodMayRelax = TRUE
    Faults = {}
    Callers = {c1, c2}
    Names = {n1}
    NameOf <- MCNameOf
    NoOne = NoOne
    MaxPerDay = 1
SYMMETRY Exchange
INVARIANTS InstalledIsDecided DailyLimitPerCaller
PROPERTY ImplementsLifecycle
CHECK_DEADLOCK FALSE
