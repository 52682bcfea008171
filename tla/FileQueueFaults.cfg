CONSTANTS
    Ids = {p1}
    Spellings <- MCSpellings
    Trim <- MCTrim
    NoActor = NoActor
    System = System
    Absent = Absent
    Torn = Torn
    SodMayRelax = TRUE
    Faults = {"tear", "keep"}
SPECIFICATION Spec
CHECK_DEADLOCK FALSE
INVARIANTS TypeOK PendingConsistent ApprovalAccountedFor SodRespected
PROPERTIES RemovedOnlyWhenDecided
