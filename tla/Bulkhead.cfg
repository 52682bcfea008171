CONSTANTS
    Executions = {c1, c2, c3, c4, c5}
    Concurrency = 2
    MaxQueue = 2
SPECIFICATION FairBulkheadSpec
INVARIANTS BulkheadTypeOK NoSlotLost FirstComeFirstServed
PROPERTY EveryCallEnds
