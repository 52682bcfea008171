CONSTANTS
    Executions = {c1, c2, c3}
    Concurrency = 1
    MaxQueue = 2
SPECIFICATION BulkheadSpec
SYMMETRY CallSymmetry
INVARIANTS AtMostConcurrency
