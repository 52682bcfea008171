CONSTANTS
    a = a
    b = b
    Two = TRUE
    Agents = {a, b}
    Initial <- MCInitial
    Callers = {c1}
    Durable = TRUE
    MaxBatch = 2
    MaxTurns = 2
    MaxEnds = 2
    MaxRestarts = 1
SPECIFICATION Spec
INVARIANTS TypeOK NeverTwice NoneForgotten RecordsAgree
