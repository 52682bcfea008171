SPECIFICATION Spec
CONSTANTS
    Writers = {w1, w2, w3}
    Tenants = {t1, t2}
    NoTenant = NoTenant
    Bypass = FALSE
    MaxRows = 3
SYMMETRY Exchange
INVARIANTS TypeOK BrokenOnlyByOverlap
CHECK_DEADLOCK FALSE
