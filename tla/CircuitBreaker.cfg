CONSTANTS
    Calls = {c1, c2, c3}
    WindowSize = 4
    MinCalls = 3
    ThresholdPercent = 50
    TrialsNeeded = 2
SPECIFICATION FairSpec
INVARIANTS TypeOK TrialsAllSucceeded
PROPERTIES OpensOnEvidence Recovers
