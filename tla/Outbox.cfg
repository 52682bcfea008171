CONSTANTS
    Messages = {1, 2}
    Instances = {i1, i2}
    Tools = {t}
    Limit = 2
    MaxAttempts = 2
    MaxFaults = 2
SPECIFICATION FairSpec
INVARIANTS TypeOK DispatchedWasSent SendsAccountedFor
PROPERTIES Settles
