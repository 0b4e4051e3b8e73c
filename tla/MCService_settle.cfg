SPECIFICATION FairSpec
CONSTANTS
    Requests = {r1, r2}
    Keys = {k1}
    NoKey = NoKey
    Bodies = {b1, b2}
    HookApplies = TRUE
    Ttl = 0
    MaxTime = 1
    MaxFaults = 2
CHECK_DEADLOCK FALSE
PROPERTY
    RetriesSettle
