SPECIFICATION Spec
CONSTANTS
    Requests = {r1, r2}
    Keys = {k1}
    NoKey = NoKey
    Bodies = {b1, b2}
    HookApplies = FALSE
    Ttl = 1
    MaxTime = 0
    MaxFaults = 0
CHECK_DEADLOCK FALSE
INVARIANT
    ReplaysAreIdentical
