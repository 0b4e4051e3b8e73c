SPECIFICATION Spec
CONSTANTS
    Requests = {r1, r2}
    Keys = {k1}
    NoKey = NoKey
    Bodies = {b1, b2}
    HookApplies = TRUE
    Ttl = 1
    MaxTime = 3
    MaxFaults = 2
SYMMETRY Symmetry
CHECK_DEADLOCK FALSE
INVARIANTS
    TypeOK
    KeysOutliveTtl
    AnswersAreOfTheRequest
    CachedWorkIsDone
PROPERTIES
    WorkIsKeyed
