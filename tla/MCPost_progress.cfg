SPECIFICATION FairSpec
CONSTANTS
    Accounts = {1, 2, 3, 4, 5}
    Currencies = {"USD", "EUR"}
    Requests = {r1, r2, r3}
    Inputs <- TwoMoves
    Keys = {k1}
    NoKey = NoKey
    Chart <- MCChart
    StatusChanges <- NoChanges
    MaxBigint = 4
    PoolSize = 2
    TriggerInstalled = FALSE
CHECK_DEADLOCK FALSE
PROPERTY
    EveryCallIsAnswered
