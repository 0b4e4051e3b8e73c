SPECIFICATION Spec
CONSTANTS
    Accounts = {1, 2, 3, 4, 5}
    Currencies = {"USD", "EUR"}
    Requests = {r1, r2}
    Inputs <- TwoMoves
    Keys = {}
    NoKey = NoKey
    Chart <- MCChart
    StatusChanges <- NoChanges
    MaxBigint = 4
    PoolSize = 2
    TriggerInstalled = FALSE
CHECK_DEADLOCK FALSE
INVARIANT
    CounterCountsPostings
