SPECIFICATION Spec
CONSTANTS
    Accounts = {1, 2, 3, 4, 5}
    Currencies = {"USD", "EUR"}
    Requests = {r1, r2}
    Inputs <- AllInputs
    Keys = {}
    NoKey = NoKey
    Chart <- MCChart
    StatusChanges <- FreezeOne
    MaxBigint = 3
    PoolSize = 2
    TriggerInstalled = TRUE
SYMMETRY Symmetry
CHECK_DEADLOCK FALSE
INVARIANTS
    TrialBalance
    AnswerMatchesBooks
PROPERTIES
    PostsOnlyToActiveAccounts
    ImplementsLedger
