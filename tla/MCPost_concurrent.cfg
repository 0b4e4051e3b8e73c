SPECIFICATION Spec
CONSTANTS
    Accounts = {1, 2, 3, 4, 5}
    Currencies = {"USD", "EUR"}
    Requests = {r1, r2, r3}
    Inputs <- Moves
    Keys = {k1}
    NoKey = NoKey
    Chart <- MCChart
    StatusChanges <- NoChanges
    MaxBigint = 4
    PoolSize = 3
    TriggerInstalled = FALSE
SYMMETRY Symmetry
CHECK_DEADLOCK FALSE
INVARIANTS
    TypeOK
    BalanceMatchesJournal
    VersionCountsPostings
    OptimisticCheckNeverFails
    OnePostingPerKey
    NoWaitCycle
    LockInv
    BooksInv
PROPERTY
    ImplementsLedger
