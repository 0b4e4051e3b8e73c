SPECIFICATION FairSpec
CONSTANTS
    Txns = {t1, t2, t3}
    MaxLegs = 2
    Walkers = {w}
    Limits = {1, 2}
    TicksPerMs = 2
    MaxTime = 2
CHECK_DEADLOCK FALSE
INVARIANTS
    TypeOK
    ShownInOrder
    MissedOnlyBesidePageEnds
PROPERTY
    WalksEnd
