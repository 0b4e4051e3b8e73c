SPECIFICATION FairSpec
CONSTANTS
    d = d
    Runners = {d, c}
    Self = d
    Files = 2
    Statements <- MCStatements
    Replaceable <- MCReplaceable
    Doubtful <- MCDoubtful
    Calls = {q1}
    Cleanups = {k1}
    Verifications = {v1}
    PoolSize = 1
    MaxTurns = 2
    MaxSignals = 2
    MaxFaults = 1
INVARIANTS
    TypeOK
    SchemaIsWhole
    OvertakenByTheRecord
    ShutdownCutsNobodyOff
    ServesOnWholeSchema
PROPERTIES
    ExitsClean
    FilesGoInOneByOne
    ToldEnds
    CallsEnd
    MigrationsGetThrough
