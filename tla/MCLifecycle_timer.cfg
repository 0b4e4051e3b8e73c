SPECIFICATION Spec
CONSTANTS
    d = d
    Runners = {d}
    Self = d
    Files = 2
    Statements <- MCStatements
    Replaceable <- MCReplaceable
    Doubtful <- NoneDoubtful
    Calls = {q1}
    Cleanups = {}
    Verifications = {}
    PoolSize = 1
    MaxTurns = 1
    MaxSignals = 1
    MaxFaults = 0
INVARIANT
    TimerEndsShutdownsOnly
