SPECIFICATION Spec
CONSTANTS
    Accounts = {1, 2, 3}
    Currencies = {"USD"}
    Requests = {t1, t2}
    Inputs <- MCInputs
    Keys = {}
    NoKey = NoKey
    Chart <- MCChart
    Creators = {k1}
    Opening <- MCOpening
    Verifiers = {v1}
    Callers = {}
    Skews <- NoSkews
    MaxSkews = 1
    MaxReading = 1
    MaxFaults = 1
INVARIANT
    HealthyBooksPass
