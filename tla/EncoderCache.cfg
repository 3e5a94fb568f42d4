SPECIFICATION Spec
CONSTANTS
    Request = {1, 2}
    NumTokens <- MCNumTokens
    Features <- MCFeatures
    Configs <- MCConfigs
    CacheSize = 4
    ComputeBudget = 4
    MaxInFlight = 2
    MaxPreemptions = 1
    MaxResets = 1
INVARIANT TypeOK
INVARIANT NoAssertionFails
INVARIANT SlotsAccountedFor
INVARIANT WorkerFits
INVARIANT NoLeakedReference
INVARIANT WorkerInStep
INVARIANT SomeoneCanRun
CHECK_DEADLOCK FALSE
