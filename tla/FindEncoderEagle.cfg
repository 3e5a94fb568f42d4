SPECIFICATION Spec
CONSTANTS
    Request = {1, 2}
    NumTokens <- MCNumTokens
    Features <- MCFeatures
    Configs <- EagleConfigs
    CacheSize = 4
    ComputeBudget = 4
    MaxInFlight = 2
    MaxPreemptions = 1
    MaxResets = 1
INVARIANT NoAssertionFails
CHECK_DEADLOCK FALSE
