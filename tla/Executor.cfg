SPECIFICATION FairSpec
CONSTANTS
    WorldSize = 2
    OutputRank = 2
    Kinds <- MCKinds
    AsyncScheduling = TRUE
    MaxCalls = 3
    MaxPending = 2
    MaxDeaths = 1
INVARIANT TypeOK
INVARIANT AnswersMatch
INVARIANT NoStaleResponse
PROPERTY WaitsEnd
PROPERTY DeathIsNoticed
CHECK_DEADLOCK FALSE
