SPECIFICATION Spec
CONSTANTS
    WorldSize = 2
    OutputRank = 2
    Kinds <- FailingKinds
    AsyncScheduling = TRUE
    MaxCalls = 3
    MaxPending = 2
    MaxDeaths = 0
INVARIANT AnswersMatch
CHECK_DEADLOCK FALSE
