CONSTANTS
    NReader = 2
    MaxChunks = 1
    MaxMessages = 2
    Kinds = {"inline", "overflow"}
    TimeoutsAllowed = FALSE
    FailuresAllowed = FALSE
    ShutdownAllowed = {0}
SPECIFICATION FairSpec
PROPERTY EveryMessageArrives
PROPERTY ShutdownEnds
CHECK_DEADLOCK FALSE
