CONSTANTS
    NumEngines = 2
    FrontEnd = {"A"}
    Request = {1, 2}
    ClientOf <- ClientA
    Placement <- Opposite
    Passes <- Lengths
    SyncInterval = 2
    AbortAllowed = {1}
    DropAllowed = {2}
    PauseModes = {"abort", "wait", "keep"}
    MaxCalls = 3
SPECIFICATION FairSpec
INVARIANT TypeOK
INVARIANT CollectivesMatch
INVARIANT NoWaveAhead
INVARIANT QuietMeansPaused
PROPERTY EverythingComesToRest
CHECK_DEADLOCK FALSE
