CONSTANTS
    NReader = 2
    MaxChunks = 2
    MaxMessages = 3
    Kinds = {"inline", "overflow"}
    TimeoutsAllowed = TRUE
    FailuresAllowed = TRUE
    ShutdownAllowed = {}
SPECIFICATION Spec
INVARIANT ExclusiveAccess
INVARIANT DeliveredInOrder
INVARIANT DeliveredOnce
CHECK_DEADLOCK FALSE
