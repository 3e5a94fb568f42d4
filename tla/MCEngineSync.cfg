CONSTANTS
    a = a
    b = b
    tok = tok
    Request = {1, 2, 3}
    Prompt <- ShortAndLong
    MaxTokens <- FourAndThree
    Priority <- FirstLast
    Policy = "priority"
    AsyncScheduling = FALSE
    MaxNumScheduledTokens = 2
    LongPrefillTokenThreshold = 0
    MaxNumRunningReqs = 2
    ReserveFullISL = TRUE
    NumGpuBlocks = 4
    BlockSize = 2
    MaxModelLen = 6
    BatchQueueSize = 1
    SampledValues = {tok}
    AbortAllowed = {1}
    MaxResets = 1
    ResetRunningAllowed = TRUE
SPECIFICATION Spec
INVARIANT TypeOK
INVARIANT NoAssertionFails
INVARIANT BlocksAccountedFor
INVARIANT CacheIndexConsistent
INVARIANT ChainClosed
INVARIANT QueuesMatchStatus
INVARIANT StepConsistent
