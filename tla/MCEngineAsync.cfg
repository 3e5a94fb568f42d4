CONSTANTS
    a = a
    b = b
    tok = tok
    Request = {1, 2}
    Prompt <- SharedPrefix
    MaxTokens <- TooManyAndTwo
    Priority <- SamePriority
    Policy = "fcfs"
    AsyncScheduling = TRUE
    MaxNumScheduledTokens = 2
    LongPrefillTokenThreshold = 0
    MaxNumRunningReqs = 2
    ReserveFullISL = TRUE
    NumGpuBlocks = 4
    BlockSize = 2
    MaxModelLen = 6
    BatchQueueSize = 2
    SampledValues <- TokenOrEos
    AbortAllowed = {1}
    MaxResets = 0
    ResetRunningAllowed = FALSE
SPECIFICATION LiveSpec
INVARIANT NoAssertionFails
INVARIANT PlaceholdersAreInFlight
INVARIANT TokensInOrder
INVARIANT CachedBlocksComputed
INVARIANT AttentionReadsOwnPrefix
PROPERTY EveryRequestFinishes
