CONSTANTS
    a = a
    b = b
    tok = tok
    Request = {1, 2}
    Prompt <- SharedPrefix
    MaxTokens <- ThreeEach
    Priority <- SamePriority
    Policy = "fcfs"
    AsyncScheduling = FALSE
    MaxNumScheduledTokens = 2
    LongPrefillTokenThreshold = 0
    MaxNumRunningReqs = 2
    ReserveFullISL = FALSE
    NumGpuBlocks = 4
    BlockSize = 2
    MaxModelLen = 6
    BatchQueueSize = 3
    SampledValues <- TokenOrEos
    AbortAllowed = {1}
    MaxResets = 0
    ResetRunningAllowed = FALSE
SPECIFICATION Spec
INVARIANT QueuesMatchStatus
INVARIANT AttentionReadsOwnPrefix
