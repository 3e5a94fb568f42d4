CONSTANTS
    a = a
    b = b
    tok = tok
    Request = {1, 2}
    Prompt <- LongAndShort
    MaxTokens <- TwoEach
    Priority <- FirstLast
    Policy = "priority"
    AsyncScheduling = FALSE
    MaxNumScheduledTokens = 4
    LongPrefillTokenThreshold = 2
    MaxNumRunningReqs = 2
    ReserveFullISL = FALSE
    NumGpuBlocks = 8
    BlockSize = 1
    MaxModelLen = 8
    BatchQueueSize = 1
    SampledValues = {tok}
    AbortAllowed = {}
    MaxResets = 0
    ResetRunningAllowed = FALSE
SPECIFICATION Spec
INVARIANT AttentionReadsOwnPrefix
