SPECIFICATION FairSpec
CONSTANTS
    NumBlocks = 6
    EnableCaching = TRUE
    Requests = {1, 2}
    Tokens <- MCTokens5
    PromptLen <- MCPromptLen5
    GroupSpecs <- MCFull2
    EagleGroups = {}
    MaxModelLen = 7
    MaxBatchedTokens = 4
    NumSpec = 1
    NumLookahead = 1
    Policy = "fcfs"
    Priority <- MCPriority
    MaxRunning = 2
    LongPrefillThreshold = 0
    AsyncScheduling = TRUE
    MaxInflight = 2
    MaxCalls = 0
    ClientCalls = {}
    Aborts = TRUE
    ReserveFull = TRUE
INVARIANTS
    QueuesMatchStatus
    CachedIsComputed
PROPERTIES
    TokensInPlace
    BatchReadsValid
    EveryRequestFinishes
