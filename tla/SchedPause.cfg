SPECIFICATION FairSpec
CONSTANTS
    NumBlocks = 6
    EnableCaching = TRUE
    Requests = {1, 2}
    Tokens <- MCTokens5
    PromptLen <- MCPromptLen5
    GroupSpecs <- MCFull
    EagleGroups = {}
    MaxModelLen = 6
    MaxBatchedTokens = 3
    NumSpec = 0
    NumLookahead = 0
    Policy = "priority"
    Priority <- MCPriority
    MaxRunning = 2
    LongPrefillThreshold = 0
    AsyncScheduling = FALSE
    MaxInflight = 2
    MaxCalls = 1
    ClientCalls = {"reset", "abort", "wait", "keep"}
    Aborts = TRUE
    ReserveFull = TRUE
INVARIANTS
    BlocksOfRunning
    PausedIsQuiet
PROPERTIES
    PauseDrains
    EveryRequestFinishes
