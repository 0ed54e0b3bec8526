SPECIFICATION Spec
CONSTANTS
    NumBlocks = 4
    EnableCaching = TRUE
    Requests = {1, 2}
    Tokens <- MCTokensFork
    PromptLen <- MCPromptLenShort
    GroupSpecs <- MCFull
    EagleGroups = {}
    MaxModelLen = 4
    MaxBatchedTokens = 3
    MaxDrafts = 0
    NumLookahead = 0
    MaxExternal = 2
    AsyncLoad = TRUE
    AsyncScheduling = FALSE
    ReserveFull = FALSE
INVARIANTS
    PoolExact
    NoException
    PrefixClosed
    CacheHoldsItsPrefix
