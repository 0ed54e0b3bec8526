SPECIFICATION Spec
CONSTANTS
    NumBlocks = 7
    EnableCaching = TRUE
    Requests = {1}
    Tokens <- MCTokensOne
    PromptLen <- MCPromptLenShort
    GroupSpecs <- MCSlidingChunked
    EagleGroups = {}
    MaxModelLen = 6
    MaxBatchedTokens = 1
    MaxDrafts = 0
    NumLookahead = 0
    MaxExternal = 0
    AsyncLoad = FALSE
    AsyncScheduling = FALSE
    ReserveFull = FALSE
INVARIANTS
    BestHit
PROPERTIES
    HitsNotEvicted
