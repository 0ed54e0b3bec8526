SPECIFICATION Spec
CONSTANTS
    NumBlocks = 4
    EnableCaching = TRUE
    Requests = {1, 2}
    Tokens <- MCTokens5
    PromptLen <- MCPromptLen5
    GroupSpecs <- MCSliding3
    EagleGroups = {1}
    MaxModelLen = 7
    MaxBatchedTokens = 2
    MaxDrafts = 1
    NumLookahead = 0
    MaxExternal = 0
    AsyncLoad = FALSE
    AsyncScheduling = TRUE
    ReserveFull = TRUE

    
PROPERTIES
    StepReadsValid
    ImplementsOwnership
