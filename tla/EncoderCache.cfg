SPECIFICATION FairSpec
CONSTANTS
    a = a
    b = b
    d = d
    w = w
    x = x
    y = y
    z = z
    Requests = {a, b, d}
    PromptLen <- MCPromptLen
    Features <- MCFeatures
    Size <- MCSize
    Hits = {0, 2}
    Shift = 0
    Chunking = {TRUE, FALSE}
    CacheSize = 4
    EncoderBudget = 4
    TokenBudget = 4
    MaxRunning = 2
    MaxInflight = 2
    MaxShort = 1
    MaxAborts = 1
    MaxResets = 1
INVARIANTS
    SlotsExact
    OutputsPresent
    WorkerAccounted
PROPERTIES
    EveryRequestEnds
CHECK_DEADLOCK FALSE
