SPECIFICATION Spec
CONSTANTS
    a = a
    b = b
    d = d
    w = w
    x = x
    y = y
    z = z
    Requests = {a, b, d}
    PromptLen <- MCPromptLen
    Features <- MCFeatures
    Size <- MCSize
    Hits = {0, 2}
    Shift = 1
    Chunking = {TRUE, FALSE}
    CacheSize = 4
    EncoderBudget = 4
    TokenBudget = 4
    MaxRunning = 2
    MaxInflight = 2
    MaxShort = 0
    MaxAborts = 0
    MaxResets = 0
INVARIANT OutputsPresent
CHECK_DEADLOCK FALSE
