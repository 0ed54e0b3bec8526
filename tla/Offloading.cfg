SPECIFICATION Spec
CONSTANTS
    A = A
    B = B
    C = C
    t1 = t1
    t2 = t2
    t3 = t3
    t4 = t4
    Requests = {A, B}
    Tokens <- MCTokens
    PromptLen <- MCPromptLen
    NumBlocks = 3
    NumCpuBlocks = 3
    Factor = 1
    Workers = {1, 2}
    Depth = 2
    TokenBudget = 3
    MaxAborts = 1
    AbortInFlight = FALSE
INVARIANTS
    OffloadedIsRight
    ReadsValid
    BookkeepingExact
PROPERTIES
    EveryRequestFinishes
CHECK_DEADLOCK FALSE
