SPECIFICATION Spec
CONSTANTS
    World = 2
    OutputRank = 1
    Aggregated = FALSE
    BatchQueueSize = 2
    MaxChunks = 5
    Fails <- MCFailsPass
    MaxCalls = 3
    MaxTimeouts = 1
    MaxCrashes = 1
CHECK_DEADLOCK FALSE
INVARIANTS
    OutputsApplied
PROPERTIES
    EngineReturns
    CrashStopsAll
