SPECIFICATION FairSpec
CONSTANTS
    Engines = {0, 1}
    Clients = {c1}
    SyncPeriod = 2
    PauseModes = {"abort", "wait", "keep"}
    Races = {}
    MaxCalls = 2
    MaxAborts = 1
CHECK_DEADLOCK FALSE
INVARIANTS
    SameCollective
    IdleIsKnown
PROPERTIES
    EveryRequestFinishes
    WavesEnd
