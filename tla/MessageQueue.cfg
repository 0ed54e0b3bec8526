SPECIFICATION FairSpec
CONSTANTS
    NReader = 2
    MaxChunks = 2
    Hwm = 5
    TimeoutReaders = {1}
    IndefiniteReaders = {0}
    MaxMessages = 3
CHECK_DEADLOCK FALSE
INVARIANTS
    RingSafe
    SocketReliable
PROPERTIES
    ImplementsBroadcast
    EveryReaderGets
    ReadersStop
