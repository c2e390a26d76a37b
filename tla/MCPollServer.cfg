SPECIFICATION FairSpec
CONSTANTS
    ListenFd = 3
    OpenMax = 6
    OPEN_MAX = 3
    LISTENQ = 1
    InCap = 1
    OutCap = 1
    MayAbort = TRUE
    MayReset = TRUE
INVARIANTS
    NoBlockingRead
PROPERTIES
    Served
