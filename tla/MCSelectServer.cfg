SPECIFICATION FairSpec
CONSTANTS
    ListenFd = 3
    OpenMax = 6
    FD_SETSIZE = 2
    LISTENQ = 1
    InCap = 1
    OutCap = 1
    MayAbort = TRUE
    MayReset = TRUE
INVARIANTS
    TablesAgree
    RoundExact
PROPERTIES
    Served
    ServiceKept
