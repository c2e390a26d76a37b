SPECIFICATION FairSpec
CONSTANTS
    N = 2
    Programs <- MCPrograms
    LISTENQ = 2
    MaxConn = 4
    MAXNCLI = 3
    MayDie = TRUE
    MayInterrupt = TRUE
INVARIANTS
    KillsOwnChildren
    RingKept
PROPERTIES
    StopsEventually
    Drains
    Handed
