\* A client whose datagram is lost waits for good: the system may stop.
SPECIFICATION FairSpec
CONSTANTS
    c1 = c1
    c2 = c2
    Clients <- MCClients
    Nobody = Nobody
    Systems <- MCSystems
    Lines = 2
    QSIZE = 2
    MaxFaults = 1
    MayDie = TRUE
CHECK_DEADLOCK FALSE
INVARIANTS
    InStep
    CountTold
    QueueKept
PROPERTIES
    Answered
