\* Main and a thread of web03 can wait for each other for good: the system may stop.
SPECIFICATION FairSpec
CONSTANTS
    Programs <- MCPrograms
    nfiles = 3
    maxnconn = 2
    MayFail = TRUE
INVARIANTS
    CountsAgree
PROPERTIES
    Finishes
CHECK_DEADLOCK FALSE
