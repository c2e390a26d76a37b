\* The connections are used up in the end: the system may stop.
SPECIFICATION Spec
CONSTANTS
    Programs <- MCPrograms
    MAXLINE = 4
    MAXN = 3
    MaxConns = 2
    Scripts <- ScriptsDef
CHECK_DEADLOCK FALSE
INVARIANTS
    StreamKept
    TestServed
    EchoExact
