SPECIFICATION FairSpec
CONSTANTS
    Conns = {c1, c2, c3}
    NoConn = NoConn
    Progs <- MCProgs
    MaxProcs = 2
    MaxFds = 2
    MaxDgrams = 1
INVARIANTS
    NoneForgotten
PROPERTIES
    ParentSurvives
    UdpServed
    TurnComes
