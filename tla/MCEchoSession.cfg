SPECIFICATION FairSpec
CONSTANTS
    MAXLINE = 2
    UpCap = 2
    SndCap = 1
    RcvCap = 3
    Total = 9
INVARIANTS
    NoMutualBlock
    AbnormalMeansDead
PROPERTIES
    Returns
    ChildEnds
    EchoRefinement
