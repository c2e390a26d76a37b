SPECIFICATION Spec
CONSTANTS
    MAXLINE = 2
    UpCap = 2
    SndCap = 1
    RcvCap = 3
    Total = 3
INVARIANTS
    ErrorMeansDead
