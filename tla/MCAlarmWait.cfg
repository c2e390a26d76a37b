SPECIFICATION FairSpec
CONSTANTS
    Programs <- MCPrograms
    MaxReq = 3
    MaxReplies = 4
    BufCap = 2
INVARIANTS
    AnswerIsOwn
    NoWildJump
PROPERTIES
    WaitEnds
