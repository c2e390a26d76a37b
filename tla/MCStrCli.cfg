SPECIFICATION Spec
CONSTANTS
    Programs <- MCPrograms
    Total = 7
    BUF = 2
    UpCap = 2
    DownCap = 3
INVARIANTS
    Complete
    PrematureMeansDead
PROPERTIES
    Returns
    Prompt
    Notices
