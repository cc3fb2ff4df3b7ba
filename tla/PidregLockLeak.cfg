CONSTANTS
    Threads = {t1, t2}
    NULL = NULL
    MaxDepth = 2
    Rounds = 4
    NPID = 3
    EMPROC = 2
    Hold = 2
SPECIFICATION PFairSpec
PROPERTY ReturnCompletes
CHECK_DEADLOCK FALSE
