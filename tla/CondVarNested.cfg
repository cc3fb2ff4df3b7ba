CONSTANTS
    Threads = {t1, t2, t3}
    NULL = NULL
    MaxDepth = 2
    Rounds = 2
SPECIFICATION CvSpec
INVARIANT
    CvWaitReleasesLock
CHECK_DEADLOCK FALSE
