CONSTANTS
    Threads = {t1, t2, t3}
    NULL = NULL
    MaxDepth = 2
    Rounds = 3
SPECIFICATION CvSpec
INVARIANTS
    CvLockSound
    CvOnePlace
    CvIdleOnlyWhenAllWait
CHECK_DEADLOCK FALSE
