CONSTANTS
    Threads = {t1, t2, t3}
    NULL = NULL
    MaxDepth = 2
    Rounds = 3
SPECIFICATION FairSpec
INVARIANTS
    MutualExclusion
    NoLostWakeup
    NeverHalts
    KeepsInterruptFlag
PROPERTIES
    ReadyRuns
    EachGetsLock
CHECK_DEADLOCK TRUE
