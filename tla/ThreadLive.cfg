CONSTANTS
    Threads = {boot, t1, t2}
    Boot = boot
    NULL = NULL
    SelfJoin = FALSE
SPECIFICATION FairSpec
PROPERTIES
    JoinReturns
    ZombiesReaped
