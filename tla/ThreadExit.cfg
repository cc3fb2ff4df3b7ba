CONSTANTS
    Threads = {boot, t1}
    Boot = boot
    NULL = NULL
    SelfJoin = FALSE
SPECIFICATION ExitSpec
INVARIANT
    ExitNeedsNoCli
