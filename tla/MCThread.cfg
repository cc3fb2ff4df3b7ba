CONSTANTS
    Threads = {boot, t1, t2, t3}
    Boot = boot
    NULL = NULL
    SelfJoin = TRUE
SPECIFICATION Spec
SYMMETRY Blocks
INVARIANTS
    OnePlace
    HandlesStayValid
    JoinGetsExitValue
    NeverHalts
PROPERTIES
    NotFreedWhileRunning
