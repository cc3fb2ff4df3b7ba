CONSTANTS
    Threads = {t1, t2, t3}
    InitialCount = 1
    CountMax = 3
SPECIFICATION Spec
INVARIANTS
    NoLostWakeup
    IdleOnlyInDeadlock
PROPERTIES
    ImplementsAtomic
CHECK_DEADLOCK FALSE
