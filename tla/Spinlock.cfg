CONSTANTS
    Threads = {t1, t2}
    Locks = {active, la, lb}
    ActiveLock = active
SPECIFICATION Spec
INVARIANTS
    HeldMeansInterruptsOff
    NeverSpins
PROPERTIES
    SwitchLeavesLocksFree
    RestoresOnlyFlatSections
