CONSTANTS
    boot = boot
    t1 = t1
    t2 = t2
    t3 = t3
    kproc = kproc
    p1 = p1
    p2 = p2
    v1 = v1
    null = null
SPECIFICATION Spec
INVARIANTS
    PagesAccounted
    ProcessesConsistent
    RegistryExact
    SharedContainers
    TerminalFaithful
    SlaveInService
PROPERTIES
    HeapConsistent
    AddressSpaces
CHECK_DEADLOCK FALSE
