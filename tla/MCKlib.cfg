CONSTANTS
    l1 = l1
    l2 = l2
    t1 = t1
    t2 = t2
    t3 = t3
    n1 = n1
    n2 = n2
    n3 = n3
    n4 = n4
    v1 = v1
    v2 = v2
    NULL = NULL
    ENOSPC = ENOSPC
SPECIFICATION Spec
INVARIANTS
    FindsContaining
    PrintsItsPieces
    TimersExact
PROPERTIES
    StructuresValid
    HeapSound
    ImplementsSequences
    ImplementsList
    ImplementsDict
    CallsEnd
CHECK_DEADLOCK FALSE
