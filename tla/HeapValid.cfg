CONSTANTS
    Vals = {1, 2, 3}
    NULL = 0
    MaxNum = 6
SPECIFICATION HeapSpec
INVARIANT
    OrderedIsValid
CHECK_DEADLOCK FALSE
