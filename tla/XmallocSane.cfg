SPECIFICATION Spec
CONSTANTS
    HDR = 1
    MIN_HEAP_ALLOC_SIZE = 4
    MIN_HEAP_FREE_SIZE = 6
    WORD = 64
    HeapLimit = 14
    Sizes = {1, 3}
    ForeignSizes = {}
INVARIANT
    FreelistSane
CHECK_DEADLOCK FALSE
