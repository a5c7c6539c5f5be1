SPECIFICATION Spec
CONSTANTS
    HDR = 1
    MIN_HEAP_ALLOC_SIZE = 4
    MIN_HEAP_FREE_SIZE = 6
    WORD = 64
    HeapLimit = 14
    Sizes = {1, 2, 6}
    ForeignSizes = {2}
INVARIANTS
    HeapTiled
PROPERTIES
    FreeCoalesces
CHECK_DEADLOCK FALSE
