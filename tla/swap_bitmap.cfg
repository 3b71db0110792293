CONSTANTS
    BITS_PER_WORD = 3
    UINT = 12
    Sizes = {0, 1, 2, 3, 4, 5, 6, 7, 8, 9, 10, 11}
SPECIFICATION Spec
INVARIANT WithinFile
PROPERTY ImplementsSlotPool
