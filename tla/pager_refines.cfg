CONSTANTS
    Pages <- FourPages
    PTRS_PER_PGTBL = 2
    memsize = 3
    swapsize = 4
    Algs = {"rand", "lru", "fifo", "clock", "opt"}
    Traces <- LoadTraces
    WriteFaults = FALSE
SPECIFICATION HSpec
INVARIANTS
    OptIsBest
    LruKeepsLatest
PROPERTY ImplementsDemandPaging
