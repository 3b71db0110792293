CONSTANTS
    Pages <- ThreePages
    PTRS_PER_PGTBL = 2
    memsize = 2
    swapsize = 1
    Algs = {"rand", "lru", "fifo", "clock", "opt"}
    Traces <- MixedTraces
    WriteFaults = TRUE
SPECIFICATION Spec
INVARIANTS
    SlotsDistinct
    CountersAddUp
