CONSTANTS
    Pages <- ThreePages
    PTRS_PER_PGTBL = 2
    memsize = 2
    swapsize = 3
    Algs = {"rand", "lru", "fifo", "clock", "opt"}
    Traces <- MixedTraces
    WriteFaults = FALSE
SPECIFICATION HSpec
INVARIANTS
    TypeOK
    FrameTable
    ListTracksMemory
    CountersBalance
    SelfCheck
    SlotsOwned
    NeverCrashes
    StoresKept
