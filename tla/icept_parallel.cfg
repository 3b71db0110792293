CONSTANTS
    Procs = {1, 2, 3}
    Uid <- TwoRoots
    NR_syscalls = 2
    Asked = {1}
    AskedPids = {0, 2}
    InKernel = 2
    KmallocFails = TRUE
SPECIFICATION FairSpec
INVARIANTS
    TypeOK
    LocksExclusive
    WriteProtected
PROPERTIES
    
    WritesAllowed
    LocksReleased
