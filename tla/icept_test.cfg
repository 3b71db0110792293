CONSTANTS
    Procs = {1, 2, 3, 4}
    Uid <- Owners
    NR_syscalls = 3
    Asked <- SyscallsAsked
    AskedPids <- PidsAsked
    InKernel = 3
    KmallocFails = FALSE
    Loader <- NoLoader
    Tester = 2
    Guest = 3
    Init_pid = 1
    NR_exit = 1
    NR_open = 2
    BystanderAsks = TRUE
SPECIFICATION TestFairSpec
INVARIANTS
    OriginalKept
    
    TableRestored
    CrashesExplained
 
