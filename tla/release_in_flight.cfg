CONSTANTS
    Procs = {1, 2, 3}
    Uid <- OneRoot
    NR_syscalls = 2
    Asked = {1}
    AskedPids = {0, 2, 3}
    InKernel = 2
    KmallocFails = FALSE
SPECIFICATION Spec
INVARIANT OriginalCallable
