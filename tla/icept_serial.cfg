CONSTANTS
    Procs = {1, 2}
    Uid <- OneRoot
    NR_syscalls = 2
    Asked = {0, 1}
    AskedPids <- AnyPid
    InKernel = 1
    KmallocFails = FALSE
SPECIFICATION HSpec
INVARIANTS
    ListsInOrder
    ExitsForgotten
PROPERTY ImplementsService
