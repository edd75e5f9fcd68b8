CONSTANTS
    PAGE = 4
    ADDR_LIMIT = 64
    LEN_LIMIT = 4096
    BITS = 8
    LOW_MEM_MAX_IDX = 7
    CODE_LIMIT = 16
    INFO_SIZE = 2
    STACK_FRAMES = 2
    N = 2
    Kernel <- MCKernel
    VgaBuffer <- MCVgaBuffer
    Machines <- MCMachines
SPECIFICATION Spec
CHECK_DEADLOCK FALSE
INVARIANTS
    
    TrampolineKept
    InterruptsExpected
    OwnKernelStacks

    
