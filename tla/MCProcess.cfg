CONSTANTS
    LOW_MEM_MAX_IDX = 0
    ENTRIES = 5
    KERNEL_MIN_PDE_IDX = 2
    Cpus = {c1, c2}
    Procs = {p1, p2}
    K = K
    Frames = 17
    Image = 1
    MaxOps = 4
    Reserved = {9}
    STACK_FRAMES = 2
    Programs <- TwoPrograms
    Regions <- OneRegion
SPECIFICATION Spec
SYMMETRY Symmetry
CHECK_DEADLOCK FALSE
INVARIANTS
    
    
    
    UserPagesReachable
