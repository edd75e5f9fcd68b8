CONSTANTS
    Threads = {t1, t2}
    Cpus = {c1, c2}
    None = None
    PAGE = 16
    LOW_MEM_MAX_IDX = 1
    Frames = 4
    Reserved = {}
    KPages = 3
    Sizes = {2, 9, 16}
    ErrSize = 3
    NUM_STATIC = 2
    Wrap = 16
    MaxOps = 3
    Live = {0, 3}
SPECIFICATION Spec
SYMMETRY Symmetry
INVARIANTS
    HeapTiled
    AllocationsOwned
    
    
CHECK_DEADLOCK FALSE
