SPECIFICATION Spec
CONSTANTS
    Procs = {p1, p2}
    NoProc = NoProc
    SECTOR = 2
    Headers <- MCHeaders
    Archives <- MCArchives
    Initrd = "r"
    MountPoints <- MCMountPoints
    Paths <- MCPaths
    MAX_FDS = 2
    FileIds = {1, 2, 3, 4}
    Values = {1}
    Lengths = {1, 3}
    MaxOps = 5
    MaxMountOps = 2
INVARIANTS
    OneFilePerPath
    
    
    NobodyStuck
SYMMETRY Symmetry
CHECK_DEADLOCK FALSE
