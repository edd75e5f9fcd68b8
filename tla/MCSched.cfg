CONSTANTS
    Cpus = {c1, c2}
    Procs = {p1, p2}
    NoProc = NoProc
    MaxPreempt = 1
SPECIFICATION FairSpec
INVARIANTS
    StackExclusive
    OnePlace
    NoProcessLost
PROPERTIES
    DeadNeverResumed
    WaitingProcessRuns
