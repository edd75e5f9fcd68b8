CONSTANTS
    Tasks = {t1, t2, t3}
    Cpus = {c1, c2}
    NoCpu = NoCpu
    Preemption = TRUE
    EntryIF = {TRUE}
    MaxOps = 1
SPECIFICATION FairSpec
CHECK_DEADLOCK FALSE
INVARIANTS
    WriterExcludesAll
    ReaderCountExact
    
PROPERTIES
    EveryCallCompletes
    ImplementsRwLock
