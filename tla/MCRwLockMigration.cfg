CONSTANTS
    Tasks = {t1, t2}
    Cpus = {c1, c2}
    NoCpu = NoCpu
    Preemption = TRUE
    EntryIF = {TRUE}
    MaxOps = 1
SPECIFICATION Spec
INVARIANTS
    UnlockByOwner
