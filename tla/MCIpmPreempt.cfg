CONSTANTS
    NCpus = 2
    Procs = {p1, p2}
    Kinds = {"call", "tlb"}
    TlbIF = {TRUE, FALSE}
    CallIF = {TRUE}
    Preemption = TRUE
    NeverReturns = TRUE
    MaxOps = 1
    MaxNested = 0
SPECIFICATION Spec
SYMMETRY Symmetry
CHECK_DEADLOCK FALSE
INVARIANTS
    TlbMessageSafe
    ShootdownComplete
    SyncCallDone
