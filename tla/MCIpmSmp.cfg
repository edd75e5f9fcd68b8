CONSTANTS
    NCpus = 3
    Procs = {p1, p2}
    Kinds = {"broadcast", "tlb"}
    TlbIF = {TRUE, FALSE}
    CallIF = {TRUE}
    Preemption = FALSE
    NeverReturns = FALSE
    MaxOps = 1
    MaxNested = 0
SPECIFICATION Spec
SYMMETRY Symmetry
CHECK_DEADLOCK FALSE
INVARIANTS
    TlbMessageSafe
    ShootdownComplete
    RefCountExact
