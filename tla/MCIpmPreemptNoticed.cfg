CONSTANTS
    NCpus = 2
    Procs = {p1, p2}
    Kinds = {"tlb"}
    TlbIF = {TRUE}
    CallIF = {TRUE}
    Preemption = TRUE
    NeverReturns = FALSE
    MaxOps = 1
    MaxNested = 0
SPECIFICATION Spec
SYMMETRY Symmetry
CHECK_DEADLOCK FALSE
INVARIANTS
    MessagesNoticed
