CONSTANTS
    NCpus = 2
    Procs = {p1, p2}
    Kinds = {"call", "broadcast", "tlb"}
    TlbIF = {TRUE, FALSE}
    CallIF = {TRUE}
    Preemption = FALSE
    NeverReturns = FALSE
    MaxOps = 1
    MaxNested = 1
SPECIFICATION FairSpec
CHECK_DEADLOCK FALSE
INVARIANTS
    MessagesNoticed
PROPERTIES
    OperationsReturn
