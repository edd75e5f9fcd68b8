CONSTANTS
    Cpus = {c1, c2}
    NoOwner = NoOwner
    MaxIrqs = 1
SPECIFICATION FairSpec
INVARIANTS
    MutualExclusion
    AssertionsHold
PROPERTIES
    UnlockRestoresIF
    HeldLockIsReleased
    ImplementsAtomicLock
