----------------------------- MODULE AtomicLock -----------------------------
(***************************************************************************)
(* What a lock promises to the code that uses it: at most one execution    *)
(* context holds it, and acquiring and releasing it are single steps.      *)
(* Spinlock.tla is shown to implement this specification; the modules that *)
(* use spinlocks take and drop them in one step on the strength of it.     *)
(***************************************************************************)
CONSTANTS
    Contexts,   \* everything that may hold the lock
    NoHolder    \* not a context: the lock is free

VARIABLE holder

TypeOK == holder \in Contexts \cup {NoHolder}

Init == holder = NoHolder

Acquire(x) ==
    /\ holder = NoHolder
    /\ holder' = x

Release(x) ==
    /\ holder = x
    /\ holder' = NoHolder

Next == \E x \in Contexts : Acquire(x) \/ Release(x)

Spec == Init /\ [][Next]_holder
=============================================================================
