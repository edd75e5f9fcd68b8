------------------------------ MODULE Spinlock ------------------------------
(***************************************************************************)
(* The spinlock of spinlock_def.c and spinlock.S, one lock shared by all   *)
(* cpus, at the granularity of its accesses to shared memory.              *)
(*                                                                         *)
(* A cpu runs a stack of execution contexts: level 0 is the code that was  *)
(* running, level n + 1 the interrupt handler that interrupted level n.    *)
(* An interrupt is delivered between any two steps of a cpu whose IF is    *)
(* set, the lock functions' own steps included.  Any context may call      *)
(* spinlock_lock() and must then call spinlock_unlock() from the same      *)
(* context; what it does in between does not change IF.                    *)
(***************************************************************************)
EXTENDS Naturals

CONSTANTS
    Cpus,       \* the processors
    NoOwner,    \* the owner field of a free lock, 0xFF
    MaxIrqs     \* bound: interrupts delivered to each cpu

ASSUME NoOwnerAssumption == NoOwner \notin Cpus
ASSUME MaxIrqsAssumption == MaxIrqs \in Nat

Levels == 0 .. MaxIrqs

VARIABLES
    lock,                \* spinlock_t.lock: 0 free, 1 held
    owner,               \* spinlock_t.owner
    interrupts_enabled,  \* spinlock_t.interrupts_enabled: IF saved by the holder
    iflag,               \* iflag[c]: the interrupt flag of cpu c
    depth,               \* depth[c]: level of the context cpu c is executing
    irqs,                \* irqs[c]: interrupts delivered to c so far (bound)
    pc,                  \* pc[c][l]: where context l of cpu c is
    irq,                 \* irq[c][l]: local of spinlock_lock()
    interrupts           \* interrupts[c][l]: local of spinlock_unlock()

lockVars == <<lock, owner, interrupts_enabled>>
locals == <<irq, interrupts>>
vars == <<lock, owner, interrupts_enabled, iflag, depth, irqs, pc, irq, interrupts>>

(***************************************************************************)
(* Locations of a context.  "out": not in the lock's code, not holding it; *)
(* "entry": first instructions of an interrupt handler, IF still clear;    *)
(* "test", "cmpxchg", "backoff": in _spinlock_lock(); "save_if" and        *)
(* "set_owner": the two stores of spinlock_lock() after it; "held": the    *)
(* critical section; "reset_owner", "release", "restore": the rest of      *)
(* spinlock_unlock() after it has read interrupts_enabled.                 *)
(***************************************************************************)
Waiting == {"test", "cmpxchg", "backoff"}
Holding == {"save_if", "set_owner", "held", "reset_owner", "release"}
Locations == {"out", "entry", "restore"} \cup Waiting \cup Holding

\* The types of the variables.
TypeOK ==
    /\ lock \in {0, 1}
    /\ owner \in Cpus \cup {NoOwner}
    /\ interrupts_enabled \in BOOLEAN
    /\ iflag \in [Cpus -> BOOLEAN]
    /\ depth \in [Cpus -> Levels]
    /\ irqs \in [Cpus -> Levels]
    /\ pc \in [Cpus -> [Levels -> Locations]]
    /\ irq \in [Cpus -> [Levels -> BOOLEAN]]
    /\ interrupts \in [Cpus -> [Levels -> BOOLEAN]]

\* INIT_SPINLOCK(); every cpu in code that does not use the lock yet.
Init ==
    /\ lock = 0
    /\ owner = NoOwner
    /\ interrupts_enabled = FALSE
    /\ iflag \in [Cpus -> BOOLEAN]
    /\ depth = [c \in Cpus |-> 0]
    /\ irqs = [c \in Cpus |-> 0]
    /\ pc = [c \in Cpus |-> [l \in Levels |-> "out"]]
    /\ irq = [c \in Cpus |-> [l \in Levels |-> FALSE]]
    /\ interrupts = [c \in Cpus |-> [l \in Levels |-> FALSE]]

-----------------------------------------------------------------------------
\* The context that cpu c executes is at `loc`.
At(c, loc) == pc[c][depth[c]] = loc

\* The context that cpu c executes moves to `loc`.
Goto(c, loc) == pc' = [pc EXCEPT ![c][depth[c]] = loc]

SetIF(c, b) == iflag' = [iflag EXCEPT ![c] = b]

\* spinlock_lock(): bool const irq = interrupts_enabled();
CallLock(c) ==
    /\ At(c, "out")
    /\ irq' = [irq EXCEPT ![c][depth[c]] = iflag[c]]
    /\ Goto(c, "test")
    /\ UNCHANGED <<lockVars, iflag, depth, irqs, interrupts>>

\* The test loop without its cli: interrupts stay enabled while the lock is
\* tested, taken and held.
TestNoCli(c) ==
    /\ At(c, "test")
    /\ Goto(c, IF lock = 0 THEN "cmpxchg" ELSE "backoff")
    /\ UNCHANGED <<lockVars, iflag, depth, irqs, locals>>

\* test: cli; cmp [lock], 0; jnz backoff
Test(c) ==
    /\ At(c, "test")
    /\ SetIF(c, FALSE)
    /\ Goto(c, IF lock = 0 THEN "cmpxchg" ELSE "backoff")
    /\ UNCHANGED <<lockVars, depth, irqs, locals>>

\* A plain store instead of the locked compare-and-exchange: a lock taken by
\* another cpu since the test is taken a second time.
CmpXchgNotAtomic(c) ==
    /\ At(c, "cmpxchg")
    /\ lock' = 1
    /\ Goto(c, "save_if")
    /\ UNCHANGED <<owner, interrupts_enabled, iflag, depth, irqs, locals>>

\* lock cmpxchg [lock], 1; jnz backoff
CmpXchg(c) ==
    /\ At(c, "cmpxchg")
    /\ lock' = 1
    /\ Goto(c, IF lock = 0 THEN "save_if" ELSE "backoff")
    /\ UNCHANGED <<owner, interrupts_enabled, iflag, depth, irqs, locals>>

\* backoff: sti if irq; pause
Backoff(c) ==
    /\ At(c, "backoff")
    /\ iflag' = [iflag EXCEPT ![c] = @ \/ irq[c][depth[c]]]
    /\ Goto(c, "test")
    /\ UNCHANGED <<lockVars, depth, irqs, locals>>

\* lock->interrupts_enabled = irq;
SaveIF(c) ==
    /\ At(c, "save_if")
    /\ interrupts_enabled' = irq[c][depth[c]]
    /\ Goto(c, "set_owner")
    /\ UNCHANGED <<lock, owner, iflag, depth, irqs, locals>>

\* lock->owner = cpu_id();
SetOwner(c) ==
    /\ At(c, "set_owner")
    /\ owner' = c
    /\ Goto(c, "held")
    /\ UNCHANGED <<lock, interrupts_enabled, iflag, depth, irqs, locals>>

\* spinlock_unlock(): bool const interrupts = lock->interrupts_enabled;
CallUnlock(c) ==
    /\ At(c, "held")
    /\ interrupts' = [interrupts EXCEPT ![c][depth[c]] = interrupts_enabled]
    /\ Goto(c, "reset_owner")
    /\ UNCHANGED <<lockVars, iflag, depth, irqs, irq>>

\* spinlock_unlock() without the reset of the owner.
ResetOwnerForgotten(c) ==
    /\ At(c, "reset_owner")
    /\ Goto(c, "release")
    /\ UNCHANGED <<lockVars, iflag, depth, irqs, locals>>

\* lock->owner = 0xFF;
ResetOwner(c) ==
    /\ At(c, "reset_owner")
    /\ owner' = NoOwner
    /\ Goto(c, "release")
    /\ UNCHANGED <<lock, interrupts_enabled, iflag, depth, irqs, locals>>

\* _spinlock_unlock(): mov BYTE PTR [lock], 0
Release(c) ==
    /\ At(c, "release")
    /\ lock' = 0
    /\ Goto(c, "restore")
    /\ UNCHANGED <<owner, interrupts_enabled, iflag, depth, irqs, locals>>

\* Restoring IF from the lock instead of the local read before the release:
\* the next holder may have overwritten it.
RestoreFromLock(c) ==
    /\ At(c, "restore")
    /\ SetIF(c, interrupts_enabled)
    /\ Goto(c, "out")
    /\ UNCHANGED <<lockVars, depth, irqs, locals>>

\* cpu_set_interrupt_flag(interrupts);
Restore(c) ==
    /\ At(c, "restore")
    /\ SetIF(c, interrupts[c][depth[c]])
    /\ Goto(c, "out")
    /\ UNCHANGED <<lockVars, depth, irqs, locals>>

-----------------------------------------------------------------------------
\* The cpu delivers an interrupt: the gate clears IF and the handler starts.
Interrupt(c) ==
    /\ iflag[c]
    /\ irqs[c] < MaxIrqs
    /\ irqs' = [irqs EXCEPT ![c] = @ + 1]
    /\ depth' = [depth EXCEPT ![c] = @ + 1]
    /\ pc' = [pc EXCEPT ![c][depth[c] + 1] = "entry"]
    /\ SetIF(c, FALSE)
    /\ UNCHANGED <<lockVars, locals>>

\* generic_interrupt_handler(): lapic_eoi(); cpu_set_interrupt_flag(true);
\* the callback that follows runs with interrupts enabled.
EnterHandler(c) ==
    /\ At(c, "entry")
    /\ SetIF(c, TRUE)
    /\ Goto(c, "out")
    /\ UNCHANGED <<lockVars, depth, irqs, locals>>

\* generic_interrupt_handler(): cpu_set_interrupt_flag(false), then iret to a
\* context that was interrupted with IF set.
ReturnFromHandler(c) ==
    /\ At(c, "out")
    /\ depth[c] > 0
    /\ depth' = [depth EXCEPT ![c] = @ - 1]
    /\ SetIF(c, TRUE)
    /\ UNCHANGED <<lockVars, irqs, pc, locals>>

\* cpu_set_interrupt_flag() by code that does not hold the lock.
ChangeIF(c) ==
    /\ At(c, "out")
    /\ SetIF(c, ~iflag[c])
    /\ UNCHANGED <<lockVars, depth, irqs, pc, locals>>

\* The steps a cpu does not put off forever once it may take them.
Step(c) ==
    \/ Test(c) \/ CmpXchg(c) \/ Backoff(c) \/ SaveIF(c) \/ SetOwner(c)
    \/ CallUnlock(c) \/ ResetOwner(c) \/ Release(c) \/ Restore(c)
    \/ EnterHandler(c) \/ ReturnFromHandler(c)

Next == \E c \in Cpus : Step(c) \/ CallLock(c) \/ Interrupt(c) \/ ChangeIF(c)

Spec == Init /\ [][Next]_vars

\* Cpus execute independently and critical sections are finite.
FairSpec == Spec /\ \A c \in Cpus : WF_vars(Step(c))

-----------------------------------------------------------------------------
\* spinlock_is_held(), as evaluated by code that runs on cpu c.
spinlock_is_held(c) == lock = 1 /\ owner = c

\* At most one context of one cpu is between the cmpxchg that takes the lock
\* and the store that releases it.
MutualExclusion ==
    \A c, d \in Cpus : \A l, m \in Levels :
        pc[c][l] \in Holding /\ pc[d][m] \in Holding => c = d /\ l = m

\* The reason spinlocks touch IF at all (spinlock.h: "This allows us to disable
\* interrupts in critical sections"): from the cmpxchg to the release the cpu
\* keeps IF clear and stays in the context that took the lock, so that no
\* interrupt handler ever spins on a lock its own cpu holds.
NeverInterruptedWhileHolding ==
    \A c \in Cpus : \A l \in Levels :
        pc[c][l] \in Holding => ~iflag[c] /\ l = depth[c]

\* The three assertions of spinlock_lock() and spinlock_unlock() never fail:
\* IF is clear and the owner field reset once the lock is acquired, and the
\* unlocking cpu is the owner.
AssertionsHold ==
    \A c \in Cpus :
        /\ At(c, "save_if") => ~iflag[c]
        /\ At(c, "set_owner") => owner = NoOwner
        /\ At(c, "reset_owner") => owner = c

\* spinlock_is_held() answers true on the cpu that is in the critical section,
\* on no other cpu, and never before the lock is taken or after it is dropped.
IsHeldExact ==
    \A c \in Cpus : spinlock_is_held(c) <=> At(c, "held") \/ At(c, "reset_owner")

\* A lock/unlock pair is transparent for IF: whatever the other cpus did to the
\* lock meanwhile, spinlock_unlock() gives back the IF its spinlock_lock() saw.
UnlockRestoresIF ==
    [][\A c \in Cpus :
          At(c, "restore") /\ pc'[c][depth[c]] = "out" => iflag'[c] = irq[c][depth[c]]]_vars

\* A held lock is released: no holder waits for its own interrupt handler.
HeldLockIsReleased == lock = 1 ~> lock = 0

-----------------------------------------------------------------------------
\* The cpu that holds the lock, or NoOwner: what the abstract lock shows.
HoldsLock(c) == \E l \in Levels : pc[c][l] \in Holding

holder ==
    IF \E c \in Cpus : HoldsLock(c) THEN CHOOSE c \in Cpus : HoldsLock(c) ELSE NoOwner

Abstract == INSTANCE AtomicLock WITH
    Contexts <- Cpus, NoHolder <- NoOwner, holder <- holder

\* Seen from outside, the many steps of _spinlock_lock() and _spinlock_unlock()
\* are one atomic acquisition (the cmpxchg) and one atomic release.
ImplementsAtomicLock == Abstract!Spec
=============================================================================
