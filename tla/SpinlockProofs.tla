--------------------------- MODULE SpinlockProofs ---------------------------
(***************************************************************************)
(* Proofs about Spinlock.tla, for any set of cpus and any number of        *)
(* interrupts.                                                             *)
(***************************************************************************)
EXTENDS Spinlock, TLAPS

\* Locations that a cpu only occupies with IF clear.  The lock is taken in the
\* middle of such a stretch, which is why MutualExclusion and the IF rule have
\* to be proved together.
Uninterruptible == {"entry", "cmpxchg", "backoff", "restore"} \cup Holding

\* The inductive invariant.  The interrupt count bounds the depth; a context at
\* an uninterruptible location is the one its cpu executes, with IF clear; the
\* lock byte is set while some context holds the lock, and one at most does;
\* the owner field names the holder from "held" until "reset_owner" and nobody
\* otherwise; the IF that spinlock_lock() saw is in the lock's field until
\* spinlock_unlock() reads it, and in that function's local from then on.
IInv ==
    /\ TypeOK
    /\ \A c \in Cpus : depth[c] <= irqs[c]
    /\ \A c \in Cpus : \A l \in Levels :
          /\ pc[c][l] \in Uninterruptible => ~iflag[c] /\ l = depth[c]
          /\ pc[c][l] \in Holding => lock = 1
          /\ pc[c][l] \in {"held", "reset_owner"} <=> owner = c /\ l = depth[c]
          /\ pc[c][l] \in {"set_owner", "release", "save_if"} => owner = NoOwner
          /\ pc[c][l] \in {"set_owner", "held"} => interrupts_enabled = irq[c][l]
          /\ pc[c][l] \in {"reset_owner", "release", "restore"} =>
                interrupts[c][l] = irq[c][l]
    /\ MutualExclusion

-----------------------------------------------------------------------------
\* Before any call to the lock functions the invariant holds: INIT_SPINLOCK().
LEMMA InitIInv == Init => IInv
<1> SUFFICES ASSUME Init PROVE IInv
  BY Zenon
<1> USE NoOwnerAssumption, MaxIrqsAssumption DEF Init, Levels
<1>1. TypeOK
  <2>1. 0 \in Levels /\ "out" \in Locations
    BY DEF Locations
  <2>2. QED BY Zenon, <2>1 DEF TypeOK
<1>2. \A c \in Cpus : \A l \in Levels : pc[c][l] = "out"
  BY Zenon
<1>3. QED BY <1>1, <1>2 DEF IInv, Holding, Uninterruptible, MutualExclusion

\* A step inside the lock functions moves one context of one cpu, keeps its
\* depth and preserves the invariant.
LEMMA StepIInv ==
    ASSUME IInv, NEW c \in Cpus, Step(c) \/ CallLock(c) \/ Interrupt(c) \/ ChangeIF(c)
    PROVE  IInv'
<1> USE NoOwnerAssumption, MaxIrqsAssumption
<1> USE DEF IInv, TypeOK, Levels, Locations, Waiting, Holding, Uninterruptible, MutualExclusion,
            At, Goto, SetIF, lockVars, locals
<1>1. CASE Test(c) BY <1>1 DEF Test
<1>2. CASE CmpXchg(c) BY <1>2 DEF CmpXchg
<1>3. CASE Backoff(c) BY <1>3 DEF Backoff
<1>4. CASE SaveIF(c) BY <1>4 DEF SaveIF
<1>5. CASE SetOwner(c) BY <1>5 DEF SetOwner
<1>6. CASE CallUnlock(c) BY <1>6 DEF CallUnlock
<1>7. CASE ResetOwner(c) BY <1>7 DEF ResetOwner
<1>8. CASE Release(c) BY <1>8 DEF Release
<1>9. CASE Restore(c) BY <1>9 DEF Restore
<1>10. CASE EnterHandler(c) BY <1>10 DEF EnterHandler
<1>11. CASE ReturnFromHandler(c) BY <1>11 DEF ReturnFromHandler
<1>12. CASE CallLock(c) BY <1>12 DEF CallLock
<1>13. CASE Interrupt(c)
  <2> USE <1>13 DEF Interrupt
  <2>1. depth[c] + 1 \in Levels /\ irqs[c] + 1 \in Levels
    OBVIOUS
  <2>2. depth' \in [Cpus -> Levels] /\ irqs' \in [Cpus -> Levels] /\ depth'[c] <= irqs'[c]
    BY <2>1
  <2>3. \A l \in Levels : pc[c][l] \notin Uninterruptible
    BY Zenon
  <2>4. owner # c
    <3>1. depth[c] \in Levels
      OBVIOUS
    <3>2. owner = c => pc[c][depth[c]] \in {"held", "reset_owner"}
      BY <3>1
    <3>3. QED BY Zenon, <2>3, <3>1, <3>2
  <2>5. TypeOK'
    BY <2>1, <2>2
  <2>6. QED BY <2>1, <2>2, <2>3, <2>4, <2>5
<1>14. CASE ChangeIF(c) BY <1>14 DEF ChangeIF
<1>15. QED
  BY Zenon, <1>1, <1>2, <1>3, <1>4, <1>5, <1>6, <1>7, <1>8, <1>9, <1>10, <1>11, <1>12, <1>13, <1>14
  DEF Step

\* The invariant is inductive: no step of any cpu, inside the lock functions or
\* not, leads out of it.
LEMMA NextIInv == IInv /\ [Next]_vars => IInv'
<1> SUFFICES ASSUME IInv, [Next]_vars PROVE IInv'
  BY Zenon
<1>1. CASE Next
  BY Zenon, <1>1, StepIInv DEF Next
<1>2. CASE UNCHANGED vars
  BY <1>2 DEF vars, IInv, TypeOK, MutualExclusion
<1>3. QED BY Zenon, <1>1, <1>2

\* The inductive invariant holds in every state that spinlock_lock(),
\* spinlock_unlock() and the interrupts of any number of cpus can reach.
THEOREM Invariance == Spec => []IInv
<1>1. QED BY InitIInv, NextIInv, PTL DEF Spec

\* Whatever the number of cpus and interrupts, one context at most is between
\* the cmpxchg that takes the lock and the store that releases it.
THEOREM MutualExclusionTheorem == Spec => []MutualExclusion
<1>1. IInv => MutualExclusion BY Zenon DEF IInv
<1>2. QED BY <1>1, Invariance, PTL

\* No interrupt is delivered to a cpu that holds the lock, hence no handler can
\* spin on a lock of its own cpu.
THEOREM NeverInterruptedTheorem == Spec => []NeverInterruptedWhileHolding
<1>1. IInv => NeverInterruptedWhileHolding
  BY Zenon DEF IInv, NeverInterruptedWhileHolding, Uninterruptible
<1>2. QED BY <1>1, Invariance, PTL

\* The assertions of spinlock_lock() and spinlock_unlock() never fail.
THEOREM AssertionsTheorem == Spec => []AssertionsHold
<1>1. IInv => AssertionsHold
  <2> SUFFICES ASSUME IInv, NEW c \in Cpus
               PROVE  /\ At(c, "save_if") => ~iflag[c]
                      /\ At(c, "set_owner") => owner = NoOwner
                      /\ At(c, "reset_owner") => owner = c
    BY Zenon DEF AssertionsHold
  <2>1. depth[c] \in Levels BY DEF IInv, TypeOK
  <2>2. QED BY <2>1 DEF IInv, At, Uninterruptible, Holding
<1>2. QED BY <1>1, Invariance, PTL

\* spinlock_is_held() is exact.
THEOREM IsHeldTheorem == Spec => []IsHeldExact
<1>1. IInv => IsHeldExact
  <2> SUFFICES ASSUME IInv, NEW c \in Cpus
               PROVE  lock = 1 /\ owner = c <=> At(c, "held") \/ At(c, "reset_owner")
    BY Zenon DEF IsHeldExact, spinlock_is_held
  <2>1. depth[c] \in Levels BY DEF IInv, TypeOK
  <2>2. QED BY <2>1 DEF IInv, At, Holding
<1>2. QED BY <1>1, Invariance, PTL

\* spinlock_unlock() gives back the IF that its spinlock_lock() saw.
THEOREM UnlockRestoresIFTheorem == Spec => UnlockRestoresIF
<1> DEFINE Restored ==
      \A c \in Cpus :
          At(c, "restore") /\ pc'[c][depth[c]] = "out" => iflag'[c] = irq[c][depth[c]]
<1>1. IInv /\ [Next]_vars => [Restored]_vars
  <2> SUFFICES ASSUME IInv, Next, NEW c \in Cpus,
                      At(c, "restore"), pc'[c][depth[c]] = "out"
               PROVE  iflag'[c] = irq[c][depth[c]]
    BY Zenon
  <2> USE DEF At, Goto, SetIF, IInv, TypeOK, lockVars, locals
  <2>1. PICK d \in Cpus : Step(d) \/ CallLock(d) \/ Interrupt(d) \/ ChangeIF(d)
    BY Zenon DEF Next
  <2>2. CASE c = d /\ Restore(d)
    BY <2>2 DEF Restore
  <2>3. CASE c # d
    BY <2>1, <2>3 DEF Step, CallLock, Interrupt, ChangeIF, Test, CmpXchg, Backoff, SaveIF, SetOwner,
       CallUnlock, ResetOwner, Release, Restore, EnterHandler, ReturnFromHandler
  <2>4. CASE c = d /\ ~Restore(d)
    BY <2>1, <2>4 DEF Step, CallLock, Interrupt, ChangeIF, Test, CmpXchg, Backoff, SaveIF, SetOwner,
       CallUnlock, ResetOwner, Release, EnterHandler, ReturnFromHandler, Uninterruptible
  <2>5. QED BY Zenon, <2>2, <2>3, <2>4
<1>2. QED BY <1>1, Invariance, PTL DEF Spec, UnlockRestoresIF

-----------------------------------------------------------------------------
\* If c holds the lock it is the abstract holder, because nobody else does.
LEMMA HolderIs ==
    ASSUME IInv, NEW c \in Cpus, HoldsLock(c)
    PROVE  holder = c
  BY Zenon DEF holder, HoldsLock, IInv, MutualExclusion

\* If no cpu holds the lock the abstract lock is free.
LEMMA HolderNone ==
    ASSUME \A c \in Cpus : ~HoldsLock(c)
    PROVE  holder = NoOwner
  BY Zenon DEF holder

\* Only the cmpxchg that finds the lock free and the store of _spinlock_unlock()
\* change who holds the lock.
LEMMA HoldersUnchanged ==
    ASSUME IInv, NEW d \in Cpus, Step(d) \/ CallLock(d) \/ Interrupt(d) \/ ChangeIF(d),
           ~(CmpXchg(d) /\ lock = 0), ~Release(d), NEW c \in Cpus
    PROVE  HoldsLock(c)' <=> HoldsLock(c)
<1> USE DEF At, Goto, SetIF, IInv, TypeOK, lockVars, locals, Holding
<1> SUFFICES \A l \in Levels : pc'[c][l] \in Holding <=> pc[c][l] \in Holding
  BY Zenon DEF HoldsLock
<1>1. CASE Test(d) \/ Backoff(d) \/ SaveIF(d) \/ SetOwner(d) \/ CallUnlock(d)
           \/ ResetOwner(d) \/ Restore(d) \/ EnterHandler(d)
  BY <1>1 DEF Test, Backoff, SaveIF, SetOwner, CallUnlock, ResetOwner, Restore, EnterHandler
<1>2. CASE ReturnFromHandler(d) \/ ChangeIF(d) \/ CallLock(d)
  BY <1>2 DEF ReturnFromHandler, ChangeIF, CallLock
<1>3. CASE Interrupt(d)
  <2>1. \A l \in Levels : pc[d][l] \notin Holding
    BY Zenon, <1>3 DEF Interrupt, Uninterruptible
  <2>2. \A l \in Levels : pc'[d][l] \notin Holding
    BY <1>3, <2>1 DEF Interrupt
  <2>3. QED BY <1>3, <2>1, <2>2 DEF Interrupt
<1>4. CASE CmpXchg(d) /\ lock # 0
  BY <1>4 DEF CmpXchg
<1>5. QED BY Zenon, <1>1, <1>2, <1>3, <1>4 DEF Step

\* The spinlock implements the atomic lock: cpus see one atomic acquisition and
\* one atomic release, whatever the interleaving of the steps of spinlock.S.
THEOREM Refinement == Spec => ImplementsAtomicLock
<1>1. Init => Abstract!Init
  <2> SUFFICES ASSUME Init PROVE \A c \in Cpus : ~HoldsLock(c)
    BY Zenon, HolderNone DEF Abstract!Init
  <2>1. QED BY Zenon DEF Init, HoldsLock, Holding
<1>2. IInv /\ IInv' /\ [Next]_vars => [Abstract!Next]_holder
  <2> SUFFICES ASSUME IInv, IInv', [Next]_vars
               PROVE  Abstract!Next \/ holder' = holder
    BY Zenon
  <2>1. CASE UNCHANGED vars
    BY Zenon, <2>1 DEF vars, holder, HoldsLock
  <2>2. ASSUME NEW d \in Cpus, CmpXchg(d), lock = 0
        PROVE  Abstract!Acquire(d)
    <3>1. holder = NoOwner
      BY <2>2, HolderNone DEF IInv, HoldsLock
    <3>2. HoldsLock(d)'
      BY <2>2 DEF CmpXchg, Goto, HoldsLock, IInv, TypeOK, Holding
    <3>3. holder' = d
      BY Zenon, <2>2, <3>2, IInv' DEF holder, HoldsLock, IInv, MutualExclusion
    <3>4. QED BY Zenon, <3>1, <3>3 DEF Abstract!Acquire
  <2>3. ASSUME NEW d \in Cpus, Release(d)
        PROVE  Abstract!Release(d)
    <3>1. HoldsLock(d)
      BY <2>3 DEF Release, At, HoldsLock, IInv, TypeOK, Holding
    <3>2. holder = d
      BY Zenon, <3>1, HolderIs
    <3>3. \A c \in Cpus : ~HoldsLock(c)'
      BY <2>3 DEF Release, At, Goto, HoldsLock, IInv, TypeOK, Holding
    <3>4. holder' = NoOwner
      BY Zenon, <3>3 DEF holder
    <3>5. QED BY Zenon, <3>2, <3>4 DEF Abstract!Release
  <2>4. ASSUME NEW d \in Cpus, Step(d) \/ CallLock(d) \/ Interrupt(d) \/ ChangeIF(d),
               ~(CmpXchg(d) /\ lock = 0), ~Release(d)
        PROVE  holder' = holder
    <3>1. \A c \in Cpus : HoldsLock(c)' <=> HoldsLock(c)
      BY Zenon, <2>4, HoldersUnchanged
    <3>2. CASE \E c \in Cpus : HoldsLock(c)
      <4>1. PICK c \in Cpus : HoldsLock(c) BY Zenon, <3>2
      <4>2. holder = c BY Zenon, <4>1, HolderIs
      <4>3. HoldsLock(c)' BY Zenon, <3>1, <4>1
      <4>4. holder' = c
        BY <4>3, IInv' DEF holder, HoldsLock, IInv, MutualExclusion
      <4>5. QED BY Zenon, <4>2, <4>4
    <3>3. CASE \A c \in Cpus : ~HoldsLock(c)
      BY Zenon, <3>1, <3>3 DEF holder
    <3>4. QED BY Zenon, <3>2, <3>3
  <2>5. QED BY Zenon, <2>1, <2>2, <2>3, <2>4 DEF Next, Abstract!Next
<1>3. QED BY <1>1, <1>2, Invariance, PTL DEF Spec, ImplementsAtomicLock, Abstract!Spec
=============================================================================
