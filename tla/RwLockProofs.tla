---------------------------- MODULE RwLockProofs ----------------------------
(***************************************************************************)
(* Proofs about RwLock.tla, for any finite set of tasks.                   *)
(***************************************************************************)
EXTENDS RwLock, FiniteSetTheorems, TLAPS

\* Tasks that num_readers counts: the read holders, and the first reader while
\* it waits for writer_lock.
Counted == {t \in Tasks : pc[t] \in {"r_writer", "r_leave", "reading", "u_enter", "u_count"}}

\* readers_lock is a lock: at most one task is inside, and only while it is held.
ReadersLockInv ==
    /\ \A t, u \in InReadersLock : t = u
    /\ \A t \in InReadersLock : readers_lock.held

\* The count is exact at every step, and the reader that waits for writer_lock
\* is the only one counted.  writer_lock is held on behalf of readers and writers.
CountInv ==
    /\ num_readers = Cardinality(Counted)
    /\ \A t \in Tasks : pc[t] = "r_writer" => Counted = {t}
    /\ \A t \in Tasks : t \in ReadHolders \cup WriteHolders => writer_lock.held

\* Where the IF of the caller is kept: in the cpu outside the spinlocks, in the
\* spinlock's field inside.
IFInv ==
    \A t \in Tasks :
        /\ pc[t] \in {"out", "r_enter", "reading", "u_enter", "w_enter"} => iflag[t] = entry[t]
        /\ t \in InReadersLock => readers_lock.interrupts_enabled = entry[t]
        /\ pc[t] = "writing" => writer_lock.interrupts_enabled = entry[t]

\* The spinlocks' owner fields name the cpu of the task that is inside, as long
\* as no task changes cpu.
OwnerInv ==
    ~Preemption =>
        \A t \in Tasks :
            /\ t \in InReadersLock => readers_lock.owner = cpu[t]
            /\ pc[t] = "writing" => writer_lock.owner = cpu[t]

\* The inductive invariant.
IInv == TypeOK /\ ReadersLockInv /\ CountInv /\ WriterExcludesAll /\ IFInv /\ OwnerInv

-----------------------------------------------------------------------------
\* Any step of a task.
TaskStep(t) == Step(t) \/ Call(t) \/ Preempt(t) \/ Dispatch(t)

\* INIT_RW_LOCK() satisfies the invariant.
LEMMA InitIInv == Init => IInv
<1> SUFFICES ASSUME Init PROVE IInv
  BY Zenon
<1> USE DEF Init
<1>1. TypeOK
  BY EntryIFAssumption, MaxOpsAssumption
  DEF TypeOK, SpinlockType, FreeSpinlock, Locations, Placement
<1>2. InReadersLock = {} /\ Counted = {} /\ ReadHolders = {} /\ WriteHolders = {}
  BY Zenon DEF InReadersLock, Counted, ReadHolders, WriteHolders
<1>3. Cardinality({}) = 0
  BY Zenon, FS_EmptySet
<1>4. QED
  BY Zenon, <1>1, <1>2, <1>3
  DEF IInv, ReadersLockInv, CountInv, WriterExcludesAll, IFInv, OwnerInv

\* Types are preserved; num_readers stays a natural number because a task that
\* decrements it is counted by it.
LEMMA TypeStep ==
    ASSUME IInv, NEW t \in Tasks, TaskStep(t)
    PROVE  TypeOK'
<1> USE CpusAssumption, MaxOpsAssumption
<1> USE DEF IInv, TypeOK, SpinlockType, Locations, Go, SetIF, Acquired, Released, locks
<1>1. CASE ReadEnter(t) BY Zenon, <1>1 DEF ReadEnter
<1>2. CASE ReadCount(t) BY <1>2 DEF ReadCount
<1>3. CASE ReadBlockWriters(t) BY Zenon, <1>3 DEF ReadBlockWriters
<1>4. CASE ReadLeave(t) BY Zenon, <1>4 DEF ReadLeave
<1>5. CASE CallReadUnlock(t) BY Zenon, <1>5 DEF CallReadUnlock
<1>6. CASE UnreadEnter(t) BY Zenon, <1>6 DEF UnreadEnter
<1>7. CASE UnreadCount(t)
  <2>1. num_readers # 0
    <3>1. t \in Counted
      BY Zenon, <1>7 DEF UnreadCount, Counted
    <3>2. IsFiniteSet(Counted)
      BY Zenon, FS_Subset, TasksAssumption DEF Counted
    <3>3. QED BY Zenon, <3>1, <3>2, FS_EmptySet DEF CountInv
  <2>2. num_readers - 1 \in Nat
    BY <2>1
  <2>3. QED BY Zenon, <1>7, <2>2 DEF UnreadCount
<1>8. CASE UnreadLeave(t) BY Zenon, <1>8 DEF UnreadLeave
<1>9. CASE WriteEnter(t) BY Zenon, <1>9 DEF WriteEnter
<1>10. CASE WriteLeave(t) BY Zenon, <1>10 DEF WriteLeave
<1>11. CASE Call(t) BY <1>11 DEF Call
<1>12. CASE Preempt(t) BY Zenon, <1>12 DEF Preempt
<1>13. CASE Dispatch(t) BY <1>13 DEF Dispatch
<1>14. QED
  BY Zenon, <1>1, <1>2, <1>3, <1>4, <1>5, <1>6, <1>7, <1>8, <1>9, <1>10, <1>11, <1>12, <1>13 DEF TaskStep, Step

\* readers_lock keeps excluding.
LEMMA ReadersLockStep ==
    ASSUME IInv, NEW t \in Tasks, TaskStep(t)
    PROVE  ReadersLockInv'
<1> USE DEF IInv, TypeOK, SpinlockType, ReadersLockInv, InReadersLock, Go, Acquired, Released, locks
<1>1. CASE ReadEnter(t) BY Zenon, <1>1 DEF ReadEnter
<1>2. CASE ReadCount(t) BY <1>2 DEF ReadCount
<1>3. CASE ReadBlockWriters(t) BY <1>3 DEF ReadBlockWriters
<1>4. CASE ReadLeave(t) BY <1>4 DEF ReadLeave
<1>5. CASE CallReadUnlock(t) BY Zenon, <1>5 DEF CallReadUnlock
<1>6. CASE UnreadEnter(t) BY Zenon, <1>6 DEF UnreadEnter
<1>7. CASE UnreadCount(t) BY <1>7 DEF UnreadCount
<1>8. CASE UnreadLeave(t) BY <1>8 DEF UnreadLeave
<1>9. CASE WriteEnter(t) BY Zenon, <1>9 DEF WriteEnter
<1>10. CASE WriteLeave(t) BY Zenon, <1>10 DEF WriteLeave
<1>11. CASE Call(t) BY <1>11 DEF Call
<1>12. CASE Preempt(t) BY Zenon, <1>12 DEF Preempt
<1>13. CASE Dispatch(t) BY Zenon, <1>13 DEF Dispatch
<1>14. QED
  BY Zenon, <1>1, <1>2, <1>3, <1>4, <1>5, <1>6, <1>7, <1>8, <1>9, <1>10, <1>11, <1>12, <1>13 DEF TaskStep, Step

\* Counting and exclusion.  A step that neither counts nor takes or drops
\* writer_lock leaves the four sets below as they are.
LEMMA CountStep ==
    ASSUME IInv, NEW t \in Tasks, TaskStep(t)
    PROVE  CountInv' /\ WriterExcludesAll'
<1> USE DEF IInv, TypeOK, SpinlockType, CountInv, WriterExcludesAll, Counted, ReadHolders,
            WriteHolders, Go, Acquired, Released, locks
<1> DEFINE SetsUnchanged ==
      /\ Counted' = Counted
      /\ ReadHolders' = ReadHolders
      /\ WriteHolders' = WriteHolders
<1>0. IsFiniteSet(Counted)
  BY Zenon, FS_Subset, TasksAssumption
<1>1. CASE ReadEnter(t)
  <2>1. SetsUnchanged /\ writer_lock' = writer_lock /\ num_readers' = num_readers
    BY Zenon, <1>1 DEF ReadEnter
  <2>2. QED BY ZenonT(30), <1>1, <2>1 DEF ReadEnter
<1>2. CASE ReadCount(t)
  <2> USE <1>2 DEF ReadCount
  <2>1. t \notin Counted /\ Counted' = Counted \cup {t}
    OBVIOUS
  <2>2. Cardinality(Counted') = num_readers + 1
    BY ZenonT(30), <1>0, <2>1, FS_AddElement
  <2>3. WriteHolders' = WriteHolders
    BY Zenon
  <2>4. CASE num_readers = 0
    <3>1. Counted = {}
      BY Zenon, <1>0, <2>4, FS_EmptySet
    <3>2. QED BY <2>1, <2>2, <2>3, <2>4, <3>1
  <2>5. CASE num_readers # 0
    <3>1. PICK u \in Counted : TRUE
      BY Zenon, <1>0, <2>5, FS_EmptySet
    <3>2. u \in ReadHolders
      BY <3>1 DEF ReadersLockInv, InReadersLock
    <3>3. writer_lock.held /\ WriteHolders = {}
      BY Zenon, <3>2
    <3>4. \A v \in Tasks : pc'[v] # "r_writer"
      BY <2>5, <3>1 DEF ReadersLockInv, InReadersLock
    <3>5. QED BY Zenon, <2>2, <2>3, <2>5, <3>3, <3>4
  <2>6. QED BY Zenon, <2>4, <2>5
<1>3. CASE ReadBlockWriters(t)
  <2>1. Counted' = Counted /\ WriteHolders' = WriteHolders /\ ReadHolders' = ReadHolders \cup {t}
    BY Zenon, <1>3 DEF ReadBlockWriters
  <2>2. WriteHolders = {}
    BY Zenon, <1>3 DEF ReadBlockWriters
  <2>3. QED BY ZenonT(30), <1>3, <2>1, <2>2 DEF ReadBlockWriters
<1>4. CASE ReadLeave(t)
  <2>1. SetsUnchanged /\ writer_lock' = writer_lock /\ num_readers' = num_readers
    BY Zenon, <1>4 DEF ReadLeave
  <2>2. QED BY <1>4, <2>1 DEF ReadLeave
<1>5. CASE CallReadUnlock(t)
  <2>1. SetsUnchanged /\ writer_lock' = writer_lock /\ num_readers' = num_readers
    BY Zenon, <1>5 DEF CallReadUnlock
  <2>2. QED BY ZenonT(30), <1>5, <2>1 DEF CallReadUnlock
<1>6. CASE UnreadEnter(t)
  <2>1. SetsUnchanged /\ writer_lock' = writer_lock /\ num_readers' = num_readers
    BY Zenon, <1>6 DEF UnreadEnter
  <2>2. QED BY Zenon, <1>6, <2>1 DEF UnreadEnter
<1>7. CASE UnreadCount(t)
  <2> USE <1>7 DEF UnreadCount
  <2>1. t \in Counted /\ Counted' = Counted \ {t} /\ ReadHolders' = ReadHolders \ {t}
    BY Zenon
  <2>2. Cardinality(Counted') = num_readers - 1
    <3>1. num_readers = Cardinality(Counted)
      BY Zenon
    <3> HIDE <1>7 DEF Counted, UnreadCount, IInv, CountInv
    <3>2. QED BY Zenon, <1>0, <2>1, <3>1, FS_RemoveElement
  <2>3. WriteHolders' = WriteHolders /\ WriteHolders = {}
    BY Zenon
  <2>4. \A v \in Tasks : pc'[v] # "r_writer"
    BY Zenon DEF ReadersLockInv, InReadersLock
  <2>5. CASE num_readers - 1 = 0
    <3>1. Counted' = {}
      BY ZenonT(30), <1>0, <2>1, <2>2, <2>5, FS_RemoveElement, FS_EmptySet
    <3>2. ReadHolders' = {}
      BY Zenon, <3>1
    <3>3. QED BY Zenon, <2>2, <2>3, <2>4, <3>2
  <2>6. CASE num_readers - 1 # 0
    BY Zenon, <2>1, <2>2, <2>3, <2>4, <2>6
  <2>7. QED BY Zenon, <2>5, <2>6
<1>8. CASE UnreadLeave(t)
  <2>1. SetsUnchanged /\ writer_lock' = writer_lock /\ num_readers' = num_readers
    BY Zenon, <1>8 DEF UnreadLeave
  <2>2. QED BY ZenonT(30), <1>8, <2>1 DEF UnreadLeave
<1>9. CASE WriteEnter(t)
  <2>1. Counted' = Counted /\ ReadHolders' = ReadHolders /\ WriteHolders' = WriteHolders \cup {t}
    BY <1>9 DEF WriteEnter
  <2>2. WriteHolders = {} /\ ReadHolders = {}
    BY Zenon, <1>9 DEF WriteEnter
  <2>3. QED BY ZenonT(30), <1>9, <2>1, <2>2 DEF WriteEnter
<1>10. CASE WriteLeave(t)
  <2>1. Counted' = Counted /\ ReadHolders' = ReadHolders /\ WriteHolders' = WriteHolders \ {t}
    BY Zenon, <1>10 DEF WriteLeave
  <2>2. WriteHolders = {t} /\ ReadHolders = {}
    BY Zenon, <1>10 DEF WriteLeave
  <2>3. QED BY Zenon, <1>10, <2>1, <2>2 DEF WriteLeave
<1>11. CASE Call(t)
  <2>1. SetsUnchanged /\ writer_lock' = writer_lock /\ num_readers' = num_readers
    BY <1>11 DEF Call
  <2>2. QED BY <1>11, <2>1 DEF Call
<1>12. CASE Preempt(t)
  <2>1. SetsUnchanged /\ writer_lock' = writer_lock /\ num_readers' = num_readers
    BY Zenon, <1>12 DEF Preempt
  <2>2. QED BY Zenon, <1>12, <2>1 DEF Preempt
<1>13. CASE Dispatch(t)
  <2>1. SetsUnchanged /\ writer_lock' = writer_lock /\ num_readers' = num_readers
    BY Zenon, <1>13 DEF Dispatch
  <2>2. QED BY Zenon, <1>13, <2>1 DEF Dispatch
<1>14. QED
  BY Zenon, <1>1, <1>2, <1>3, <1>4, <1>5, <1>6, <1>7, <1>8, <1>9, <1>10, <1>11, <1>12, <1>13 DEF TaskStep, Step

\* A task that takes or drops writer_lock is not disturbing a writer other than
\* itself.
LEMMA NoOtherWriter ==
    ASSUME IInv, NEW t \in Tasks,
           ReadBlockWriters(t) \/ UnreadCount(t) \/ WriteEnter(t) \/ WriteLeave(t)
    PROVE  \A u \in Tasks : u # t => pc[u] # "writing"
<1> USE DEF IInv, CountInv, WriterExcludesAll, ReadHolders, WriteHolders, Go
<1>1. CASE ReadBlockWriters(t) \/ WriteEnter(t)
  BY Zenon, <1>1 DEF ReadBlockWriters, WriteEnter
<1>2. CASE UnreadCount(t) \/ WriteLeave(t)
  BY <1>2 DEF UnreadCount, WriteLeave
<1>3. QED BY Zenon, <1>1, <1>2

\* The caller's IF is where IFInv says.
LEMMA IFStep ==
    ASSUME IInv, NEW t \in Tasks, TaskStep(t)
    PROVE  IFInv'
<1> USE DEF IInv, TypeOK, SpinlockType, IFInv, ReadersLockInv, InReadersLock, Go, SetIF, Acquired,
            Released, locks
<1>1. CASE ReadEnter(t) BY Zenon, <1>1 DEF ReadEnter
<1>2. CASE ReadCount(t) BY <1>2 DEF ReadCount
<1>3. CASE ReadBlockWriters(t) BY ZenonT(30), <1>3, NoOtherWriter DEF ReadBlockWriters
<1>4. CASE ReadLeave(t) BY Zenon, <1>4 DEF ReadLeave
<1>5. CASE CallReadUnlock(t) BY Zenon, <1>5 DEF CallReadUnlock
<1>6. CASE UnreadEnter(t) BY Zenon, <1>6 DEF UnreadEnter
<1>7. CASE UnreadCount(t) BY ZenonT(30), <1>7, NoOtherWriter DEF UnreadCount
<1>8. CASE UnreadLeave(t) BY Zenon, <1>8 DEF UnreadLeave
<1>9. CASE WriteEnter(t) BY ZenonT(30), <1>9, NoOtherWriter DEF WriteEnter
<1>10. CASE WriteLeave(t) BY <1>10, NoOtherWriter DEF WriteLeave
<1>11. CASE Call(t) BY <1>11 DEF Call
<1>12. CASE Preempt(t) BY Zenon, <1>12 DEF Preempt
<1>13. CASE Dispatch(t) BY Zenon, <1>13 DEF Dispatch
<1>14. QED
  BY Zenon, <1>1, <1>2, <1>3, <1>4, <1>5, <1>6, <1>7, <1>8, <1>9, <1>10, <1>11, <1>12, <1>13 DEF TaskStep, Step

\* Without preemption the owner fields are exact.
LEMMA OwnerStep ==
    ASSUME IInv, NEW t \in Tasks, TaskStep(t)
    PROVE  OwnerInv'
<1> USE DEF IInv, TypeOK, SpinlockType, OwnerInv, ReadersLockInv, InReadersLock, Go, Acquired,
            Released, locks
<1>1. CASE ReadEnter(t) BY Zenon, <1>1 DEF ReadEnter
<1>2. CASE ReadCount(t) BY <1>2 DEF ReadCount
<1>3. CASE ReadBlockWriters(t) BY ZenonT(30), <1>3, NoOtherWriter DEF ReadBlockWriters
<1>4. CASE ReadLeave(t) BY <1>4 DEF ReadLeave
<1>5. CASE CallReadUnlock(t) BY Zenon, <1>5 DEF CallReadUnlock
<1>6. CASE UnreadEnter(t) BY Zenon, <1>6 DEF UnreadEnter
<1>7. CASE UnreadCount(t) BY ZenonT(30), <1>7, NoOtherWriter DEF UnreadCount
<1>8. CASE UnreadLeave(t) BY <1>8 DEF UnreadLeave
<1>9. CASE WriteEnter(t) BY ZenonT(30), <1>9, NoOtherWriter DEF WriteEnter
<1>10. CASE WriteLeave(t) BY ZenonT(30), <1>10, NoOtherWriter DEF WriteLeave
<1>11. CASE Call(t) BY <1>11 DEF Call
<1>12. CASE Preempt(t) BY Zenon, <1>12 DEF Preempt
<1>13. CASE Dispatch(t) BY Zenon, <1>13 DEF Dispatch
<1>14. QED
  BY Zenon, <1>1, <1>2, <1>3, <1>4, <1>5, <1>6, <1>7, <1>8, <1>9, <1>10, <1>11, <1>12, <1>13 DEF TaskStep, Step

-----------------------------------------------------------------------------
\* The invariant is inductive.
LEMMA NextIInv == IInv /\ [Next]_vars => IInv'
<1> SUFFICES ASSUME IInv, [Next]_vars PROVE IInv'
  BY Zenon
<1>1. CASE Next
  <2>1. PICK t \in Tasks : TaskStep(t)
    BY Zenon, <1>1 DEF Next, TaskStep
  <2>2. QED BY Zenon, <2>1, TypeStep, ReadersLockStep, CountStep, IFStep, OwnerStep DEF IInv
<1>2. CASE UNCHANGED vars
  BY <1>2 DEF vars, IInv, TypeOK, ReadersLockInv, CountInv, WriterExcludesAll, IFInv, OwnerInv,
     Counted, InReadersLock, ReadHolders, WriteHolders
<1>3. QED BY Zenon, <1>1, <1>2

\* The conjuncts of IInv hold in every reachable state.
THEOREM Invariance == Spec => []IInv
<1>1. QED BY InitIInv, NextIInv, PTL DEF Spec

\* A writer is alone, for any number of tasks and with or without preemption.
THEOREM WriterExclusionTheorem == Spec => []WriterExcludesAll
<1>1. IInv => WriterExcludesAll BY Zenon DEF IInv
<1>2. QED BY <1>1, Invariance, PTL

\* While readers_lock is free, num_readers is the number of read holders.
THEOREM ReaderCountTheorem == Spec => []ReaderCountExact
<1>1. IInv => ReaderCountExact
  <2> SUFFICES ASSUME IInv, ~readers_lock.held
               PROVE  Counted = ReadHolders
    BY Zenon DEF ReaderCountExact, IInv, CountInv
  <2>1. \A t \in Tasks : pc[t] # "r_writer"
    BY Zenon DEF IInv, ReadersLockInv, InReadersLock
  <2>2. QED BY Zenon, <2>1 DEF Counted, ReadHolders
<1>2. QED BY <1>1, Invariance, PTL

\* rw_lock.c leaves the caller's IF as it was.
THEOREM CallerIFTheorem == Spec => []CallerIFKept
<1>1. IInv => CallerIFKept BY Zenon DEF IInv, IFInv, CallerIFKept
<1>2. QED BY <1>1, Invariance, PTL

\* As long as no task that uses the lock is preempted, the owner assertion of
\* spinlock_unlock() never fails in rw_lock.c.
THEOREM OwnerTheorem ==
    ASSUME ~Preemption
    PROVE  Spec => []UnlockByOwner
<1>1. IInv => UnlockByOwner
  BY Zenon DEF IInv, OwnerInv, UnlockByOwner, InReadersLock
<1>2. QED BY <1>1, Invariance, PTL

\* rw_lock.c implements the abstract readers/writer lock: the first reader joins
\* when it gets writer_lock, the others when they are counted, and a reader
\* leaves when the count drops.
THEOREM Refinement == Spec => ImplementsRwLock
<1>1. Init => Abstract!Init
  BY Zenon DEF Init, Abstract!Init, ReadHolders, WriteHolders
<1>2. IInv /\ [Next]_vars => [Abstract!Next]_<<ReadHolders, WriteHolders>>
  <2> SUFFICES ASSUME IInv, [Next]_vars
               PROVE  Abstract!Next \/ UNCHANGED <<ReadHolders, WriteHolders>>
    BY Zenon
  <2> USE DEF IInv, TypeOK, CountInv, WriterExcludesAll, ReadHolders, WriteHolders, Go
  <2>1. CASE UNCHANGED vars
    BY Zenon, <2>1 DEF vars
  <2>2. ASSUME NEW t \in Tasks, ReadCount(t)
        PROVE  Abstract!ReadLock(t) \/ UNCHANGED <<ReadHolders, WriteHolders>>
    <3> USE <2>2 DEF ReadCount
    <3>1. CASE num_readers = 0
      BY <3>1
    <3>2. CASE num_readers # 0
      <4>1. Counted # {}
        BY Zenon, <3>2, FS_EmptySet
      <4>2. ReadHolders # {}
        BY <4>1 DEF Counted, ReadersLockInv, InReadersLock
      <4>3. WriteHolders = {}
        BY Zenon, <4>2
      <4>4. QED BY <3>2, <4>3 DEF Abstract!ReadLock
    <3>3. QED BY Zenon, <3>1, <3>2
  <2>3. ASSUME NEW t \in Tasks, ReadBlockWriters(t)
        PROVE  Abstract!ReadLock(t)
    BY <2>3 DEF ReadBlockWriters, Abstract!ReadLock
  <2>4. ASSUME NEW t \in Tasks, UnreadCount(t)
        PROVE  Abstract!ReadUnlock(t)
    BY Zenon, <2>4 DEF UnreadCount, Abstract!ReadUnlock
  <2>5. ASSUME NEW t \in Tasks, WriteEnter(t)
        PROVE  Abstract!WriteLock(t)
    <3>1. ReadHolders = {} /\ WriteHolders = {}
      BY Zenon, <2>5 DEF WriteEnter
    <3>2. ReadHolders' = ReadHolders /\ WriteHolders' = WriteHolders \cup {t}
      BY <2>5 DEF WriteEnter
    <3>3. QED BY Zenon, <3>1, <3>2 DEF Abstract!WriteLock
  <2>6. ASSUME NEW t \in Tasks, WriteLeave(t)
        PROVE  Abstract!WriteUnlock(t)
    BY Zenon, <2>6 DEF WriteLeave, Abstract!WriteUnlock
  <2>7. ASSUME NEW t \in Tasks,
               \/ ReadEnter(t) \/ ReadLeave(t) \/ CallReadUnlock(t) \/ UnreadEnter(t)
               \/ UnreadLeave(t) \/ Call(t) \/ Preempt(t) \/ Dispatch(t)
        PROVE  UNCHANGED <<ReadHolders, WriteHolders>>
    BY ZenonT(30), <2>7 DEF ReadEnter, ReadLeave, CallReadUnlock, UnreadEnter, UnreadLeave, Call, Preempt, Dispatch
  <2>8. QED
    BY Zenon, <2>1, <2>2, <2>3, <2>4, <2>5, <2>6, <2>7 DEF Next, Step, Abstract!Next
<1>3. QED BY <1>1, <1>2, Invariance, PTL DEF Spec, ImplementsRwLock, Abstract!Spec
=============================================================================
