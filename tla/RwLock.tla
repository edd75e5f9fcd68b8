------------------------------- MODULE RwLock -------------------------------
(***************************************************************************)
(* The readers/writer lock of rw_lock.c: two spinlocks and a reader count. *)
(* A spinlock is taken and dropped in one step, as SpinlockProofs shows it *)
(* may be; its owner and interrupts_enabled fields are kept because        *)
(* rw_lock.c writes one and depends on the other.                          *)
(*                                                                         *)
(* A task is any code that uses the lock.  With Preemption it is a process *)
(* that a timer tick may take off its cpu whenever that cpu has IF set (no *)
(* caller of rw_lock.c disables preemption), to be resumed later on any    *)
(* cpu; without, every task stays on a cpu of its own.                     *)
(***************************************************************************)
EXTENDS Naturals, FiniteSets

CONSTANTS
    Tasks,
    Cpus,
    NoCpu,       \* a task that is not on a cpu; also 0xFF, a spinlock's empty owner
    Preemption,  \* whether ticks preempt tasks
    EntryIF,     \* the values IF may have when a task calls the lock
    MaxOps       \* bound: lock/unlock pairs of each task

ASSUME TasksAssumption == IsFiniteSet(Tasks)
ASSUME CpusAssumption == NoCpu \notin Cpus
ASSUME PreemptionAssumption == Preemption \in BOOLEAN
ASSUME EntryIFAssumption == EntryIF \subseteq BOOLEAN
ASSUME MaxOpsAssumption == MaxOps \in Nat

VARIABLES
    readers_lock, writer_lock,  \* the two spinlocks
    num_readers,                \* protected by readers_lock
    pc,                         \* pc[t]: where task t is
    iflag,                      \* iflag[t]: IF of t's cpu, or the IF t resumes with
    cpu,                        \* cpu[t]: the cpu t runs on, or NoCpu
    entry,                      \* entry[t]: IF when t last called the lock (history)
    ops                         \* ops[t]: pairs t has started (bound)

locks == <<readers_lock, writer_lock, num_readers>>
vars == <<readers_lock, writer_lock, num_readers, pc, iflag, cpu, entry, ops>>

(***************************************************************************)
(* "r_enter", "r_writer", "r_leave": rwlock_read_lock() before it takes    *)
(* readers_lock, before the first reader takes writer_lock, before it      *)
(* drops readers_lock.  "r_count" holds readers_lock and counts.           *)
(* "u_enter", "u_count", "u_leave": the same in rwlock_read_unlock().      *)
(***************************************************************************)
Locations == {"out", "r_enter", "r_count", "r_writer", "r_leave", "reading",
              "u_enter", "u_count", "u_leave", "w_enter", "writing"}

SpinlockType == [held : BOOLEAN, owner : Cpus \cup {NoCpu}, interrupts_enabled : BOOLEAN]

\* The types of the variables.
TypeOK ==
    /\ readers_lock \in SpinlockType
    /\ writer_lock \in SpinlockType
    /\ num_readers \in Nat
    /\ pc \in [Tasks -> Locations]
    /\ iflag \in [Tasks -> BOOLEAN]
    /\ cpu \in [Tasks -> Cpus \cup {NoCpu}]
    /\ entry \in [Tasks -> BOOLEAN]
    /\ ops \in [Tasks -> 0 .. MaxOps]

\* INIT_SPINLOCK()
FreeSpinlock == [held |-> FALSE, owner |-> NoCpu, interrupts_enabled |-> FALSE]

\* No two tasks share a cpu; without preemption every task has one.
Placement(f) ==
    /\ \A t, u \in Tasks : t # u /\ f[t] # NoCpu => f[t] # f[u]
    /\ Preemption \/ \A t \in Tasks : f[t] # NoCpu

\* INIT_RW_LOCK(): nobody uses the lock yet.
Init ==
    /\ readers_lock = FreeSpinlock
    /\ writer_lock = FreeSpinlock
    /\ num_readers = 0
    /\ pc = [t \in Tasks |-> "out"]
    /\ iflag \in [Tasks -> EntryIF]
    /\ cpu \in {f \in [Tasks -> Cpus \cup {NoCpu}] : Placement(f)}
    /\ entry = iflag
    /\ ops = [t \in Tasks |-> 0]

-----------------------------------------------------------------------------
\* Task t runs at `from` and goes to `to`.
Go(t, from, to) ==
    /\ cpu[t] # NoCpu
    /\ pc[t] = from
    /\ pc' = [pc EXCEPT ![t] = to]
    /\ UNCHANGED cpu

SetIF(t, b) == iflag' = [iflag EXCEPT ![t] = b]

\* The fields left by a spinlock_lock() that does not record its owner.
AcquiredNoOwner(t, irq) == [held |-> TRUE, owner |-> NoCpu, interrupts_enabled |-> irq]

\* The fields of a spinlock that task t has just acquired with IF = irq.
Acquired(t, irq) == [held |-> TRUE, owner |-> cpu[t], interrupts_enabled |-> irq]

\* The fields of a spinlock that has just been released.
Released(lock) == [lock EXCEPT !.held = FALSE, !.owner = NoCpu]

\* A task calls rwlock_read_lock() or rwlock_write_lock().
Call(t) ==
    /\ ops[t] < MaxOps
    /\ ops' = [ops EXCEPT ![t] = @ + 1]
    /\ Go(t, "out", "r_enter") \/ Go(t, "out", "w_enter")
    /\ entry' = [entry EXCEPT ![t] = iflag[t]]
    /\ UNCHANGED <<locks, iflag>>

\* rwlock_read_lock(): spinlock_lock(&lock->readers_lock);
ReadEnter(t) ==
    /\ Go(t, "r_enter", "r_count")
    /\ ~readers_lock.held
    /\ readers_lock' = Acquired(t, iflag[t])
    /\ SetIF(t, FALSE)
    /\ UNCHANGED <<writer_lock, num_readers, entry, ops>>

\* Every reader believes it is not the first one.
ReadCountSkipWriter(t) ==
    /\ Go(t, "r_count", "r_leave")
    /\ num_readers' = num_readers + 1
    /\ UNCHANGED <<readers_lock, writer_lock, iflag, entry, ops>>

\* lock->num_readers ++; the first reader enables interrupts.
ReadCount(t) ==
    /\ Go(t, "r_count", IF num_readers + 1 = 1 THEN "r_writer" ELSE "r_leave")
    /\ num_readers' = num_readers + 1
    /\ SetIF(t, num_readers + 1 = 1)
    /\ UNCHANGED <<readers_lock, writer_lock, entry, ops>>

\* The first reader: spinlock_lock(&lock->writer_lock);
ReadBlockWriters(t) ==
    /\ Go(t, "r_writer", "r_leave")
    /\ ~writer_lock.held
    /\ writer_lock' = Acquired(t, iflag[t])
    /\ SetIF(t, FALSE)
    /\ UNCHANGED <<readers_lock, num_readers, entry, ops>>

\* spinlock_unlock(&lock->readers_lock);
ReadLeave(t) ==
    /\ Go(t, "r_leave", "reading")
    /\ readers_lock' = Released(readers_lock)
    /\ SetIF(t, readers_lock.interrupts_enabled)
    /\ UNCHANGED <<writer_lock, num_readers, entry, ops>>

\* A task that holds the lock calls rwlock_read_unlock().
CallReadUnlock(t) ==
    /\ Go(t, "reading", "u_enter")
    /\ UNCHANGED <<locks, iflag, entry, ops>>

\* rwlock_read_unlock(): spinlock_lock(&lock->readers_lock);
UnreadEnter(t) ==
    /\ Go(t, "u_enter", "u_count")
    /\ ~readers_lock.held
    /\ readers_lock' = Acquired(t, iflag[t])
    /\ SetIF(t, FALSE)
    /\ UNCHANGED <<writer_lock, num_readers, entry, ops>>

\* Any reader that leaves lets the writers in.
UnreadCountEarly(t) ==
    /\ Go(t, "u_count", "u_leave")
    /\ num_readers' = num_readers - 1
    /\ writer_lock' = Released(writer_lock)
    /\ SetIF(t, writer_lock.interrupts_enabled)
    /\ UNCHANGED <<readers_lock, entry, ops>>

\* The reader that empties the count does not release writer_lock.
UnreadCountForget(t) ==
    /\ Go(t, "u_count", "u_leave")
    /\ num_readers' = num_readers - 1
    /\ UNCHANGED <<readers_lock, writer_lock, iflag, entry, ops>>

\* The reader that leaves does not count itself out.
UnreadCountNoDecrement(t) ==
    /\ Go(t, "u_count", "u_leave")
    /\ UNCHANGED <<readers_lock, writer_lock, num_readers, iflag, entry, ops>>

\* lock->num_readers --; the last reader takes over the ownership of
\* writer_lock and releases it, which sets IF to what the first reader saved.
UnreadCount(t) ==
    /\ Go(t, "u_count", "u_leave")
    /\ num_readers' = num_readers - 1
    /\ IF num_readers - 1 = 0
       THEN /\ writer_lock' = Released([writer_lock EXCEPT !.owner = cpu[t]])
            /\ SetIF(t, writer_lock.interrupts_enabled)
       ELSE UNCHANGED <<writer_lock, iflag>>
    /\ UNCHANGED <<readers_lock, entry, ops>>

\* The reader that leaves keeps the IF that the first reader forced on.
UnreadLeaveKeepIF(t) ==
    /\ Go(t, "u_leave", "out")
    /\ readers_lock' = Released(readers_lock)
    /\ UNCHANGED <<writer_lock, num_readers, iflag, entry, ops>>

\* spinlock_unlock(&lock->readers_lock);
UnreadLeave(t) ==
    /\ Go(t, "u_leave", "out")
    /\ readers_lock' = Released(readers_lock)
    /\ SetIF(t, readers_lock.interrupts_enabled)
    /\ UNCHANGED <<writer_lock, num_readers, entry, ops>>

\* rwlock_write_lock(): spinlock_lock(&lock->writer_lock);
WriteEnter(t) ==
    /\ Go(t, "w_enter", "writing")
    /\ ~writer_lock.held
    /\ writer_lock' = Acquired(t, iflag[t])
    /\ SetIF(t, FALSE)
    /\ UNCHANGED <<readers_lock, num_readers, entry, ops>>

\* rwlock_write_unlock(): spinlock_unlock(&lock->writer_lock);
WriteLeave(t) ==
    /\ Go(t, "writing", "out")
    /\ writer_lock' = Released(writer_lock)
    /\ SetIF(t, writer_lock.interrupts_enabled)
    /\ UNCHANGED <<readers_lock, num_readers, entry, ops>>

-----------------------------------------------------------------------------
\* A tick on t's cpu switches t out.
Preempt(t) ==
    /\ Preemption
    /\ cpu[t] # NoCpu
    /\ iflag[t]
    /\ cpu' = [cpu EXCEPT ![t] = NoCpu]
    /\ UNCHANGED <<locks, pc, iflag, entry, ops>>

\* A cpu without a task resumes t.
Dispatch(t) ==
    /\ Preemption
    /\ cpu[t] = NoCpu
    /\ \E c \in Cpus :
          /\ \A u \in Tasks : cpu[u] # c
          /\ cpu' = [cpu EXCEPT ![t] = c]
    /\ UNCHANGED <<locks, pc, iflag, entry, ops>>

\* The steps of a running task that do not depend on its wish to use the lock.
Step(t) ==
    \/ ReadEnter(t) \/ ReadCount(t) \/ ReadBlockWriters(t) \/ ReadLeave(t)
    \/ CallReadUnlock(t) \/ UnreadEnter(t) \/ UnreadCount(t) \/ UnreadLeave(t)
    \/ WriteEnter(t) \/ WriteLeave(t)

Next == \E t \in Tasks : Step(t) \/ Call(t) \/ Preempt(t) \/ Dispatch(t)

Spec == Init /\ [][Next]_vars

\* A running task goes on, and a task that can be resumed again and again is
\* resumed.  A task that runs again and again gets to take its step: a tick
\* does not always hit between the same two instructions.
FairSpec ==
    /\ Spec
    /\ \A t \in Tasks : SF_vars(Step(t)) /\ SF_vars(Dispatch(t)) /\ WF_vars(Preempt(t))

-----------------------------------------------------------------------------
\* Tasks that hold the lock for reading, from the moment writers are kept out
\* on their behalf until they give up their share.
ReadHolders == {t \in Tasks : pc[t] \in {"r_leave", "reading", "u_enter", "u_count"}}

WriteHolders == {t \in Tasks : pc[t] = "writing"}

\* Tasks inside the critical section of readers_lock.
InReadersLock ==
    {t \in Tasks : pc[t] \in {"r_count", "r_writer", "r_leave", "u_count", "u_leave"}}

\* A writer is alone: rwlock_write_lock() returns only when no reader and no
\* other writer holds the lock, and keeps all of them out until the unlock.
WriterExcludesAll ==
    \A t \in WriteHolders : WriteHolders = {t} /\ ReadHolders = {}

\* num_readers is protected by readers_lock: whenever that lock is free it
\* counts exactly the tasks that hold the lock for reading.
ReaderCountExact ==
    ~readers_lock.held => num_readers = Cardinality(ReadHolders)

\* The lock leaves IF as it found it: neither the forced sti of the first
\* reader nor the IF that the last reader inherits from the first one through
\* writer_lock survives the call.
CallerIFKept ==
    \A t \in Tasks : pc[t] \in {"out", "reading", "u_enter"} => iflag[t] = entry[t]

\* ASSERT(lock->owner == cpu_id()) of spinlock_unlock(), at each of the places
\* where rw_lock.c drops one of its spinlocks.
UnlockByOwner ==
    \A t \in Tasks :
        cpu[t] # NoCpu =>
            /\ pc[t] \in {"r_leave", "u_leave"} => readers_lock.owner = cpu[t]
            /\ pc[t] = "writing" => writer_lock.owner = cpu[t]

\* Every lock/unlock pair that is started comes to its end: readers and writers
\* never wait for one another in a circle, and the last reader out always lets
\* a waiting writer in.
EveryCallCompletes == \A t \in Tasks : pc[t] # "out" ~> pc[t] = "out"

Abstract == INSTANCE AbstractRwLock WITH readers <- ReadHolders, writers <- WriteHolders

\* rw_lock.c implements a readers/writer lock.
ImplementsRwLock == Abstract!Spec
=============================================================================
