----------------------------- MODULE SchedProofs -----------------------------
(***************************************************************************)
(* Proofs about Sched: the inductive invariant behind its safety           *)
(* properties, for any number of cpus and processes.                       *)
(***************************************************************************)
EXTENDS Sched, SequenceTheorems, TLAPS

\* Who cpu c may have in hand: a process, or its own idle process.
Own(c) == Procs \cup {idle_proc(c)}

\* The relation between the per-cpu variables and the position in schedule().
CpuInv(c) ==
    /\ esp[c] \in Own(c) \cup {NoProc}
    /\ pc[c] = "boot" => esp[c] = NoProc /\ ~iflag[c]
    /\ pc[c] # "stack" => curr_proc[c] = esp[c]
    /\ pc[c] = "stack" => prev[c] = esp[c] /\ curr_proc[c] = next[c]
    /\ pc[c] = "put_prev" => prev[c] \in Own(c) \cup {NoProc}
    /\ pc[c] = "switch" => next[c] # curr_proc[c]
    /\ pc[c] \in {"stack", "put_prev"} => prev[c] # curr_proc[c]
    /\ pc[c] \in {"picked", "switch", "stack"} => next[c] \in Own(c) /\ proc_is_runnable(next[c])
    /\ pc[c] \in {"need", "pick", "picked", "switch"} => iflag[c]
    /\ pc[c] \in {"stack", "put_prev", "finish"} => ~iflag[c]
    /\ pc[c] \in InSchedule => preempt_count[c] = 1

\* The scheduler only handles processes that were given to it.
HandlesSubmitted ==
    /\ Queued \subseteq submitted
    /\ \A p \in Procs : \A c \in Cpus : Holds(c, p) => p \in submitted

\* The inductive invariant: TypeOK, OnePlace and NoProcessLost are not inductive
\* without the positions at which next and prev are meaningful.
IInv ==
    /\ TypeOK
    /\ OnePlace
    /\ NoProcessLost
    /\ HandlesSubmitted
    /\ \A c \in Cpus : CpuInv(c)

-----------------------------------------------------------------------------
\* ts_put_prev_proc(), ts_enqueue_proc(): what a list_add_tail() does to RUNQUEUE.
LEMMA AppendRunq ==
    ASSUME runq \in Seq(Procs), NEW p \in Procs, runq' = Append(runq, p)
    PROVE  /\ runq' \in Seq(Procs)
           /\ Queued' = Queued \cup {p}
           /\ QueuedOnce /\ p \notin Queued => QueuedOnce'
<1>1. runq' \in Seq(Procs) /\ Len(runq') = Len(runq) + 1 /\ Len(runq) \in Nat
    OBVIOUS
<1>2. \A i \in 1 .. Len(runq) : runq'[i] = runq[i]
    OBVIOUS
<1>3. runq'[Len(runq) + 1] = p
    OBVIOUS
<1>4. Queued' = Queued \cup {p}
    BY <1>1, <1>2, <1>3 DEF Queued
<1>5. QueuedOnce /\ p \notin Queued => QueuedOnce'
    BY <1>1, <1>2, <1>3 DEF Queued, QueuedOnce
<1> QED
    BY Zenon, <1>1, <1>4, <1>5

\* ts_pick_next_proc(): what removing the head does to RUNQUEUE.
LEMMA TailRunq ==
    ASSUME runq \in Seq(Procs), runq # <<>>, runq' = Tail(runq), QueuedOnce
    PROVE  /\ runq' \in Seq(Procs)
           /\ Head(runq) \in Procs
           /\ Head(runq) \in Queued
           /\ Queued' = Queued \ {Head(runq)}
           /\ QueuedOnce'
<1>1. runq' \in Seq(Procs) /\ Len(runq') = Len(runq) - 1 /\ Len(runq) \in Nat /\ Len(runq) > 0
    OBVIOUS
<1>2. \A i \in 1 .. Len(runq') : runq'[i] = runq[i + 1]
    OBVIOUS
<1>3. Head(runq) = runq[1] /\ Head(runq) \in Procs
    OBVIOUS
<1>4. Head(runq) \in Queued
    BY <1>1, <1>3 DEF Queued
<1>5. Queued' \subseteq Queued \ {Head(runq)}
    BY <1>1, <1>2, <1>3 DEF Queued, QueuedOnce
<1>6. ASSUME NEW p \in Queued, p # Head(runq)
      PROVE  p \in Queued'
    <2>1. PICK i \in 1 .. Len(runq) : runq[i] = p
        BY Zenon, <1>6 DEF Queued
    <2>2. i - 1 \in 1 .. Len(runq') /\ (i - 1) + 1 = i
        BY <2>1, <1>1, <1>3, <1>6
    <2> QED
        BY Zenon, <2>1, <2>2, <1>2 DEF Queued
<1>7. QueuedOnce'
    BY <1>1, <1>2 DEF QueuedOnce
<1> QED
    BY Zenon, <1>1, <1>3, <1>4, <1>5, <1>6, <1>7

\* Leaving the k-th element out of a sequence shifts the later ones by one.
LEMMA RemoveKth ==
    ASSUME NEW S, NEW q \in Seq(S), NEW k \in 1 .. Len(q)
    PROVE  LET r == SubSeq(q, 1, k - 1) \o SubSeq(q, k + 1, Len(q))
           IN  /\ r \in Seq(S)
               /\ Len(r) = Len(q) - 1
               /\ \A i \in 1 .. Len(q) - 1 : r[i] = IF i < k THEN q[i] ELSE q[i + 1]
<1> DEFINE n == Len(q)
           a == SubSeq(q, 1, k - 1)
           b == SubSeq(q, k + 1, n)
           r == a \o b
<1>0. n \in Nat /\ k \in 1 .. n /\ k \in Int /\ \A i \in 1 .. n : q[i] \in S
    OBVIOUS
<1> HIDE DEF n
<1>1. a \in Seq(S) /\ Len(a) = k - 1 /\ \A i \in 1 .. k - 1 : a[i] = q[i]
    <2>1. \A i \in 1 .. k - 1 : q[i] \in S
        BY <1>0
    <2>2. 1 \in Int /\ k - 1 \in Int
        BY <1>0
    <2>3. /\ a \in Seq(S)
          /\ Len(a) = IF 1 <= k - 1 THEN (k - 1) - 1 + 1 ELSE 0
          /\ \A i \in 1 .. (k - 1) - 1 + 1 : a[i] = q[1 + i - 1]
        BY <2>1, <2>2, SubSeqProperties
    <2> HIDE DEF a
    <2> QED
        BY <2>3, <1>0
<1>2. b \in Seq(S) /\ Len(b) = n - k /\ \A i \in 1 .. n - k : b[i] = q[k + i]
    <2>1. \A i \in k + 1 .. n : q[i] \in S
        BY <1>0
    <2>2. k + 1 \in Int /\ n \in Int
        BY <1>0
    <2>3. /\ b \in Seq(S)
          /\ Len(b) = IF k + 1 <= n THEN n - (k + 1) + 1 ELSE 0
          /\ \A i \in 1 .. n - (k + 1) + 1 : b[i] = q[(k + 1) + i - 1]
        BY <2>1, <2>2, SubSeqProperties
    <2> HIDE DEF b
    <2>4. Len(b) = n - k
        BY <2>3, <1>0
    <2>5. ASSUME NEW i \in 1 .. n - k PROVE b[i] = q[k + i]
        <3>1. i \in 1 .. n - (k + 1) + 1 /\ (k + 1) + i - 1 = k + i
            BY <1>0
        <3> QED
            BY Zenon, <3>1, <2>3
    <2> QED
        BY Zenon, <2>3, <2>4, <2>5
<1> HIDE DEF a, b
<1>3. /\ r \in Seq(S)
      /\ Len(r) = Len(a) + Len(b)
      /\ \A i \in 1 .. Len(a) + Len(b) : r[i] = IF i <= Len(a) THEN a[i] ELSE b[i - Len(a)]
    BY Zenon, <1>1, <1>2, ConcatProperties
<1> HIDE DEF r
<1>4. Len(r) = n - 1 /\ Len(a) + Len(b) = n - 1
    BY <1>0, <1>1, <1>2, <1>3
<1>5. ASSUME NEW i \in 1 .. n - 1 PROVE r[i] = IF i < k THEN q[i] ELSE q[i + 1]
    <2>1. CASE i < k
        <3>1. i \in 1 .. k - 1 /\ i <= Len(a) /\ i \in 1 .. Len(a) + Len(b)
            BY <2>1, <1>0, <1>1, <1>4
        <3> QED
            BY Zenon, <3>1, <2>1, <1>1, <1>3
    <2>2. CASE ~(i < k)
        <3>1. /\ i - Len(a) \in 1 .. n - k
              /\ k + (i - Len(a)) = i + 1
              /\ ~(i <= Len(a))
              /\ i \in 1 .. Len(a) + Len(b)
            BY <2>2, <1>0, <1>1, <1>4
        <3> QED
            BY Zenon, <3>1, <2>2, <1>2, <1>3
    <2> QED
        BY Zenon, <2>1, <2>2
<1> QED
    BY Zenon, <1>3, <1>4, <1>5 DEF r, a, b, n

\* ts_dequeue_proc(): what removing an entry does to RUNQUEUE.
LEMMA RemoveRunq ==
    ASSUME runq \in Seq(Procs), QueuedOnce, NEW k \in 1 .. Len(runq),
           runq' = SubSeq(runq, 1, k - 1) \o SubSeq(runq, k + 1, Len(runq))
    PROVE  /\ runq' \in Seq(Procs)
           /\ Queued' = Queued \ {runq[k]}
           /\ QueuedOnce'
<1> DEFINE n == Len(runq)
<1>0. n \in Nat /\ k \in 1 .. n
    OBVIOUS
<1>3. runq' \in Seq(Procs) /\ Len(runq') = n - 1
    BY RemoveKth, Zenon
<1>4. \A i \in 1 .. n - 1 : runq'[i] = IF i < k THEN runq[i] ELSE runq[i + 1]
    BY RemoveKth, Zenon
<1> HIDE DEF n
<1>5. Len(runq) = n
    BY Zenon DEF n
<1>6. QueuedOnce'
    BY <1>0, <1>3, <1>4, <1>5 DEF QueuedOnce
<1>7. Queued' \subseteq Queued \ {runq[k]}
    BY <1>0, <1>3, <1>4, <1>5 DEF Queued, QueuedOnce
<1>8. ASSUME NEW p \in Queued, p # runq[k]
      PROVE  p \in Queued'
    <2>1. PICK i \in 1 .. n : runq[i] = p
        BY Zenon, <1>5 DEF Queued
    <2>2. CASE i < k
        <3>1. i \in 1 .. n - 1
            BY <1>0, <2>1, <2>2
        <3>2. runq'[i] = p
            BY Zenon, <3>1, <1>4, <2>1, <2>2
        <3> QED
            BY Zenon, <3>1, <3>2, <1>3 DEF Queued
    <2>3. CASE i > k
        <3>1. i - 1 \in 1 .. n - 1 /\ ~(i - 1 < k) /\ (i - 1) + 1 = i
            BY <1>0, <2>1, <2>3
        <3>2. runq'[i - 1] = p
            BY Zenon, <3>1, <1>4, <2>1
        <3> QED
            BY Zenon, <3>1, <3>2, <1>3 DEF Queued
    <2> QED
        BY <2>1, <2>2, <2>3, <1>8, <1>0
<1> QED
    BY Zenon, <1>3, <1>6, <1>7, <1>8

-----------------------------------------------------------------------------
LEMMA InitIInv == Init => IInv
<1> SUFFICES ASSUME Init PROVE IInv
    BY Zenon
<1>1. Len(runq) = 0 /\ runq \in Seq(Procs) /\ Queued = {}
    BY DEF Init, Queued
<1> QED
    BY <1>1, DistinctAssumption
       DEF Init, IInv, TypeOK, OnePlace, QueuedOnce, NoProcessLost, HandlesSubmitted, CpuInv, Holds,
           Own, Stacks, Locations, InSchedule, proc_is_runnable, idle_proc

\* Every step keeps the types.
LEMMA TypeStep ==
    ASSUME IInv, NEW c \in Cpus, SchedStart(c) \/ SchedStep(c) \/ Tick(c) \/ RunStep(c)
    PROVE  TypeOK'
<1>t. TypeOK /\ QueuedOnce /\ CpuInv(c)
    BY Zenon DEF IInv, OnePlace
<1> USE DistinctAssumption, MaxPreemptAssumption, <1>t
    DEF TypeOK, Stacks, Locations, InSchedule, idle_proc, Go, PreemptDisable, PreemptEnable,
        AfterPreemptEnable, procVars, switchVars
<1>1. CASE SchedStart(c)
    BY Zenon, <1>1 DEF SchedStart
<1>2. CASE EnterSchedule(c)
    <2>1. CASE preemptible(c)
        <3>1. pc' \in [Cpus -> Locations]
            BY ZenonT(30), <1>2, <2>1 DEF EnterSchedule
        <3>2. preempt_count' \in [Cpus -> Nat]
            BY <1>2, <2>1 DEF EnterSchedule
        <3> QED
            BY Zenon, <1>2, <2>1, <3>1, <3>2 DEF EnterSchedule
    <2>2. CASE ~(preemptible(c))
        BY ZenonT(30), <1>2, <2>2 DEF EnterSchedule
    <2> QED
        BY Zenon, <2>1, <2>2
<1>3. CASE CheckResched(c)
    <2>1. CASE curr_cpu_need_resched(c)
        BY ZenonT(30), <1>3, <2>1 DEF CheckResched, CpuInv
    <2>2. CASE ~(curr_cpu_need_resched(c))
        <3>1. pc' \in [Cpus -> Locations]
            BY ZenonT(30), <1>3, <2>2 DEF CheckResched, CpuInv
        <3>2. preempt_count' \in [Cpus -> Nat]
            BY <1>3, <2>2 DEF CheckResched, CpuInv
        <3> QED
            BY Zenon, <1>3, <2>2, <3>1, <3>2 DEF CheckResched, CpuInv
    <2> QED
        BY Zenon, <2>1, <2>2
<1>4. CASE PickNext(c)
    <2>1. CASE runq = <<>>
        <3>1. pc' \in [Cpus -> Locations]
            BY Zenon, <1>4 DEF PickNext
        <3>2. next' = [next EXCEPT ![c] = c] /\ c \in Stacks
            BY Zenon, <1>4, <2>1 DEF PickNext
        <3>3. next' \in [Cpus -> Stacks]
            BY Zenon, <3>2
        <3> QED
            BY Zenon, <1>4, <2>1, <3>1, <3>3 DEF PickNext
    <2>2. CASE ~(runq = <<>>)
        <3>1. runq' \in Seq(Procs) /\ Head(runq) \in Procs
            BY Zenon, <1>4, <2>2, TailRunq DEF PickNext
        <3>2. pc' \in [Cpus -> Locations]
            BY Zenon, <1>4 DEF PickNext
        <3>3. next' = [next EXCEPT ![c] = Head(runq)]
            BY Zenon, <1>4, <2>2 DEF PickNext
        <3>4. next' \in [Cpus -> Stacks]
            BY Zenon, <3>1, <3>3
        <3> QED
            BY Zenon, <1>4, <3>1, <3>2, <3>4 DEF PickNext
    <2> QED
        BY Zenon, <2>1, <2>2
<1>5. CASE ClearResched(c)
    <2>1. CASE next[c] # curr_proc[c]
        BY ZenonT(30), <1>5, <2>1 DEF ClearResched, CpuInv
    <2>2. CASE ~(next[c] # curr_proc[c])
        <3>1. pc' \in [Cpus -> Locations]
            BY ZenonT(30), <1>5, <2>2 DEF ClearResched
        <3>2. pc[c] = "picked" /\ preempt_count' = [preempt_count EXCEPT ![c] = @ - 1]
            BY Zenon, <1>5, <2>2 DEF ClearResched
        <3>3. preempt_count[c] = 1
            BY Zenon, <3>2 DEF CpuInv
        <3>4. preempt_count' \in [Cpus -> Nat]
            BY <3>2, <3>3
        <3>5. next' \in [Cpus -> Stacks]
            BY ZenonT(30), <1>5, <2>2 DEF ClearResched
        <3> QED
            BY Zenon, <1>5, <2>2, <3>1, <3>4, <3>5 DEF ClearResched
    <2> QED
        BY Zenon, <2>1, <2>2
<1>6. CASE SwitchToProc(c)
    BY Zenon, <1>6 DEF SwitchToProc
<1>7. CASE SwitchStack(c)
    BY Zenon, <1>7 DEF SwitchStack
<1>8. CASE PutPrev(c)
    BY Zenon, <1>8, AppendRunq DEF PutPrev, CpuInv, Own
<1>9. CASE FinishSwitch(c)
    BY <1>9 DEF FinishSwitch, CpuInv
<1>10. CASE Tick(c)
    BY Zenon, <1>10 DEF Tick
<1>11. CASE Resched(c)
    BY Zenon, <1>11 DEF Resched
<1>12. CASE CallSchedule(c)
    BY Zenon, <1>12 DEF CallSchedule
<1>13. CASE DisablePreemption(c)
    BY <1>13 DEF DisablePreemption
<1>14. CASE EnablePreemption(c)
    BY <1>14 DEF EnablePreemption
<1>15. CASE DisableInterrupts(c)
    BY Zenon, <1>15 DEF DisableInterrupts
<1>16. CASE EnableInterrupts(c)
    BY Zenon, <1>16 DEF EnableInterrupts
<1>17. CASE Exit(c)
    BY Zenon, <1>17 DEF Exit
<1>18. CASE \E p \in Procs : EnqueueProc(c, p)
    BY <1>18, AppendRunq DEF EnqueueProc
<1>19. CASE \E p \in Procs : DequeueProc(c, p)
    BY <1>19, RemoveRunq DEF DequeueProc
<1> QED
    BY Zenon, <1>1, <1>2, <1>3, <1>4, <1>5, <1>6, <1>7, <1>8, <1>9, <1>10, <1>11, <1>12, <1>13, <1>14,
       <1>15, <1>16, <1>17, <1>18, <1>19 DEF SchedStep, RunStep

\* Every step of c keeps the relations between a cpu's variables, on c...
LEMMA OwnCpuStep ==
    ASSUME IInv, NEW c \in Cpus, SchedStart(c) \/ SchedStep(c) \/ Tick(c) \/ RunStep(c)
    PROVE  CpuInv(c)'
<1>t. TypeOK /\ QueuedOnce /\ CpuInv(c) /\ \A p \in Queued : state_flags[p] = "runnable"
    BY Zenon DEF IInv, OnePlace
<1> USE DistinctAssumption, MaxPreemptAssumption, <1>t
    DEF TypeOK, CpuInv, Own, Stacks, Locations, InSchedule, proc_is_runnable, idle_proc, preemptible,
        Go, PreemptDisable, PreemptEnable, AfterPreemptEnable, procVars, switchVars
<1>1. CASE SchedStart(c)
    BY Zenon, <1>1 DEF SchedStart
<1>2. CASE EnterSchedule(c)
    BY <1>2 DEF EnterSchedule
<1>3. CASE CheckResched(c)
    BY <1>3 DEF CheckResched
<1>4. CASE PickNext(c)
    BY <1>4, TailRunq DEF PickNext
<1>5. CASE ClearResched(c)
    BY <1>5 DEF ClearResched
<1>6. CASE SwitchToProc(c)
    BY <1>6 DEF SwitchToProc
<1>7. CASE SwitchStack(c)
    BY Zenon, <1>7 DEF SwitchStack
<1>8. CASE PutPrev(c)
    BY Zenon, <1>8 DEF PutPrev
<1>9. CASE FinishSwitch(c)
    BY Zenon, <1>9 DEF FinishSwitch
<1>10. CASE Tick(c)
    BY <1>10 DEF Tick
<1>11. CASE Resched(c)
    BY Zenon, <1>11 DEF Resched
<1>12. CASE CallSchedule(c)
    BY Zenon, <1>12 DEF CallSchedule
<1>13. CASE DisablePreemption(c)
    BY Zenon, <1>13 DEF DisablePreemption
<1>14. CASE EnablePreemption(c)
    BY Zenon, <1>14 DEF EnablePreemption
<1>15. CASE DisableInterrupts(c)
    BY Zenon, <1>15 DEF DisableInterrupts
<1>16. CASE EnableInterrupts(c)
    BY Zenon, <1>16 DEF EnableInterrupts
<1>17. CASE Exit(c)
    BY Zenon, <1>17 DEF Exit
<1>18. CASE \E p \in Procs : EnqueueProc(c, p)
    BY <1>18 DEF EnqueueProc
<1>19. CASE \E p \in Procs : DequeueProc(c, p)
    BY <1>19 DEF DequeueProc
<1> QED
    BY Zenon, <1>1, <1>2, <1>3, <1>4, <1>5, <1>6, <1>7, <1>8, <1>9, <1>10, <1>11, <1>12, <1>13, <1>14,
       <1>15, <1>16, <1>17, <1>18, <1>19 DEF SchedStep, RunStep

\* ...and on every other cpu d: c only writes its own variables, and only marks
\* its own process dead, which d does not have in hand.
LEMMA OtherCpuStep ==
    ASSUME IInv, NEW c \in Cpus, SchedStart(c) \/ SchedStep(c) \/ Tick(c) \/ RunStep(c),
           NEW d \in Cpus, d # c
    PROVE  CpuInv(d)'
<1>t. TypeOK /\ CpuInv(d) /\ CpuInv(c)
    BY Zenon DEF IInv
<1>s. /\ pc'[d] = pc[d] /\ esp'[d] = esp[d] /\ curr_proc'[d] = curr_proc[d]
      /\ next'[d] = next[d] /\ prev'[d] = prev[d] /\ iflag'[d] = iflag[d]
      /\ preempt_count'[d] = preempt_count[d]
    BY ZenonT(30), <1>t DEF TypeOK, SchedStep, RunStep, SchedStart, EnterSchedule, CheckResched, PickNext,
        ClearResched, SwitchToProc, SwitchStack, PutPrev, FinishSwitch, Tick, Resched, CallSchedule,
        DisablePreemption, EnablePreemption, DisableInterrupts, EnableInterrupts, Exit, EnqueueProc,
        DequeueProc, Go, PreemptDisable, PreemptEnable, procVars, switchVars
<1>1. state_flags' = state_flags \/ Exit(c)
    BY Zenon DEF SchedStep, RunStep, SchedStart, EnterSchedule, CheckResched, PickNext,
        ClearResched, SwitchToProc, SwitchStack, PutPrev, FinishSwitch, Tick, Resched, CallSchedule,
        DisablePreemption, EnablePreemption, DisableInterrupts, EnableInterrupts, EnqueueProc,
        DequeueProc, procVars
<1>2. CASE state_flags' = state_flags
    BY Zenon, <1>t, <1>s, <1>2 DEF CpuInv, proc_is_runnable
<1>3. CASE Exit(c)
    <2>1. esp[c] = curr_proc[c] /\ curr_proc[c] \in Procs
        BY Zenon, <1>3, <1>t DEF Exit, CpuInv
    <2>2. pc[d] \in {"picked", "switch", "stack"} => next[d] # curr_proc[c]
        BY Zenon, <2>1 DEF IInv, OnePlace, Holds
    <2>3. pc[d] \in {"picked", "switch", "stack"} => proc_is_runnable(next[d])'
        BY Zenon, <1>t, <1>s, <1>3, <2>1, <2>2 DEF CpuInv, Exit, proc_is_runnable, TypeOK
    <2> QED
        BY Zenon, <1>t, <1>s, <2>3 DEF CpuInv
<1> QED
    BY Zenon, <1>1, <1>2, <1>3

-----------------------------------------------------------------------------
\* Where the processes are.
PlaceInv == OnePlace /\ NoProcessLost /\ HandlesSubmitted

\* Only four actions move a process: under every other one, what each cpu has
\* in hand stays as it is.
Moving(c) ==
    PickNext(c) \/ PutPrev(c) \/ Exit(c) \/ \E p \in Procs : EnqueueProc(c, p) \/ DequeueProc(c, p)

\* The variables that Holds(d, _) depends on are those of cpu d.
LEMMA OthersHold ==
    ASSUME TypeOK, NEW c \in Cpus, SchedStart(c) \/ SchedStep(c) \/ Tick(c) \/ RunStep(c),
           NEW d \in Cpus, d # c, NEW p
    PROVE  Holds(d, p)' <=> Holds(d, p)
<1>1. pc'[d] = pc[d] /\ esp'[d] = esp[d] /\ next'[d] = next[d] /\ prev'[d] = prev[d]
    BY ZenonT(30) DEF TypeOK, SchedStep, RunStep, SchedStart, EnterSchedule, CheckResched, PickNext,
        ClearResched, SwitchToProc, SwitchStack, PutPrev, FinishSwitch, Tick, Resched, CallSchedule,
        DisablePreemption, EnablePreemption, DisableInterrupts, EnableInterrupts, Exit, EnqueueProc,
        DequeueProc, Go, switchVars
<1> QED
    BY Zenon, <1>1 DEF Holds

LEMMA NotMoving ==
    ASSUME IInv, NEW c \in Cpus, SchedStart(c) \/ SchedStep(c) \/ Tick(c) \/ RunStep(c), ~Moving(c)
    PROVE  /\ UNCHANGED procVars
           /\ \A p \in Procs : Holds(c, p)' <=> Holds(c, p)
<1>t. TypeOK /\ CpuInv(c)
    BY Zenon DEF IInv
<1> USE DistinctAssumption, <1>t
    DEF TypeOK, CpuInv, InSchedule, Go, AfterPreemptEnable, procVars, switchVars, Holds, preemptible
<1>1. CASE SchedStart(c)
    BY Zenon, <1>1 DEF SchedStart
<1>2. CASE EnterSchedule(c)
    BY <1>2 DEF EnterSchedule
<1>3. CASE CheckResched(c)
    BY <1>3 DEF CheckResched
<1>4. CASE ClearResched(c)
    BY <1>4 DEF ClearResched
<1>5. CASE SwitchToProc(c)
    BY Zenon, <1>5 DEF SwitchToProc
<1>6. CASE SwitchStack(c)
    BY Zenon, <1>6 DEF SwitchStack
<1>7. CASE FinishSwitch(c)
    BY Zenon, <1>7 DEF FinishSwitch
<1>8. CASE Tick(c)
    BY <1>8 DEF Tick
<1>9. CASE Resched(c)
    BY Zenon, <1>9 DEF Resched
<1>10. CASE CallSchedule(c)
    BY Zenon, <1>10 DEF CallSchedule
<1>11. CASE DisablePreemption(c) \/ DisableInterrupts(c) \/ EnableInterrupts(c)
    BY Zenon, <1>11 DEF DisablePreemption, DisableInterrupts, EnableInterrupts
<1>12. CASE EnablePreemption(c)
    BY Zenon, <1>12 DEF EnablePreemption
<1> QED
    BY Zenon, <1>1, <1>2, <1>3, <1>4, <1>5, <1>6, <1>7, <1>8, <1>9, <1>10, <1>11, <1>12
       DEF SchedStep, RunStep, Moving

LEMMA PlaceStep ==
    ASSUME IInv, NEW c \in Cpus, SchedStart(c) \/ SchedStep(c) \/ Tick(c) \/ RunStep(c)
    PROVE  PlaceInv'
<1>t. TypeOK /\ PlaceInv /\ CpuInv(c)
    BY Zenon DEF IInv, PlaceInv
<1>o. \A d \in Cpus \ {c} : \A p \in Procs : Holds(d, p)' <=> Holds(d, p)
    BY Zenon, <1>t, OthersHold
<1>q. runq' = runq => Queued' = Queued /\ QueuedOnce' = QueuedOnce
    BY Zenon DEF Queued, QueuedOnce
<1>p. Queued \subseteq Procs
    BY Zenon, <1>t DEF PlaceInv, HandlesSubmitted, TypeOK
<1> USE DEF PlaceInv, OnePlace, NoProcessLost, HandlesSubmitted
<1>1. CASE ~Moving(c)
    <2>1. UNCHANGED procVars /\ \A d \in Cpus : \A p \in Procs : Holds(d, p)' <=> Holds(d, p)
        BY Zenon, <1>1, <1>o, NotMoving
    <2> QED
        BY Zenon, <1>t, <1>q, <2>1 DEF procVars, TypeOK
<1>2. CASE PickNext(c)
    <2>0. UNCHANGED <<state_flags, submitted>>
        BY Zenon, <1>2 DEF PickNext
    <2>1. CASE runq = <<>>
        <3>1. runq' = runq
            BY Zenon, <1>2, <2>1 DEF PickNext
        <3>2. \A p \in Procs : Holds(c, p)' <=> Holds(c, p)
            BY <1>2, <1>t, <2>1, DistinctAssumption DEF PickNext, Holds, Go, TypeOK, idle_proc
        <3>3. \A d \in Cpus : \A p \in Procs : Holds(d, p)' <=> Holds(d, p)
            BY Zenon, <1>o, <3>2
        <3> QED
            BY Zenon, <1>t, <1>q, <2>0, <3>1, <3>3 DEF TypeOK
    <2>2. CASE runq # <<>>
        <3> DEFINE h == Head(runq)
        <3>1. \A p \in Procs : Holds(c, p)' <=> Holds(c, p) \/ p = h
            BY <1>2, <1>t, <2>2 DEF PickNext, Holds, Go, TypeOK
        <3>2. h \in Queued /\ Queued' = Queued \ {h} /\ QueuedOnce'
            BY Zenon, <1>2, <1>t, <2>2, TailRunq DEF PickNext, TypeOK
        <3> HIDE DEF h
        <3>a. OnePlace'
            BY <1>t, <1>o, <1>p, <2>0, <3>1, <3>2
        <3>b. HandlesSubmitted'
            BY Zenon, <1>t, <1>o, <1>p, <2>0, <3>1, <3>2
        <3>c. ASSUME NEW r \in submitted', state_flags'[r] = "runnable"
              PROVE  r \in Queued' \/ \E d \in Cpus : Holds(d, r)'
            <4>1. r \in Procs /\ r \in submitted /\ state_flags[r] = "runnable"
                BY Zenon, <1>t, <2>0, <3>c DEF TypeOK
            <4>2. r \in Queued \/ \E d \in Cpus : Holds(d, r)
                BY Zenon, <1>t, <4>1
            <4>3. r \in Queued => r \in Queued' \/ Holds(c, r)'
                BY Zenon, <3>1, <3>2, <4>1
            <4>4. \A d \in Cpus : Holds(d, r) => Holds(d, r)'
                BY Zenon, <1>o, <3>1, <4>1
            <4> QED
                BY Zenon, <4>2, <4>3, <4>4
        <3> QED
            BY Zenon, <3>a, <3>b, <3>c
    <2> QED
        BY Zenon, <2>1, <2>2
<1>3. CASE PutPrev(c)
    <2>0. UNCHANGED <<state_flags, submitted>>
        BY Zenon, <1>3 DEF PutPrev
    <2>1. \A p \in Procs : Holds(c, p)' <=> Holds(c, p) /\ p # prev[c]
        BY <1>3, <1>t DEF PutPrev, Holds, Go, TypeOK, switchVars, CpuInv
    <2>2. \A p \in Procs : prev[c] = p => Holds(c, p)
        BY Zenon, <1>3, <1>t DEF PutPrev, Holds, Go
    <2>3. CASE prev[c] \in Procs /\ state_flags[prev[c]] = "runnable"
        <3> DEFINE x == prev[c]
        <3>1. runq' = Append(runq, x)
            BY Zenon, <1>3, <2>3, DistinctAssumption DEF PutPrev, proc_is_runnable, idle_proc
        <3>2. x \in Procs /\ x \notin Queued /\ runq \in Seq(Procs) /\ QueuedOnce
            BY Zenon, <1>t, <2>2, <2>3 DEF TypeOK
        <3> HIDE DEF x
        <3>3. Queued' = Queued \cup {x} /\ QueuedOnce'
            BY ONLY <3>1, <3>2, AppendRunq
        <3>4. x \in Procs /\ state_flags[x] = "runnable" /\ Holds(c, x)
            BY Zenon, <2>2, <2>3 DEF x
        <3>5. \A p \in Procs : Holds(c, p)' <=> Holds(c, p) /\ p # x
            BY Zenon, <2>1 DEF x
        <3>a. OnePlace'
            BY <1>t, <1>o, <1>p, <2>0, <3>3, <3>4, <3>5
        <3>b. HandlesSubmitted'
            <4>1. Queued' \subseteq submitted'
                BY Zenon, <1>t, <2>0, <3>3, <3>4
            <4>2. \A p \in Procs : \A d \in Cpus : Holds(d, p)' => Holds(d, p)
                BY Zenon, <1>o, <3>5
            <4> QED
                BY Zenon, <1>t, <2>0, <4>1, <4>2
        <3>c. ASSUME NEW r \in submitted', state_flags'[r] = "runnable"
              PROVE  r \in Queued' \/ \E d \in Cpus : Holds(d, r)'
            <4>1. r \in Procs /\ r \in submitted /\ state_flags[r] = "runnable"
                BY Zenon, <1>t, <2>0, <3>c DEF TypeOK
            <4>2. r \in Queued \/ \E d \in Cpus : Holds(d, r)
                BY Zenon, <1>t, <4>1
            <4>3. \A d \in Cpus : Holds(d, r) => Holds(d, r)' \/ r \in Queued'
                BY Zenon, <1>o, <3>3, <3>5, <4>1
            <4> QED
                BY Zenon, <3>3, <4>2, <4>3
        <3> QED
            BY Zenon, <3>a, <3>b, <3>c
    <2>4. CASE ~(prev[c] \in Procs /\ state_flags[prev[c]] = "runnable")
        <3>1. runq' = runq
            BY Zenon, <1>3, <1>t, <2>4 DEF PutPrev, proc_is_runnable, idle_proc, CpuInv, Own, Go
        <3>a. OnePlace'
            BY <1>t, <1>o, <1>p, <1>q, <2>0, <2>1, <3>1
        <3>b. HandlesSubmitted'
            BY <1>t, <1>o, <1>p, <1>q, <2>0, <2>1, <3>1 DEF TypeOK
        <3>c. ASSUME NEW r \in submitted', state_flags'[r] = "runnable"
              PROVE  r \in Queued' \/ \E d \in Cpus : Holds(d, r)'
            <4>1. r \in Procs /\ r \in submitted /\ state_flags[r] = "runnable"
                BY Zenon, <1>t, <2>0, <3>c DEF TypeOK
            <4>2. r \in Queued \/ \E d \in Cpus : Holds(d, r)
                BY Zenon, <1>t, <4>1
            <4>3. \A d \in Cpus : Holds(d, r) => Holds(d, r)'
                BY Zenon, <1>o, <2>1, <2>4, <4>1
            <4> QED
                BY Zenon, <1>q, <3>1, <4>2, <4>3
        <3> QED
            BY Zenon, <3>a, <3>b, <3>c
    <2> QED
        BY Zenon, <2>3, <2>4
<1>4. CASE Exit(c)
    <2>1. UNCHANGED <<runq, submitted>> /\ \A p \in Procs : Holds(c, p)' <=> Holds(c, p)
        BY Zenon, <1>4 DEF Exit, Holds, switchVars
    <2>2. curr_proc[c] \in Procs /\ Holds(c, curr_proc[c])
        BY Zenon, <1>4, <1>t DEF Exit, Holds, CpuInv
    <2>3. \A p \in Procs \ {curr_proc[c]} : state_flags'[p] = state_flags[p]
        BY Zenon, <1>4, <1>t DEF Exit, TypeOK
    <2>4. state_flags'[curr_proc[c]] = "dead"
        BY Zenon, <1>4, <1>t DEF Exit, TypeOK
    <2>5. \A d \in Cpus : \A p \in Procs : Holds(d, p)' <=> Holds(d, p)
        BY Zenon, <1>o, <2>1
    <2>6. Queued' = Queued /\ QueuedOnce' /\ curr_proc[c] \notin Queued
        BY Zenon, <1>q, <1>t, <2>1, <2>2
    <2>a. OnePlace'
        BY Zenon, <1>t, <1>p, <2>1, <2>3, <2>5, <2>6
    <2>b. HandlesSubmitted'
        BY Zenon, <1>t, <1>p, <2>1, <2>3, <2>5, <2>6 DEF TypeOK
    <2>c. ASSUME NEW r \in submitted', state_flags'[r] = "runnable"
          PROVE  r \in Queued' \/ \E d \in Cpus : Holds(d, r)'
        <3>1. r \in Procs /\ r \in submitted /\ state_flags[r] = "runnable"
            BY Zenon, <1>t, <2>1, <2>3, <2>4, <2>c DEF TypeOK
        <3> QED
            BY Zenon, <1>t, <2>5, <2>6, <3>1
    <2> QED
        BY Zenon, <2>a, <2>b, <2>c
<1>5. ASSUME NEW p \in Procs, EnqueueProc(c, p) PROVE PlaceInv'
    <2>1. \A r \in Procs : Holds(c, r)' <=> Holds(c, r)
        BY <1>5, <1>t DEF EnqueueProc, Holds, switchVars, AfterPreemptEnable, TypeOK
    <2>2. UNCHANGED state_flags /\ submitted' = submitted \cup {p}
        BY Zenon, <1>5 DEF EnqueueProc
    <2>3. state_flags[p] = "runnable" /\ p \notin submitted /\ p \notin Queued
        BY Zenon, <1>5, <1>t DEF EnqueueProc, proc_is_runnable
    <2>4. Queued' = Queued \cup {p} /\ QueuedOnce'
        BY Zenon, <1>5, <1>t, <2>3, AppendRunq DEF EnqueueProc, TypeOK
    <2>5. \A d \in Cpus : \A r \in Procs : Holds(d, r)' <=> Holds(d, r)
        BY Zenon, <1>o, <2>1
    <2>a. OnePlace'
        BY <1>t, <1>p, <2>2, <2>3, <2>4, <2>5
    <2>b. HandlesSubmitted'
        BY Zenon, <1>t, <1>p, <2>2, <2>3, <2>4, <2>5 DEF TypeOK
    <2>c. ASSUME NEW r \in submitted', state_flags'[r] = "runnable"
          PROVE  r \in Queued' \/ \E d \in Cpus : Holds(d, r)'
        <3>1. r \in Procs /\ state_flags[r] = "runnable" /\ (r \in submitted \/ r = p)
            BY Zenon, <1>t, <2>2, <2>c DEF TypeOK
        <3> QED
            BY Zenon, <1>t, <2>4, <2>5, <3>1
    <2> QED
        BY Zenon, <2>a, <2>b, <2>c
<1>6. ASSUME NEW p \in Procs, DequeueProc(c, p) PROVE PlaceInv'
    <2>1. \A r \in Procs : Holds(c, r)' <=> Holds(c, r)
        BY <1>6, <1>t DEF DequeueProc, Holds, switchVars, AfterPreemptEnable, TypeOK
    <2>2. UNCHANGED state_flags /\ submitted' = submitted \ {p}
        BY Zenon, <1>6 DEF DequeueProc
    <2>3. Queued' = Queued \ {p} /\ QueuedOnce'
        BY Zenon, <1>6, <1>t, RemoveRunq DEF DequeueProc, TypeOK
    <2>4. p \in Queued
        BY Zenon, <1>6 DEF DequeueProc, Queued
    <2>5. \A d \in Cpus : \A r \in Procs : Holds(d, r)' <=> Holds(d, r)
        BY Zenon, <1>o, <2>1
    <2>a. OnePlace'
        BY Zenon, <1>t, <1>p, <2>2, <2>3, <2>4, <2>5
    <2>b. HandlesSubmitted'
        BY <1>t, <1>p, <2>2, <2>3, <2>4, <2>5 DEF TypeOK
    <2>c. ASSUME NEW r \in submitted', state_flags'[r] = "runnable"
          PROVE  r \in Queued' \/ \E d \in Cpus : Holds(d, r)'
        <3>1. r \in Procs /\ state_flags[r] = "runnable" /\ r \in submitted /\ r # p
            BY Zenon, <1>t, <2>2, <2>c DEF TypeOK
        <3> QED
            BY Zenon, <1>t, <2>3, <2>5, <3>1
    <2> QED
        BY Zenon, <2>a, <2>b, <2>c
<1> QED
    BY Zenon, <1>1, <1>2, <1>3, <1>4, <1>5, <1>6 DEF Moving

LEMMA NextIInv == IInv /\ [Next]_vars => IInv'
<1> SUFFICES ASSUME IInv, [Next]_vars PROVE IInv'
    BY Zenon
<1>1. CASE UNCHANGED vars
    <2>1. TypeOK'
        BY Zenon, <1>1 DEF vars, IInv, TypeOK
    <2>2. /\ Queued' = Queued
          /\ QueuedOnce' = QueuedOnce
          /\ submitted' = submitted /\ state_flags' = state_flags
        BY Zenon, <1>1 DEF vars, Queued, QueuedOnce
    <2>3. ASSUME NEW d \in Cpus PROVE \A p \in Procs : Holds(d, p)' <=> Holds(d, p)
        BY Zenon, <1>1 DEF vars, Holds
    <2>4. OnePlace' /\ NoProcessLost' /\ HandlesSubmitted'
        BY Zenon, <2>2, <2>3 DEF IInv, TypeOK, OnePlace, NoProcessLost, HandlesSubmitted
    <2>5. ASSUME NEW d \in Cpus PROVE CpuInv(d)'
        BY Zenon, <1>1 DEF vars, IInv, CpuInv, proc_is_runnable
    <2> QED
        BY Zenon, <2>1, <2>4, <2>5 DEF IInv
<1>2. ASSUME NEW c \in Cpus, SchedStart(c) \/ SchedStep(c) \/ Tick(c) \/ RunStep(c)
      PROVE  IInv'
    <2>1. \A d \in Cpus : CpuInv(d)'
        BY Zenon, <1>2, OwnCpuStep, OtherCpuStep
    <2>2. TypeOK'
        BY Zenon, <1>2, TypeStep
    <2>3. PlaceInv'
        BY Zenon, <1>2, PlaceStep
    <2> QED
        BY Zenon, <2>1, <2>2, <2>3 DEF IInv, PlaceInv
<1> QED
    BY Zenon, <1>1, <1>2 DEF Next

-----------------------------------------------------------------------------
\* The inductive invariant holds in every state of the scheduler, for any number
\* of cpus and processes.
THEOREM Invariance == Spec => []IInv
<1> QED
    BY InitIInv, NextIInv, PTL DEF Spec

\* A process is at most once in RUNQUEUE or in the hands of one cpu, whatever the
\* order of schedule(), sched_put_prev_proc() and do_exit() on several cpus.
THEOREM OnePlaceTheorem == Spec => []OnePlace
<1>1. IInv => OnePlace
    BY Zenon DEF IInv
<1> QED
    BY <1>1, Invariance, PTL

\* No runnable process is lost by schedule(), sched_put_prev_proc() or do_exit().
THEOREM NoProcessLostTheorem == Spec => []NoProcessLost
<1>1. IInv => NoProcessLost
    BY Zenon DEF IInv
<1> QED
    BY <1>1, Invariance, PTL

\* Two cpus never execute on the same kernel stack, although do_context_switch()
\* hands the previous process to the other cpus from within the switch.
THEOREM StackExclusiveTheorem == Spec => []StackExclusive
<1>1. IInv => StackExclusive
    <2> SUFFICES ASSUME IInv, NEW c \in Cpus, NEW d \in Cpus, c # d, esp[c] # NoProc, esp[c] = esp[d]
                 PROVE  FALSE
        BY Zenon DEF StackExclusive
    <2>1. esp[c] \in Procs
        BY DistinctAssumption DEF IInv, CpuInv, Own, idle_proc
    <2>2. Holds(c, esp[c]) /\ Holds(d, esp[c])
        BY Zenon DEF Holds
    <2> QED
        BY Zenon, <2>1, <2>2 DEF IInv, OnePlace
<1> QED
    BY <1>1, Invariance, PTL

\* switch_to_proc() and do_context_switch() let no interrupt see a curr_proc that
\* is not the process whose stack is in use.
THEOREM CurrProcTheorem == Spec => []CurrProcConsistent
<1>1. IInv => CurrProcConsistent
    BY Zenon DEF IInv, CurrProcConsistent, CpuInv
<1> QED
    BY <1>1, Invariance, PTL

\* Non-preemptible code is never switched out by schedule().
THEOREM PreemptibleTheorem == Spec => []SwitchOnlyPreemptible
<1>1. IInv => SwitchOnlyPreemptible
    BY Zenon DEF IInv, SwitchOnlyPreemptible, CpuInv
<1> QED
    BY <1>1, Invariance, PTL

\* No cpu switches to the stack of a process that has exited.
THEOREM DeadTheorem == Spec => DeadNeverResumed
<1>1. IInv /\ [Next]_vars =>
        [\A c \in Cpus, p \in Procs : state_flags[p] = "dead" /\ esp'[c] = p => esp[c] = p]_vars
    <2> SUFFICES ASSUME IInv, Next, NEW d \in Cpus, NEW p \in Procs, state_flags[p] = "dead",
                        esp'[d] = p
                 PROVE  esp[d] = p
        BY Zenon
    <2>1. PICK c \in Cpus : SchedStart(c) \/ SchedStep(c) \/ Tick(c) \/ RunStep(c)
        BY Zenon DEF Next
    <2>2. esp' = esp \/ SwitchStack(c)
        BY Zenon, <2>1 DEF SchedStep, RunStep, SchedStart, EnterSchedule, CheckResched, PickNext,
        ClearResched, SwitchToProc, PutPrev, FinishSwitch, Tick, Resched, CallSchedule,
        DisablePreemption, EnablePreemption, DisableInterrupts, EnableInterrupts, Exit, EnqueueProc,
        DequeueProc, switchVars
    <2>3. CASE SwitchStack(c)
        <3>1. pc[c] = "stack" /\ esp' = [esp EXCEPT ![c] = next[c]]
            BY Zenon, <2>3 DEF SwitchStack, Go
        <3>2. proc_is_runnable(next[c])
            BY Zenon, <3>1 DEF IInv, CpuInv
        <3> QED
            BY Zenon, <3>1, <3>2 DEF proc_is_runnable, IInv, TypeOK
    <2> QED
        BY Zenon, <2>2, <2>3
<1> QED
    BY <1>1, Invariance, PTL DEF Spec, DeadNeverResumed

\* The assertions of schedule() never fail: what it picks is runnable, and it
\* returns with interrupts enabled and the cpu preemptible.
THEOREM AssertionsTheorem == Spec => ScheduleAssertions
<1>1. ASSUME IInv, [Next]_vars
      PROVE  [\A c \in Cpus :
                /\ pc[c] = "picked" => proc_is_runnable(next[c])
                /\ pc[c] \in InSchedule /\ pc'[c] = "run" => iflag'[c] /\ preempt_count'[c] = 0]_vars
    <2> SUFFICES ASSUME Next, NEW d \in Cpus
                 PROVE  /\ pc[d] = "picked" => proc_is_runnable(next[d])
                        /\ pc[d] \in InSchedule /\ pc'[d] = "run" => iflag'[d] /\ preempt_count'[d] = 0
        BY Zenon, <1>1
    <2>1. TypeOK /\ CpuInv(d)
        BY Zenon, <1>1 DEF IInv
    <2>2. PICK c \in Cpus : SchedStart(c) \/ SchedStep(c) \/ Tick(c) \/ RunStep(c)
        BY Zenon DEF Next
    <2> USE <2>1 DEF TypeOK, CpuInv, InSchedule, Go, PreemptEnable, PreemptDisable, AfterPreemptEnable,
                     preemptible
    <2>3. CASE SchedStep(c)
        <3>1. CASE CheckResched(c)
            <4>1. iflag' = iflag /\ (pc'[d] = pc[d] \/ d = c)
                BY Zenon, <3>1 DEF CheckResched
            <4>2. pc'[c] = "run" => preempt_count' = [preempt_count EXCEPT ![c] = @ - 1]
                BY Zenon, <3>1 DEF CheckResched
            <4>3. pc[c] \in {"need", "picked"}
                BY Zenon, <3>1 DEF CheckResched
            <4> QED
                BY <4>1, <4>2, <4>3
        <3>2. CASE ClearResched(c)
            <4>1. iflag' = iflag /\ (pc'[d] = pc[d] \/ d = c)
                BY Zenon, <3>2 DEF ClearResched
            <4>2. pc'[c] = "run" => preempt_count' = [preempt_count EXCEPT ![c] = @ - 1]
                BY Zenon, <3>2 DEF ClearResched
            <4>3. pc[c] \in {"need", "picked"}
                BY Zenon, <3>2 DEF ClearResched
            <4> QED
                BY <4>1, <4>2, <4>3
        <3>3. CASE FinishSwitch(c)
            BY <3>3 DEF FinishSwitch
        <3> QED
            BY SMTT(30), <2>3, <3>1, <3>2, <3>3
               DEF SchedStep, EnterSchedule, PickNext, SwitchToProc, SwitchStack, PutPrev
    <2>4. CASE SchedStart(c) \/ Tick(c)
        BY ZenonT(30), <2>4 DEF SchedStart, Tick
    <2>5. CASE RunStep(c)
        BY Zenon, <2>5 DEF RunStep, Resched, CallSchedule, DisablePreemption, EnablePreemption,
            DisableInterrupts, EnableInterrupts, Exit, EnqueueProc, DequeueProc
    <2> QED
        BY Zenon, <2>2, <2>3, <2>4, <2>5
<1> QED
    BY <1>1, Invariance, PTL DEF Spec, ScheduleAssertions
=============================================================================
