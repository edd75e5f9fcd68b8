-------------------------------- MODULE Sched --------------------------------
(***************************************************************************)
(* Process scheduling: sched_core.c with the trivial scheduler of ts.c,    *)
(* and the context switch of proc.c and proc_asm.S.                        *)
(*                                                                         *)
(* What a cpu executes is the code of the kernel stack that its ESP points *)
(* into, esp[c]: the stack of a process, of its idle process, or its boot  *)
(* stack (NoProc).  pc[c] says where in the scheduler that code is; "run"  *)
(* stands for everything else: user code, system calls, interrupt          *)
(* handlers.  A process that is switched out resumes in "run", because all *)
(* that is left of schedule() after the switch is its return.              *)
(*                                                                         *)
(* RUNQUEUE is only used under RUNQUEUE_LOCK, so its operations are single *)
(* steps.  Steps that only touch the per-cpu variables of the cpu that     *)
(* takes them are split where an interrupt of that cpu may come between.   *)
(***************************************************************************)
EXTENDS Naturals, Sequences

CONSTANTS
    Cpus,       \* the processors; c also names the idle process of cpu c
    Procs,      \* the processes given to the scheduler
    NoProc,     \* NULL
    MaxPreempt  \* bound: preempt_disable() nesting of the code in "run"

ASSUME DistinctAssumption == Cpus \cap Procs = {} /\ NoProc \notin Cpus \cup Procs
ASSUME MaxPreemptAssumption == MaxPreempt \in Nat

VARIABLES
    runq,           \* RUNQUEUE
    state_flags,    \* state_flags[p]: "runnable" or "dead"
    submitted,      \* processes that were enqueued and not dequeued since (history)
    sched_running, resched_flag, preempt_count, curr_proc,  \* per-cpu variables
    iflag,          \* iflag[c]: the interrupt flag
    esp,            \* esp[c]: whose kernel stack c executes on
    pc,             \* pc[c]: where c is
    next,           \* next[c]: local of schedule(), NoProc where it is dead
    prev            \* prev[c]: ECX in do_context_switch(), NoProc where it is dead

procVars == <<runq, state_flags, submitted>>
switchVars == <<curr_proc, esp, next, prev>>
vars == <<runq, state_flags, submitted, sched_running, resched_flag, preempt_count, curr_proc,
          iflag, esp, pc, next, prev>>

(***************************************************************************)
(* "boot": before sched_start(); "schedule": schedule() is called;         *)
(* "need": preemption disabled, is a reschedule needed?; "pick": it is;    *)
(* "picked": next is chosen; "switch": switch_to_proc() is called;         *)
(* "stack": curr_proc is updated, IF clear, still on the old stack;        *)
(* "put_prev": on the new stack; "finish": last instructions of            *)
(* do_context_switch().                                                    *)
(***************************************************************************)
InSchedule == {"need", "pick", "picked", "switch", "stack", "put_prev", "finish"}
Locations == {"boot", "run", "schedule"} \cup InSchedule

Stacks == Procs \cup Cpus \cup {NoProc}

\* The types of the variables.
TypeOK ==
    /\ runq \in Seq(Procs)
    /\ state_flags \in [Procs -> {"runnable", "dead"}]
    /\ submitted \subseteq Procs
    /\ sched_running \in [Cpus -> BOOLEAN]
    /\ resched_flag \in [Cpus -> BOOLEAN]
    /\ preempt_count \in [Cpus -> Nat]
    /\ curr_proc \in [Cpus -> Stacks]
    /\ iflag \in [Cpus -> BOOLEAN]
    /\ esp \in [Cpus -> Stacks]
    /\ pc \in [Cpus -> Locations]
    /\ next \in [Cpus -> Stacks]
    /\ prev \in [Cpus -> Stacks]

\* sched_init(), executed at boot with interrupts disabled.
Init ==
    /\ runq = <<>>
    /\ state_flags = [p \in Procs |-> "runnable"]
    /\ submitted = {}
    /\ sched_running = [c \in Cpus |-> FALSE]
    /\ resched_flag = [c \in Cpus |-> FALSE]
    /\ preempt_count = [c \in Cpus |-> 0]
    /\ curr_proc = [c \in Cpus |-> NoProc]
    /\ iflag = [c \in Cpus |-> FALSE]
    /\ esp = [c \in Cpus |-> NoProc]
    /\ pc = [c \in Cpus |-> "boot"]
    /\ next = [c \in Cpus |-> NoProc]
    /\ prev = [c \in Cpus |-> NoProc]

-----------------------------------------------------------------------------
idle_proc(c) == c

\* proc_is_runnable(); idle processes always are.
proc_is_runnable(p) == p \in Procs => state_flags[p] = "runnable"

\* cpu_is_idle()
cpu_is_idle(c) == curr_proc[c] = idle_proc(c)

preemptible(c) == preempt_count[c] = 0 /\ iflag[c]

\* do_preempt_enable() without its call of schedule().
AfterPreemptEnableNoSchedule(c, count) == pc[c]

\* Where the code in "run" continues after a preempt_enable() that leaves the
\* count at `count`: do_preempt_enable() calls schedule() when it reaches 0.
AfterPreemptEnable(c, count) ==
    IF count = 0 /\ sched_running[c] THEN "schedule" ELSE pc[c]

Go(c, from, to) ==
    /\ pc[c] = from
    /\ pc' = [pc EXCEPT ![c] = to]

PreemptDisable(c) == preempt_count' = [preempt_count EXCEPT ![c] = @ + 1]

PreemptEnable(c) == preempt_count' = [preempt_count EXCEPT ![c] = @ - 1]

\* sched_start(): from here on the boot stack only calls schedule().
SchedStart(c) ==
    /\ Go(c, "boot", "schedule")
    /\ sched_running' = [sched_running EXCEPT ![c] = TRUE]
    /\ preempt_count' = [preempt_count EXCEPT ![c] = 0]
    /\ iflag' = [iflag EXCEPT ![c] = TRUE]
    /\ UNCHANGED <<procVars, resched_flag, switchVars>>

-----------------------------------------------------------------------------
\* schedule() without the test of preemptible().
EnterScheduleUnchecked(c) ==
    /\ Go(c, "schedule", "need")
    /\ PreemptDisable(c)
    /\ UNCHANGED <<procVars, sched_running, resched_flag, iflag, switchVars>>

\* schedule(): return if not preemptible(), else preempt_disable().
EnterSchedule(c) ==
    /\ IF preemptible(c)
       THEN Go(c, "schedule", "need") /\ PreemptDisable(c)
       ELSE Go(c, "schedule", "run") /\ UNCHANGED preempt_count
    /\ UNCHANGED <<procVars, sched_running, resched_flag, iflag, switchVars>>

curr_cpu_need_resched(c) ==
    \/ curr_proc[c] = NoProc
    \/ cpu_is_idle(c)
    \/ resched_flag[c]
    \/ ~proc_is_runnable(curr_proc[c])

\* if (curr_cpu_need_resched()) ... else preempt_enable_no_resched();
CheckResched(c) ==
    /\ IF curr_cpu_need_resched(c)
       THEN Go(c, "need", "pick") /\ UNCHANGED preempt_count
       ELSE Go(c, "need", "run") /\ PreemptEnable(c)
    /\ UNCHANGED <<procVars, sched_running, resched_flag, iflag, switchVars>>

\* ts_pick_next_proc() that reads the head of RUNQUEUE without removing it.
PickNextNoRemove(c) ==
    /\ Go(c, "pick", "picked")
    /\ next' = [next EXCEPT ![c] = IF runq = <<>> THEN idle_proc(c) ELSE Head(runq)]
    /\ UNCHANGED <<procVars, sched_running, resched_flag, preempt_count, curr_proc, iflag, esp, prev>>

\* ts_pick_next_proc(), then next = (next == NO_PROC) ? idle : next;
PickNext(c) ==
    /\ Go(c, "pick", "picked")
    /\ IF runq = <<>>
       THEN /\ next' = [next EXCEPT ![c] = idle_proc(c)]
            /\ UNCHANGED runq
       ELSE /\ next' = [next EXCEPT ![c] = Head(runq)]
            /\ runq' = Tail(runq)
    /\ UNCHANGED <<state_flags, submitted, sched_running, resched_flag, preempt_count, curr_proc,
                   iflag, esp, prev>>

\* resched_flag = false; switch if next != curr, else preempt_enable_no_resched();
ClearResched(c) ==
    /\ IF next[c] # curr_proc[c]
       THEN Go(c, "picked", "switch") /\ UNCHANGED <<preempt_count, next>>
       ELSE Go(c, "picked", "run") /\ PreemptEnable(c) /\ next' = [next EXCEPT ![c] = NoProc]
    /\ resched_flag' = [resched_flag EXCEPT ![c] = FALSE]
    /\ UNCHANGED <<procVars, sched_running, iflag, curr_proc, esp, prev>>

\* switch_to_proc() that leaves interrupts enabled.
SwitchToProcWithIF(c) ==
    /\ Go(c, "switch", "stack")
    /\ prev' = [prev EXCEPT ![c] = curr_proc[c]]
    /\ curr_proc' = [curr_proc EXCEPT ![c] = next[c]]
    /\ UNCHANGED <<procVars, sched_running, resched_flag, preempt_count, iflag, esp, next>>

\* The previous process is put back before its stack is left (the bug that
\* schedule_stress_test guards against).
SwitchToProcPutsPrev(c) ==
    /\ Go(c, "switch", "stack")
    /\ iflag' = [iflag EXCEPT ![c] = FALSE]
    /\ prev' = [prev EXCEPT ![c] = NoProc]
    /\ curr_proc' = [curr_proc EXCEPT ![c] = next[c]]
    /\ runq' = IF curr_proc[c] \in Procs THEN Append(runq, curr_proc[c]) ELSE runq
    /\ UNCHANGED <<state_flags, submitted, sched_running, resched_flag, preempt_count, esp, next>>

\* switch_to_proc(): clear IF, read curr_proc, then set it (and the address
\* space and the TSS stack with it).
SwitchToProc(c) ==
    /\ Go(c, "switch", "stack")
    /\ iflag' = [iflag EXCEPT ![c] = FALSE]
    /\ prev' = [prev EXCEPT ![c] = curr_proc[c]]
    /\ curr_proc' = [curr_proc EXCEPT ![c] = next[c]]
    /\ UNCHANGED <<procVars, sched_running, resched_flag, preempt_count, esp, next>>

\* do_context_switch(): save the stack pointer of curr, load that of next.
SwitchStack(c) ==
    /\ Go(c, "stack", "put_prev")
    /\ esp' = [esp EXCEPT ![c] = next[c]]
    /\ UNCHANGED <<procVars, sched_running, resched_flag, preempt_count, curr_proc, iflag, next, prev>>

\* sched_put_prev_proc() that forgets to test whether prev may still run.
PutPrevUnchecked(c) ==
    /\ Go(c, "put_prev", "finish")
    /\ runq' = IF prev[c] \notin {NoProc, idle_proc(c)} THEN Append(runq, prev[c]) ELSE runq
    /\ UNCHANGED <<state_flags, submitted, sched_running, resched_flag, preempt_count, iflag,
                   switchVars>>

\* sched_put_prev_proc() that never puts prev back.
PutPrevForgotten(c) ==
    /\ Go(c, "put_prev", "finish")
    /\ UNCHANGED <<procVars, sched_running, resched_flag, preempt_count, iflag, switchVars>>

\* sched_put_prev_proc(), now that nothing uses prev's stack anymore.
PutPrev(c) ==
    /\ Go(c, "put_prev", "finish")
    /\ IF prev[c] \notin {NoProc, idle_proc(c)} /\ proc_is_runnable(prev[c])
       THEN runq' = Append(runq, prev[c])
       ELSE UNCHANGED runq
    /\ UNCHANGED <<state_flags, submitted, sched_running, resched_flag, preempt_count, iflag,
                   switchVars>>

\* preempt_enable_no_resched(); sti; return to the code of the new stack.
FinishSwitch(c) ==
    /\ Go(c, "finish", "run")
    /\ PreemptEnable(c)
    /\ iflag' = [iflag EXCEPT ![c] = TRUE]
    /\ next' = [next EXCEPT ![c] = NoProc]
    /\ prev' = [prev EXCEPT ![c] = NoProc]
    /\ UNCHANGED <<procVars, sched_running, resched_flag, curr_proc, esp>>

-----------------------------------------------------------------------------
\* sched_tick(): the trivial scheduler asks for a reschedule at every tick, and
\* the handler's preempt_enable() performs it if the tick hit preemptible code.
\* Inside schedule() the handler's nested call returns at once, and a tick
\* before its first line is as if schedule() had been called after the tick.
Tick(c) ==
    /\ sched_running[c]
    /\ iflag[c]
    /\ resched_flag' = [resched_flag EXCEPT ![c] = TRUE]
    /\ pc' = [pc EXCEPT ![c] = AfterPreemptEnable(c, preempt_count[c])]
    /\ UNCHANGED <<procVars, sched_running, preempt_count, iflag, switchVars>>

\* sched_resched(), by any kernel code.
Resched(c) ==
    /\ pc[c] = "run"
    /\ resched_flag' = [resched_flag EXCEPT ![c] = TRUE]
    /\ pc' = [pc EXCEPT ![c] = AfterPreemptEnable(c, preempt_count[c])]
    /\ UNCHANGED <<procVars, sched_running, preempt_count, iflag, switchVars>>

\* Kernel code that only calls schedule(), or that disables and enables
\* preemption around an access to a per-cpu variable.
CallSchedule(c) ==
    /\ Go(c, "run", "schedule")
    /\ UNCHANGED <<procVars, sched_running, resched_flag, preempt_count, iflag, switchVars>>

\* preempt_disable() by kernel code.
DisablePreemption(c) ==
    /\ pc[c] = "run"
    /\ preempt_count[c] < MaxPreempt
    /\ PreemptDisable(c)
    /\ UNCHANGED <<procVars, sched_running, resched_flag, iflag, pc, switchVars>>

\* The matching preempt_enable().
EnablePreemption(c) ==
    /\ pc[c] = "run"
    /\ preempt_count[c] > 0
    /\ PreemptEnable(c)
    /\ pc' = [pc EXCEPT ![c] = AfterPreemptEnable(c, preempt_count[c] - 1)]
    /\ UNCHANGED <<procVars, sched_running, resched_flag, iflag, switchVars>>

\* Kernel code that clears IF (a spinlock, the end of an interrupt handler)...
DisableInterrupts(c) ==
    /\ pc[c] = "run"
    /\ iflag[c]
    /\ iflag' = [iflag EXCEPT ![c] = FALSE]
    /\ UNCHANGED <<procVars, sched_running, resched_flag, preempt_count, pc, switchVars>>

\* ...and sets it again.
EnableInterrupts(c) ==
    /\ pc[c] = "run"
    /\ ~iflag[c]
    /\ iflag' = [iflag EXCEPT ![c] = TRUE]
    /\ UNCHANGED <<procVars, sched_running, resched_flag, preempt_count, pc, switchVars>>

\* sched_enqueue_proc() of a process the scheduler does not have.
EnqueueProc(c, p) ==
    /\ pc[c] \in {"boot", "run"}
    /\ p \notin submitted
    /\ proc_is_runnable(p)
    /\ runq' = Append(runq, p)
    /\ submitted' = submitted \cup {p}
    /\ pc' = [pc EXCEPT ![c] = AfterPreemptEnable(c, preempt_count[c])]
    /\ UNCHANGED <<state_flags, sched_running, resched_flag, preempt_count, iflag, switchVars>>

\* sched_dequeue_proc() of a process that is in RUNQUEUE, as ts_dequeue_proc()
\* asserts.
DequeueProc(c, p) ==
    /\ pc[c] \in {"boot", "run"}
    /\ \E i \in 1 .. Len(runq) :
          /\ runq[i] = p
          /\ runq' = SubSeq(runq, 1, i - 1) \o SubSeq(runq, i + 1, Len(runq))
    /\ submitted' = submitted \ {p}
    /\ pc' = [pc EXCEPT ![c] = AfterPreemptEnable(c, preempt_count[c])]
    /\ UNCHANGED <<state_flags, sched_running, resched_flag, preempt_count, iflag, switchVars>>

\* do_exit() of the process that runs on c: it marks curr_proc and returns.
Exit(c) ==
    /\ pc[c] = "run"
    /\ curr_proc[c] \in Procs
    /\ state_flags' = [state_flags EXCEPT ![curr_proc[c]] = "dead"]
    /\ UNCHANGED <<runq, submitted, sched_running, resched_flag, preempt_count, iflag, pc,
                   switchVars>>

\* The scheduler's own steps.
SchedStep(c) ==
    \/ EnterSchedule(c) \/ CheckResched(c) \/ PickNext(c) \/ ClearResched(c)
    \/ SwitchToProc(c) \/ SwitchStack(c) \/ PutPrev(c) \/ FinishSwitch(c)

\* The steps of the code that the scheduler schedules.
RunStep(c) ==
    \/ Resched(c) \/ CallSchedule(c) \/ DisablePreemption(c) \/ EnablePreemption(c)
    \/ DisableInterrupts(c) \/ EnableInterrupts(c) \/ Exit(c)
    \/ \E p \in Procs : EnqueueProc(c, p) \/ DequeueProc(c, p)

Next == \E c \in Cpus : SchedStart(c) \/ SchedStep(c) \/ Tick(c) \/ RunStep(c)

Spec == Init /\ [][Next]_vars

-----------------------------------------------------------------------------
\* A tick that hits preemptible code outside the scheduler.
PreemptingTick(c) == pc[c] = "run" /\ preemptible(c) /\ Tick(c)

(***************************************************************************)
(* The scheduler runs on as long as its cpu does; every cpu starts its     *)
(* scheduler; code does not stay non-preemptible for ever; and the         *)
(* periodic timer does not miss every single moment in which the code it   *)
(* interrupts is preemptible.                                              *)
(***************************************************************************)
FairSpec ==
    /\ Spec
    /\ \A c \in Cpus :
          /\ WF_vars(SchedStart(c))
          /\ WF_vars(SchedStep(c))
          /\ []<>(pc[c] = "run" /\ preemptible(c))
          /\ SF_vars(PreemptingTick(c))

-----------------------------------------------------------------------------
\* The processes in RUNQUEUE.
Queued == {runq[i] : i \in 1 .. Len(runq)}

QueuedOnce == \A i, j \in 1 .. Len(runq) : runq[i] = runq[j] => i = j

\* Cpu c has p in hand: it executes on p's stack, is about to, or has just left
\* it and not yet put p back.
Holds(c, p) ==
    \/ esp[c] = p
    \/ pc[c] \in {"picked", "switch", "stack"} /\ next[c] = p
    \/ pc[c] = "put_prev" /\ prev[c] = p

\* No two cpus execute on the same kernel stack: sched_put_prev_proc() offers a
\* process to the other cpus only after do_context_switch() has left its stack.
StackExclusive ==
    \A c, d \in Cpus : c # d /\ esp[c] # NoProc => esp[c] # esp[d]

\* A process is in one place: at most once in RUNQUEUE or in the hands of one
\* cpu, and what is in RUNQUEUE is a process that may be picked.
OnePlace ==
    /\ QueuedOnce
    /\ \A p \in Procs : \A c, d \in Cpus : Holds(c, p) /\ Holds(d, p) => c = d
    /\ \A p \in Queued : state_flags[p] = "runnable" /\ \A c \in Cpus : ~Holds(c, p)

\* No runnable process is forgotten, whatever the point at which the ticks, the
\* exits and the context switches of several cpus interleave.
NoProcessLost ==
    \A p \in submitted :
        state_flags[p] = "runnable" => p \in Queued \/ \E c \in Cpus : Holds(c, p)

\* Whenever a cpu can be interrupted its curr_proc is the process whose stack it
\* executes on (switch_to_proc(): "an interrupt could see an inconsistent state").
CurrProcConsistent == \A c \in Cpus : iflag[c] => curr_proc[c] = esp[c]

\* Code that has disabled preemption, or interrupts, is not switched out: inside
\* schedule() the only preempt_disable() in force is schedule()'s own, and
\* the preempt_count assertion of do_preempt_enable() holds.
SwitchOnlyPreemptible == \A c \in Cpus : pc[c] \in InSchedule => preempt_count[c] = 1

\* schedule() asserts that what it picked is runnable, and at its end that
\* interrupts are enabled and the cpu preemptible.
ScheduleAssertions ==
    [][\A c \in Cpus :
          /\ pc[c] = "picked" => proc_is_runnable(next[c])
          /\ pc[c] \in InSchedule /\ pc'[c] = "run" => iflag'[c] /\ preempt_count'[c] = 0]_vars

\* Every process in RUNQUEUE gets a cpu, or is withdrawn.
WaitingProcessRuns ==
    \A p \in Procs : p \in Queued ~> p \notin submitted \/ \E c \in Cpus : esp[c] = p

\* A process that exited is never switched to again: once a cpu has left its
\* stack no cpu executes on it.
DeadNeverResumed ==
    [][\A c \in Cpus, p \in Procs : state_flags[p] = "dead" /\ esp'[c] = p => esp[c] = p]_vars

=============================================================================
