--------------------------------- MODULE Ipm ---------------------------------
(***************************************************************************)
(* Inter-processor messages (ipm.c): remote calls, TLB shootdowns, and the *)
(* interrupt handler that processes the messages of a cpu.                 *)
(*                                                                         *)
(* The code of a kernel stack is a stack of frames: a call of              *)
(* exec_tlb_shootdown(), exec_remote_call() or broadcast_remote_call(), or *)
(* an activation of the IPM interrupt handler, which runs on top of        *)
(* whatever it interrupted.  Objects with an address are where the code    *)
(* puts them: the message and the atomic_t of a shootdown live in its      *)
(* frame, <<task, depth>>; the remote_call_data is allocated.  The queues  *)
(* are only used under message_queue_lock, so their operations are atomic. *)
(*                                                                         *)
(* At the base of a stack IF is set; an operation may be called with IF    *)
(* clear (TlbIF, CallIF).  Allocations and remote functions may map pages, *)
(* so that handlers execute shootdowns of their own.                       *)
(***************************************************************************)
EXTENDS Naturals, Sequences, FiniteSets

CONSTANTS
    NCpus,          \* number of cpus
    Procs,          \* the processes that use IPMs
    Kinds,          \* what they do: subset of {"tlb", "call", "broadcast"}
    TlbIF, CallIF,  \* IF at the call of a shootdown, of a waiting remote call
    Preemption,     \* can preemptible code be switched out, and migrate?
    NeverReturns,   \* are there asynchronous remote functions that never return?
    MaxOps,         \* bound: operations per process
    MaxNested       \* bound: shootdowns executed by handlers

Cpus == 0 .. NCpus - 1

\* c is also the idle process of cpu c.
Tasks == Procs \cup Cpus

CallIds == Procs \X (1 .. MaxOps)

ASSUME NCpusAssumption == NCpus \in Nat \ {0}
ASSUME ProcsAssumption == Procs \cap Cpus = {} /\ IsFiniteSet(Procs)
ASSUME KindsAssumption == Kinds \subseteq {"tlb", "call", "broadcast"}
ASSUME FlagsAssumption ==
    TlbIF \subseteq BOOLEAN /\ CallIF \subseteq BOOLEAN /\ Preemption \in BOOLEAN /\ NeverReturns \in BOOLEAN
ASSUME BoundsAssumption == MaxOps \in Nat /\ MaxNested \in Nat

VARIABLES
    message_queue,  \* message_queue[c]
    pending,        \* pending[c]: IPM_VECTOR is pending in the LAPIC of c
    calls,          \* calls[id]: struct remote_call_data
    running,        \* running[c]: the task that cpu c executes
    stack,          \* stack[t]: the frames of task t
    iflag,          \* iflag[t]: the interrupt flag, as task t has it
    ops, nested     \* operations started so far (bounds)

vars == <<message_queue, pending, calls, running, stack, iflag, ops, nested>>

-----------------------------------------------------------------------------
\* A remote_call_data; `executed` is the history of the cpus that ran func.
Call(refs, sync) ==
    [state |-> "live", ref_count |-> refs, is_synchronous |-> sync, completed_count |-> 0,
     executed |-> {}]

NoCall == [Call(0, FALSE) EXCEPT !.state = "none"]

\* Messages: the address of their data.
TlbMessage(t, d) == [tag |-> "tlb", data |-> <<t, d>>]
CallMessage(id) == [tag |-> "call", data |-> id]

\* A call of exec_tlb_shootdown() by paging_map_in() or paging_unmap_in(): cpu
\* and wait are its locals, `stale` the history of the cpus whose TLB has not
\* been flushed since the page tables changed.
TlbFrame == [fn |-> "tlb", at |-> "inval", cpu |-> 0, wait |-> 0, irqs |-> TRUE, stale |-> Cpus]

\* A call of exec_remote_call() (first to last = the cpu) or
\* broadcast_remote_call(); i is the loop variable of do_send_ipm().
CallFrame(id, first, last, broadcast) ==
    [fn |-> "call", at |-> "send", id |-> id, i |-> first, last |-> last, broadcast |-> broadcast]

\* An activation of generic_interrupt_handler() with vector IPM_VECTOR.
IrqFrame == [fn |-> "irq", at |-> "entry", msg |-> CallMessage(<<>>)]

depth(t) == Len(stack[t])

\* The frame that task t executes is of function fn, at `loc`, and t has a cpu.
At(t, fn, loc) ==
    /\ \E c \in Cpus : running[c] = t
    /\ stack[t] # <<>>
    /\ stack[t][depth(t)].fn = fn
    /\ stack[t][depth(t)].at = loc

Top(t) == stack[t][depth(t)]

cpu_id(t) == CHOOSE c \in Cpus : running[c] = t

\* The stacks after task t has replaced its frame, called, or returned.
Update(t, frame) == [stack EXCEPT ![t][depth(t)] = frame]
Goto(t, loc) == [stack EXCEPT ![t][depth(t)].at = loc]
Push(t, frame) == [stack EXCEPT ![t] = Append(@, frame)]
Pop(t) == [stack EXCEPT ![t] = SubSeq(@, 1, Len(@) - 1)]

\* Stacks s after cpu c has flushed its TLB.
Flushed(s, c) ==
    [t \in Tasks |->
        [d \in 1 .. Len(s[t]) |->
            IF s[t][d].fn = "tlb" THEN [s[t][d] EXCEPT !.stale = @ \ {c}] ELSE s[t][d]]]

\* init_ipm(), and every process with a cpu as far as there are cpus.
Init ==
    /\ message_queue = [c \in Cpus |-> <<>>]
    /\ pending = [c \in Cpus |-> FALSE]
    /\ calls = [id \in CallIds |-> NoCall]
    /\ running \in {f \in [Cpus -> Tasks] :
          /\ \A c, d \in Cpus : c # d => f[c] # f[d]
          /\ \A c \in Cpus : f[c] \in Procs \cup {c}
          /\ Preemption \/ \A p \in Procs : \E c \in Cpus : f[c] = p}
    /\ stack = [t \in Tasks |-> <<>>]
    /\ iflag = [t \in Tasks |-> TRUE]
    /\ ops = [p \in Procs |-> 0]
    /\ nested = 0

-----------------------------------------------------------------------------
\* A process starts an operation with IF = b.
Begin(p, b) ==
    /\ \E c \in Cpus : running[c] = p
    /\ stack[p] = <<>>
    /\ ops[p] < MaxOps
    /\ ops' = [ops EXCEPT ![p] = @ + 1]
    /\ iflag' = [iflag EXCEPT ![p] = b]
    /\ UNCHANGED <<message_queue, pending, running, nested>>

\* The current frame of t returns; the code at the base runs with IF set.
Return(t, s) ==
    /\ stack' = s
    /\ iflag' = [iflag EXCEPT ![t] = @ \/ s[t] = <<>>]

\* paging_map_in() or paging_unmap_in() has changed a page table.
BeginShootdown(p) ==
    /\ "tlb" \in Kinds
    /\ \E b \in TlbIF : Begin(p, b)
    /\ stack' = Push(p, TlbFrame)
    /\ UNCHANGED calls

\* The same by kfree() or by the remote function, in a handler.
NestedShootdown(t) ==
    /\ "tlb" \in Kinds
    /\ nested < MaxNested
    /\ At(t, "irq", "call") \/ At(t, "irq", "func")
    /\ nested' = nested + 1
    /\ stack' = Push(t, TlbFrame)
    /\ UNCHANGED <<message_queue, pending, calls, running, iflag, ops>>

\* cpu_invalidate_tlb(); before the shootdown.
Invalidate(t) ==
    /\ At(t, "tlb", "inval")
    /\ stack' = Flushed(Goto(t, "next"), cpu_id(t))
    /\ UNCHANGED <<message_queue, pending, calls, running, iflag, ops, nested>>

\* The loop over the cpus skips the current one...
SkipSelf(t) ==
    /\ At(t, "tlb", "next")
    /\ Top(t).cpu < NCpus
    /\ Top(t).cpu = cpu_id(t)
    /\ stack' = Update(t, [Top(t) EXCEPT !.cpu = @ + 1])
    /\ UNCHANGED <<message_queue, pending, calls, running, iflag, ops, nested>>

\* ...for another one, atomic_init(&wait, 1), then enqueue_message(), which puts
\* a TLB_SHOOTDOWN at the head.
EnqueueTlb(t) ==
    /\ At(t, "tlb", "next")
    /\ Top(t).cpu < NCpus
    /\ Top(t).cpu # cpu_id(t)
    /\ message_queue' = [message_queue EXCEPT ![Top(t).cpu] = <<TlbMessage(t, depth(t))>> \o @]
    /\ stack' = Update(t, [Top(t) EXCEPT !.at = "ipi", !.wait = 1])
    /\ UNCHANGED <<pending, calls, running, iflag, ops, nested>>

\* The shootdown that leaves IF as it is while it waits.
SendTlbIpiKeepIF(t) ==
    /\ At(t, "tlb", "ipi")
    /\ pending' = [pending EXCEPT ![Top(t).cpu] = TRUE]
    /\ stack' = Update(t, [Top(t) EXCEPT !.at = "wait", !.irqs = iflag[t]])
    /\ UNCHANGED <<message_queue, calls, running, iflag, ops, nested>>

\* lapic_send_ipi(), then enable interrupts for the time of the wait.
SendTlbIpi(t) ==
    /\ At(t, "tlb", "ipi")
    /\ pending' = [pending EXCEPT ![Top(t).cpu] = TRUE]
    /\ stack' = Update(t, [Top(t) EXCEPT !.at = "wait", !.irqs = iflag[t]])
    /\ iflag' = [iflag EXCEPT ![t] = TRUE]
    /\ UNCHANGED <<message_queue, calls, running, ops, nested>>

\* Going on to the next cpu without waiting for the acknowledgement.
TlbAckedUnchecked(t) ==
    /\ At(t, "tlb", "wait")
    /\ stack' = Update(t, [Top(t) EXCEPT !.at = "next", !.cpu = @ + 1])
    /\ iflag' = [iflag EXCEPT ![t] = Top(t).irqs]
    /\ UNCHANGED <<message_queue, pending, calls, running, ops, nested>>

\* while (atomic_read(&wait)) ends; IF is restored; next cpu.
TlbAcked(t) ==
    /\ At(t, "tlb", "wait")
    /\ Top(t).wait = 0
    /\ stack' = Update(t, [Top(t) EXCEPT !.at = "next", !.cpu = @ + 1])
    /\ iflag' = [iflag EXCEPT ![t] = Top(t).irqs]
    /\ UNCHANGED <<message_queue, pending, calls, running, ops, nested>>

\* exec_tlb_shootdown() returns.
ShootdownReturns(t) ==
    /\ At(t, "tlb", "next")
    /\ Top(t).cpu = NCpus
    /\ Return(t, Pop(t))
    /\ UNCHANGED <<message_queue, pending, calls, running, ops, nested>>

-----------------------------------------------------------------------------
\* exec_remote_call(cpu, func, arg, wait)
BeginCall(p) ==
    /\ "call" \in Kinds
    /\ \E c \in Cpus, wait \in BOOLEAN :
          LET id == <<p, ops[p] + 1>> IN
          /\ \E b \in (IF wait THEN CallIF ELSE BOOLEAN) : Begin(p, b)
          /\ calls' = [calls EXCEPT ![id] = Call(IF wait THEN 2 ELSE 1, wait)]
          /\ stack' = Push(p, CallFrame(id, c, c, FALSE))

\* broadcast_remote_call() that forgets the sender's own reference.
BeginBroadcastOneLess(p) ==
    /\ "broadcast" \in Kinds
    /\ \E wait \in BOOLEAN :
          LET id == <<p, ops[p] + 1>> IN
          /\ \E b \in (IF wait THEN CallIF ELSE BOOLEAN) : Begin(p, b)
          /\ calls' = [calls EXCEPT ![id] = Call(NCpus - 1, wait)]
          /\ stack' = Push(p, CallFrame(id, 0, NCpus - 1, TRUE))

\* broadcast_remote_call(func, arg, wait)
BeginBroadcast(p) ==
    /\ "broadcast" \in Kinds
    /\ \E wait \in BOOLEAN :
          LET id == <<p, ops[p] + 1>> IN
          /\ \E b \in (IF wait THEN CallIF ELSE BOOLEAN) : Begin(p, b)
          /\ calls' = [calls EXCEPT ![id] = Call(NCpus - (IF wait THEN 0 ELSE 1), wait)]
          /\ stack' = Push(p, CallFrame(id, 0, NCpus - 1, TRUE))

\* One iteration of the loop of do_send_ipm(): enqueue_message() at the tail,
\* unless this is a broadcast and the cpu is the current one.
SendMessage(t) ==
    /\ At(t, "call", "send")
    /\ Top(t).i <= Top(t).last
    /\ stack' = Update(t, [Top(t) EXCEPT !.i = @ + 1])
    /\ message_queue' = IF Top(t).broadcast /\ Top(t).i = cpu_id(t)
                        THEN message_queue
                        ELSE [message_queue EXCEPT ![Top(t).i] = Append(@, CallMessage(Top(t).id))]
    /\ UNCHANGED <<pending, calls, running, iflag, ops, nested>>

\* The cpus that lapic_send_ipi() of frame f, executed on cpu c, addresses.
Destinations(f, c) == IF f.broadcast THEN Cpus \ {c} ELSE {f.last}

\* lapic_send_ipi(); exec_remote_call() returns unless it waits.
SendCallIpi(t) ==
    /\ At(t, "call", "send")
    /\ Top(t).i > Top(t).last
    /\ pending' = [c \in Cpus |-> pending[c] \/ c \in Destinations(Top(t), cpu_id(t))]
    /\ IF calls[Top(t).id].is_synchronous
       THEN stack' = Goto(t, "wait") /\ UNCHANGED iflag
       ELSE Return(t, Pop(t))
    /\ UNCHANGED <<message_queue, calls, running, ops, nested>>

\* How many completions the sender with frame f waits for.
Awaited(f) == IF f.broadcast THEN NCpus - 1 ELSE 1

\* The wait ends, the sender frees the remote_call_data and returns.
CallReturns(t) ==
    /\ At(t, "call", "wait")
    /\ calls[Top(t).id].completed_count = Awaited(Top(t))
    /\ calls' = [calls EXCEPT ![Top(t).id].state = "freed"]
    /\ Return(t, Pop(t))
    /\ UNCHANGED <<message_queue, pending, running, ops, nested>>

-----------------------------------------------------------------------------
\* The IPI is delivered to cpu c: lapic_eoi(); cpu_set_interrupt_flag(true);
Interrupt(c) ==
    /\ pending[c]
    /\ iflag[running[c]]
    /\ pending' = [pending EXCEPT ![c] = FALSE]
    /\ stack' = Push(running[c], IrqFrame)
    /\ UNCHANGED <<message_queue, calls, running, iflag, ops, nested>>

\* get_callback() returns ipm_handler, which disables preemption.
EnterHandler(t) ==
    /\ At(t, "irq", "entry")
    /\ stack' = Goto(t, "loop")
    /\ UNCHANGED <<message_queue, pending, calls, running, iflag, ops, nested>>

\* process_messages(): remove the first message of this cpu's queue.
TakeMessage(t) ==
    /\ At(t, "irq", "loop")
    /\ message_queue[cpu_id(t)] # <<>>
    /\ message_queue' = [message_queue EXCEPT ![cpu_id(t)] = Tail(@)]
    /\ stack' = Update(t, [Top(t) EXCEPT !.at = "copy", !.msg = Head(message_queue[cpu_id(t)])])
    /\ UNCHANGED <<pending, calls, running, iflag, ops, nested>>

\* process_messages() that handles one message per interrupt.
LeaveHandlerEarly(t) ==
    /\ At(t, "irq", "loop")
    /\ stack' = Goto(t, "exit")
    /\ UNCHANGED <<message_queue, pending, calls, running, iflag, ops, nested>>

\* The queue is empty: preempt_enable() and return to generic_interrupt_handler().
LeaveHandler(t) ==
    /\ At(t, "irq", "loop")
    /\ message_queue[cpu_id(t)] = <<>>
    /\ stack' = Goto(t, "exit")
    /\ UNCHANGED <<message_queue, pending, calls, running, iflag, ops, nested>>

\* iret to the code that was interrupted, with IF set.
ReturnFromInterrupt(t) ==
    /\ At(t, "irq", "exit")
    /\ stack' = Pop(t)
    /\ UNCHANGED <<message_queue, pending, calls, running, iflag, ops, nested>>

\* memcpy(&msg, first); kfree(first) if it was allocated; switch (msg.tag)
CopyMessage(t) ==
    /\ At(t, "irq", "copy")
    /\ stack' = Goto(t, IF Top(t).msg.tag = "tlb" THEN "flush" ELSE "call")
    /\ UNCHANGED <<message_queue, pending, calls, running, iflag, ops, nested>>

\* The acknowledgement before the flush.
FlushTlbLate(t) ==
    /\ At(t, "irq", "flush")
    /\ stack' = Goto(t, "ack")
    /\ UNCHANGED <<message_queue, pending, calls, running, iflag, ops, nested>>

\* TLB_SHOOTDOWN: cpu_invalidate_tlb();
FlushTlb(t) ==
    /\ At(t, "irq", "flush")
    /\ stack' = Flushed(Goto(t, "ack"), cpu_id(t))
    /\ UNCHANGED <<message_queue, pending, calls, running, iflag, ops, nested>>

\* atomic_dec(wait), the last access to the sender's frame.
AckTlb(t) ==
    /\ At(t, "irq", "ack")
    /\ LET p == Top(t).msg.data
       IN  stack' = [Goto(t, "loop") EXCEPT ![p[1]][p[2]].wait = @ - 1]
    /\ UNCHANGED <<message_queue, pending, calls, running, iflag, ops, nested>>

\* handle_remote_call(): an asynchronous call is copied and its reference
\* dropped before func is called, with interrupts enabled.
StartCall(t) ==
    LET id == Top(t).msg.data IN
    /\ At(t, "irq", "call")
    /\ IF calls[id].is_synchronous
       THEN calls' = [calls EXCEPT ![id].executed = @ \cup {cpu_id(t)}]
       ELSE calls' = [calls EXCEPT ![id].executed = @ \cup {cpu_id(t)},
                                   ![id].ref_count = @ - 1,
                                   ![id].state = IF calls[id].ref_count = 1 THEN "freed" ELSE @]
    /\ stack' = Goto(t, "func")
    /\ UNCHANGED <<message_queue, pending, running, iflag, ops, nested>>

\* handle_remote_call() that notifies the completion before it drops its
\* reference.
FuncReturnsSwapped(t) ==
    LET id == Top(t).msg.data IN
    /\ At(t, "irq", "func")
    /\ IF calls[id].is_synchronous
       THEN /\ calls' = [calls EXCEPT ![id].completed_count = @ + 1]
            /\ stack' = Goto(t, "complete")
       ELSE stack' = Goto(t, "loop") /\ UNCHANGED calls
    /\ UNCHANGED <<message_queue, pending, running, iflag, ops, nested>>

\* func returns; a synchronous call drops its reference...
FuncReturns(t) ==
    LET id == Top(t).msg.data IN
    /\ At(t, "irq", "func")
    /\ IF calls[id].is_synchronous
       THEN /\ calls' = [calls EXCEPT ![id].ref_count = @ - 1]
            /\ stack' = Goto(t, "complete")
       ELSE stack' = Goto(t, "loop") /\ UNCHANGED calls
    /\ UNCHANGED <<message_queue, pending, running, iflag, ops, nested>>

\* ...and then notifies the completion.
Complete(t) ==
    /\ At(t, "irq", "complete")
    /\ calls' = [calls EXCEPT ![Top(t).msg.data].completed_count = @ + 1]
    /\ stack' = Goto(t, "loop")
    /\ UNCHANGED <<message_queue, pending, running, iflag, ops, nested>>

\* An asynchronous func that never returns.
FuncLoops(t) ==
    /\ NeverReturns
    /\ At(t, "irq", "func")
    /\ ~calls[Top(t).msg.data].is_synchronous
    /\ stack' = Goto(t, "forever")
    /\ UNCHANGED <<message_queue, pending, calls, running, iflag, ops, nested>>

-----------------------------------------------------------------------------
\* preempt_count is 0 and IF set: ipm_handler has not started, or has ended.
preemptible(t) ==
    /\ iflag[t]
    /\ \A d \in 1 .. depth(t) : stack[t][d].fn = "irq" => stack[t][d].at \in {"entry", "exit"}

\* schedule() on cpu c: switch to a process that no cpu runs, or to idle;
\* switch_to_addr_space() loads CR3, which flushes the TLB.
Schedule(c) ==
    /\ Preemption
    /\ preemptible(running[c])
    /\ \E t \in Procs \cup {c} :
          /\ \A d \in Cpus : running[d] # t
          /\ running' = [running EXCEPT ![c] = t]
    /\ stack' = Flushed(stack, c)
    /\ UNCHANGED <<message_queue, pending, calls, iflag, ops, nested>>

\* The steps of code that runs.
Step(t) ==
    \/ Invalidate(t) \/ SkipSelf(t) \/ EnqueueTlb(t) \/ SendTlbIpi(t) \/ TlbAcked(t)
    \/ ShootdownReturns(t) \/ SendMessage(t) \/ SendCallIpi(t) \/ CallReturns(t)
    \/ EnterHandler(t) \/ TakeMessage(t) \/ LeaveHandler(t) \/ ReturnFromInterrupt(t)
    \/ CopyMessage(t) \/ FlushTlb(t) \/ AckTlb(t) \/ StartCall(t) \/ FuncReturns(t) \/ Complete(t)

Next ==
    \/ \E p \in Procs : BeginShootdown(p) \/ BeginCall(p) \/ BeginBroadcast(p)
    \/ \E t \in Tasks : Step(t) \/ NestedShootdown(t) \/ FuncLoops(t)
    \/ \E c \in Cpus : Interrupt(c) \/ Schedule(c)

Spec == Init /\ [][Next]_vars

\* Running code goes on (remote functions that return do so), and a cpu takes
\* the interrupts that its LAPIC holds once IF is set.
FairSpec ==
    /\ Spec
    /\ \A t \in Tasks : WF_vars(Step(t))
    /\ \A c \in Cpus : WF_vars(Interrupt(c))

-----------------------------------------------------------------------------
Locations == {
    "inval", "next", "ipi", "wait", "send",
    "entry", "loop", "copy", "flush", "ack", "call", "func", "complete", "forever", "exit"}

\* All the frames: where they are.
Frames == UNION {{t} \X (1 .. depth(t)) : t \in Tasks}

FrameAt(f) == stack[f[1]][f[2]]

\* The handlers that have taken a message and still use it.
Handling(locs) == {f \in Frames : FrameAt(f).fn = "irq" /\ FrameAt(f).at \in locs}

\* Where in the queues message m is.
Queued(m) ==
    UNION {{c} \X {i \in 1 .. Len(message_queue[c]) : message_queue[c][i] = m} : c \in Cpus}

\* The message of a shootdown, part of its stack frame, is in the hands of one
\* cpu, the one the shootdown is waiting for, or nowhere: the frame is neither
\* reinitialised nor left while a queue or a handler refers to it.
TlbMessageSafe ==
    /\ \A c \in Cpus : \A i \in 1 .. Len(message_queue[c]) :
          message_queue[c][i].tag = "tlb" =>
             LET p == message_queue[c][i].data IN
             /\ p \in Frames
             /\ FrameAt(p).fn = "tlb" /\ FrameAt(p).cpu = c
             /\ FrameAt(p).wait = 1 /\ FrameAt(p).at \in {"ipi", "wait"}
             /\ Queued(message_queue[c][i]) = {<<c, i>>}
    /\ \A f \in Handling({"copy", "flush", "ack"}) :
          FrameAt(f).msg.tag = "tlb" =>
             LET p == FrameAt(f).msg.data IN
             /\ p \in Frames
             /\ FrameAt(p).fn = "tlb" /\ FrameAt(p).wait = 1
             /\ Queued(FrameAt(f).msg) = {}
             /\ \A g \in Handling({"copy", "flush", "ack"}) : FrameAt(g).msg = FrameAt(f).msg => g = f

\* exec_tlb_shootdown() returns only when every cpu, the one it was called on
\* and the one it returns on included, has flushed its TLB since the caller
\* changed the page tables.
ShootdownComplete ==
    \A f \in Frames : FrameAt(f).fn = "tlb" /\ FrameAt(f).cpu = NCpus => FrameAt(f).stale = {}

\* References to call id: messages in queues, messages taken by a handler that
\* has not given its reference back, messages not sent yet, and a sender that
\* waits.
References(id) ==
    LET taken == {"copy", "call"} \cup (IF calls[id].is_synchronous THEN {"func"} ELSE {})
        unsent(f) == {i \in FrameAt(f).i .. FrameAt(f).last : FrameAt(f).broadcast => i # cpu_id(f[1])}
        senders == {f \in Frames : FrameAt(f).fn = "call" /\ FrameAt(f).id = id}
    IN  Cardinality(Queued(CallMessage(id)))
        + Cardinality({f \in Handling(taken) : FrameAt(f).msg = CallMessage(id)})
        + Cardinality({x \in senders \X Cpus : FrameAt(x[1]).at = "send" /\ x[2] \in unsent(x[1])})
        + (IF calls[id].is_synchronous THEN Cardinality(senders) ELSE 0)

\* ref_count counts the references, so that the remote_call_data is freed by its
\* last user and by nobody before ("Try to exec with ref_count = 0" cannot
\* happen, nor can the assertion in handle_remote_call() fail), and is not leaked.
RefCountExact ==
    \A id \in CallIds :
        /\ calls[id].state = "live" => calls[id].ref_count = References(id) /\ References(id) > 0
        /\ calls[id].state # "live" => References(id) = 0

\* A synchronous remote call returns only when every cpu it addresses has run
\* func, and then ref_count == 1 as the sender asserts.
SyncCallDone ==
    \A f \in Frames :
        LET call == calls[FrameAt(f).id] IN
        FrameAt(f).fn = "call" /\ FrameAt(f).at = "wait" /\ call.completed_count = Awaited(FrameAt(f)) =>
            /\ call.ref_count = 1
            /\ call.executed = Destinations(FrameAt(f), cpu_id(f[1]))

\* A message in a queue is noticed: an IPI is pending or still to be sent, or a
\* handler that is not on another cpu will look at the queue again ("some IPIs
\* may be dropped but the remote cpu will recieve at least one, which is enough
\* anyway").
MessagesNoticed ==
    \A c \in Cpus :
        message_queue[c] # <<>> =>
            \/ pending[c]
            \/ \E f \in Handling(Locations \ {"exit", "forever"}) : \A d \in Cpus \ {c} : running[d] # f[1]
            \/ \E f \in Frames : FrameAt(f).fn = "tlb" /\ FrameAt(f).at = "ipi" /\ FrameAt(f).cpu = c
            \/ \E f \in Frames : FrameAt(f).fn = "call" /\ FrameAt(f).at = "send"
                                    /\ c \in Destinations(FrameAt(f), cpu_id(f[1]))

\* Every operation returns: shootdowns of several cpus, from any context and
\* whatever their IF, do not wait for one another in a circle, and no
\* acknowledgement or completion is lost.
OperationsReturn == \A p \in Procs : stack[p] # <<>> ~> stack[p] = <<>>
=============================================================================
