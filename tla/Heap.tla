-------------------------------- MODULE Heap --------------------------------
(***************************************************************************)
(* The kernel heap at work (kmalloc.c) with the frame allocator under it   *)
(* and the error descriptors beside it (error.c): threads that allocate    *)
(* and free memory and frames, run out of both, and report errors.         *)
(*                                                                         *)
(* A thread is a stack of calls, the running one on top.  A critical       *)
(* section is one step, except where the code reports an error inside it:  *)
(* SET_ERROR() may call kmalloc(), so `held` says which locks are held     *)
(* then.  do_kmalloc() and do_kfree() drop KMALLOC_LOCK around the work on *)
(* pages, and threads with interrupts enabled are preempted between any    *)
(* two steps; there is one run queue, so they may resume on another cpu.   *)
(*                                                                         *)
(* paging_map_frames_above() and paging_unmap_and_free_frames() are used   *)
(* as Paging promises them: the first hole of the kernel's pages.          *)
(***************************************************************************)
EXTENDS Kmalloc, FrameAlloc, SequencesExt

CONSTANTS
    Threads, Cpus,
    None,           \* no thread, no page
    Frames,         \* number of physical frames
    Reserved,       \* the frames that boot left in use
    KPages,         \* number of kernel pages the heap can map
    Sizes,          \* sizes that are requested, in words
    ErrSize,        \* sizeof(struct error_desc)
    NUM_STATIC,     \* number of statically allocated error descriptors of a cpu
    Wrap,           \* kmalloc_nest_level wraps here (2^32 in the code)
    Live,           \* numbers of allocations that exist at the start
    MaxOps          \* bound: operations in a behaviour

ASSUME HeapAssumption ==
    /\ Reserved \subseteq 0 .. Frames - 1
    /\ Sizes \subseteq Nat \ {0}
    /\ LOW_MEM_MAX_IDX < Frames
    /\ Wrap > Cardinality(Threads)
    /\ \A n \in Live : n * NODE <= PAGE - GROUP

VARIABLES
    bm,         \* FRAME_BITMAP
    oom,        \* OOM_SIMULATION, KMALLOC_OOM_SIMULATION
    groups,     \* GROUP_LIST
    page,       \* page[p]: the frame that kernel page p is mapped to, or NO_FRAME
    held,       \* held[l]: the thread that holds lock l while it reports an error
    nest,       \* nest[c]: kmalloc_nest_level
    err,        \* err[c]: the error list of cpu c and the active static descriptors
    cpu,        \* cpu[t]: where thread t runs
    stack,      \* stack[t]: its calls
    own,        \* own[t]: the allocations and frames it uses
    ops,        \* operations started so far (bound)
    panic       \* an ASSERT or a PANIC stopped the machine

vars == <<bm, oom, groups, page, held, nest, err, cpu, stack, own, ops, panic>>

Locks == {"kmalloc", "frame", "space"}

StaticDescs == -1 - NUM_STATIC .. -2

-----------------------------------------------------------------------------
\* Calls.  `code` and `lock` of a SET_ERROR(): the error code, and the lock
\* its caller holds and releases after it.
Kmalloc_(size) == [op |-> "kmalloc", pc |-> "enter", size |-> size, frames |-> <<>>, base |-> None,
                   addr |-> NULL]
Kfree_(addr) == [op |-> "kfree", pc |-> "enter", addr |-> addr, frames |-> <<>>, base |-> None]
SetError_(code, lock) == [op |-> "seterr", pc |-> "enter", code |-> code, lock |-> lock, desc |-> NULL]
ClearError_ == [op |-> "clear", pc |-> "enter"]

Top(t) == stack[t][1]
Below(t) == Tail(stack[t])
At(t, op, pc) == stack[t] # <<>> /\ Top(t).op = op /\ Top(t).pc = pc

Goto(t, pc) == [stack EXCEPT ![t][1].pc = pc]
Pushed(s, t, f) == [s EXCEPT ![t] = <<f>> \o @]
Popped(t) == [stack EXCEPT ![t] = Tail(@)]

Holds(t) == \E l \in Locks : held[l] = t

\* SET_ERROR() and CLEAR_ERROR() run with interrupts disabled, and so does the
\* holder of a spinlock.
IrqsOff(t) == Holds(t) \/ \E i \in DOMAIN stack[t] : stack[t][i].op \in {"seterr", "clear"} /\ stack[t][i].pc # "enter"

CanRun(t) == ~panic /\ \A u \in Threads \ {t} : cpu[u] = cpu[t] => ~IrqsOff(u)

Free(l, t) == held[l] \in {None, t}

BootBitmap == [size |-> Frames, free |-> Frames - Cardinality(Reserved), avail |-> (0 .. Frames - 1) \ Reserved]

\* A group after n calls of kmalloc(MIN_SIZE).
Filled[n \in Nat] ==
    IF n = 0 THEN create_group(0, 1) ELSE kmalloc_in_group(Filled[n - 1], MIN_SIZE).group

Allocate(f, n, t) ==
    {[addr |-> node_data_start(create_group(0, 1), GROUP + (i - 1) * NODE), size |-> MIN_SIZE] :
        i \in {j \in 1 .. n : f[j] = t}}

\* The heap is empty, or has a group with n allocations of the threads.
Init ==
    \E n \in Live : \E f \in [1 .. n -> Threads] :
    LET first == IF n = 0 THEN NO_FRAME ELSE do_allocation(BootBitmap, FALSE) IN
    /\ bm = Allocated(BootBitmap, first)
    /\ oom = [frame |-> FALSE, kmalloc |-> FALSE]
    /\ groups = IF n = 0 THEN <<>> ELSE <<Filled[n]>>
    /\ page = [p \in 0 .. KPages - 1 |-> IF p = 0 THEN first ELSE NO_FRAME]
    /\ held = [l \in Locks |-> None]
    /\ nest = [c \in Cpus |-> 0]
    /\ err = [c \in Cpus |-> [list |-> <<>>, active |-> {}]]
    /\ cpu \in [Threads -> Cpus]
    /\ stack = [t \in Threads |-> <<>>]
    /\ own = [t \in Threads |-> [allocs |-> Allocate(f, n, t), frames |-> {}]]
    /\ ops = 0
    /\ panic = FALSE

Panic == panic' = TRUE /\ UNCHANGED <<bm, oom, groups, page, held, nest, err, cpu, stack, own, ops>>

-----------------------------------------------------------------------------
(* What threads call. *)

\* kfree() and free_frame() are given what the thread owns.  The simulation of
\* memory shortage is switched on and off between operations, by the tests.
Request(t) ==
    \/ \E k \in DOMAIN oom : oom' = [oom EXCEPT ![k] = ~@] /\ UNCHANGED <<stack, own>>
    \/ /\ UNCHANGED oom
       /\ \E s \in Sizes : stack' = Pushed(stack, t, Kmalloc_(s)) /\ UNCHANGED own
    \/ \E a \in own[t].allocs : /\ UNCHANGED oom
                                /\ stack' = Pushed(stack, t, Kfree_(a.addr))
                                /\ own' = [own EXCEPT ![t].allocs = @ \ {a}]
    \/ UNCHANGED oom /\ err[cpu[t]].list # <<>> /\ stack' = Pushed(stack, t, ClearError_) /\ UNCHANGED own

StartOp(t) ==
    /\ CanRun(t) /\ stack[t] = <<>> /\ ops < MaxOps
    /\ Request(t)
    /\ ops' = ops + 1
    /\ UNCHANGED <<bm, groups, page, held, nest, err, cpu, panic>>

\* alloc_frame() called directly.  The callers report a failure with ENONE
\* after do_allocation() reported ENOMEM; the latter holds FRAME_ALLOC_LOCK
\* unless the failure is simulated.
Failed(t, s) ==
    IF oom.frame THEN stack' = Pushed(s, t, SetError_("ENOMEM", None)) /\ UNCHANGED held
    ELSE stack' = Pushed(s, t, SetError_("ENOMEM", "frame")) /\ held' = [held EXCEPT !["frame"] = t]

AllocFrame(t, low_mem) ==
    /\ CanRun(t) /\ stack[t] = <<>> /\ ops < MaxOps /\ held["frame"] = None
    /\ IF ~oom.frame /\ AllocationTraps(bm, low_mem) THEN Panic
       ELSE LET f == IF oom.frame THEN NO_FRAME ELSE do_allocation(bm, low_mem) IN
            /\ bm' = Allocated(bm, f)
            /\ IF f = NO_FRAME
               THEN Failed(t, Pushed(stack, t, SetError_("ENONE", None))) /\ UNCHANGED own
               ELSE own' = [own EXCEPT ![t].frames = @ \cup {f}] /\ UNCHANGED <<stack, held>>
            /\ ops' = ops + 1
            /\ UNCHANGED <<oom, groups, page, nest, err, cpu, panic>>

FreeFrame(t) ==
    /\ CanRun(t) /\ stack[t] = <<>> /\ held["frame"] = None
    /\ \E f \in own[t].frames :
         IF DoubleFree(bm, f) THEN Panic
         ELSE /\ bm' = free_frame(bm, f)
              /\ own' = [own EXCEPT ![t].frames = @ \ {f}]
              /\ UNCHANGED <<oom, groups, page, held, nest, err, cpu, stack, ops, panic>>

-----------------------------------------------------------------------------
(* kmalloc() *)

\* kmalloc() returns to SET_ERROR(), or to a thread that reports a failure.
Returned(t, addr, size) ==
    IF Below(t) # <<>>
    THEN /\ stack' = [stack EXCEPT ![t] = <<[Head(Tail(@)) EXCEPT !.pc = "leave", !.desc = addr]>>
                                          \o Tail(Tail(@))]
         /\ UNCHANGED own
    ELSE IF addr = NULL
    THEN stack' = [stack EXCEPT ![t] = <<SetError_("ENONE", None)>>] /\ UNCHANGED own
    ELSE /\ stack' = Popped(t)
         /\ own' = [own EXCEPT ![t].allocs = @ \cup {[addr |-> addr, size |-> size]}]

Nested(c, by) == [nest EXCEPT ![c] = (@ + by) % Wrap]

KmallocEnter(t) ==
    /\ CanRun(t) /\ At(t, "kmalloc", "enter") /\ held["kmalloc"] = None
    /\ LET r == try_allocation(groups, Top(t).size) IN
       \/ /\ oom.kmalloc
          /\ nest' = Nested(cpu[t], 1)
          /\ held' = [held EXCEPT !["kmalloc"] = t]
          /\ stack' = Pushed(Goto(t, "leave"), t, SetError_("ENOMEM", None))
          /\ UNCHANGED <<groups, own>>
       \/ /\ ~oom.kmalloc /\ r.addr # NULL
          /\ groups' = r.groups
          /\ Returned(t, r.addr, Top(t).size)
          /\ UNCHANGED <<nest, held>>
       \/ /\ ~oom.kmalloc /\ r.addr = NULL
          /\ nest' = Nested(cpu[t], 1)
          /\ stack' = Goto(t, "frames")
          /\ UNCHANGED <<groups, held, own>>
    /\ UNCHANGED <<bm, oom, page, err, cpu, ops, panic>>

\* create_group(): one alloc_frame() per page.
AllocGroupFrame(t) ==
    /\ CanRun(t) /\ At(t, "kmalloc", "frames") /\ Len(Top(t).frames) < PagesFor(Top(t).size)
    /\ held["frame"] = None
    /\ IF ~oom.frame /\ AllocationTraps(bm, FALSE) THEN Panic
       ELSE LET f == IF oom.frame THEN NO_FRAME ELSE do_allocation(bm, FALSE) IN
            /\ bm' = Allocated(bm, f)
            /\ IF f = NO_FRAME THEN Failed(t, Goto(t, "undo"))
               ELSE stack' = [stack EXCEPT ![t][1].frames = Append(@, f)] /\ UNCHANGED held
            /\ UNCHANGED <<oom, groups, page, nest, err, cpu, own, ops, panic>>

Holes(n) == {p \in DOMAIN page : p + n <= KPages /\ \A q \in p .. p + n - 1 : page[q] = NO_FRAME}

\* paging_map_frames_above() in the kernel's address space, then the new group
\* is initialised.
MapGroup(t) ==
    /\ CanRun(t) /\ At(t, "kmalloc", "frames") /\ Len(Top(t).frames) = PagesFor(Top(t).size)
    /\ held["space"] = None
    /\ LET n == PagesFor(Top(t).size)
           start == CHOOSE p \in Holes(n) : \A q \in Holes(n) : p <= q
       IN IF Holes(n) = {}
          THEN /\ stack' = Pushed(Goto(t, "undo"), t, SetError_("ENOMEM", "space"))
               /\ held' = [held EXCEPT !["space"] = t]
               /\ UNCHANGED page
          ELSE /\ page' = [p \in DOMAIN page |->
                             IF p \in start .. start + n - 1 THEN Top(t).frames[p - start + 1] ELSE page[p]]
               /\ stack' = [stack EXCEPT ![t][1].pc = "relock", ![t][1].base = start]
               /\ UNCHANGED held
    /\ UNCHANGED <<bm, oom, groups, nest, err, cpu, own, ops, panic>>

\* Mutant: the frames allocated before the failure are forgotten.
UndoNothing(t) ==
    /\ CanRun(t) /\ At(t, "kmalloc", "undo")
    /\ stack' = Pushed([Goto(t, "relock") EXCEPT ![t][1].frames = <<>>], t, SetError_("ENONE", None))
    /\ UNCHANGED <<bm, oom, groups, page, held, nest, err, cpu, own, ops, panic>>

\* The frames of a group that cannot be created are given back one by one.
UndoGroup(t) ==
    /\ CanRun(t) /\ At(t, "kmalloc", "undo")
    /\ IF Top(t).frames = <<>>
       THEN stack' = Pushed(Goto(t, "relock"), t, SetError_("ENONE", None)) /\ UNCHANGED bm
       ELSE /\ held["frame"] = None
            /\ bm' = free_frame(bm, Head(Top(t).frames))
            /\ stack' = [stack EXCEPT ![t][1].frames = Tail(@)]
    /\ UNCHANGED <<oom, groups, page, held, nest, err, cpu, own, ops, panic>>

\* do_kmalloc() takes the lock again and looks for room that appeared meanwhile.
Relock(t) ==
    /\ CanRun(t) /\ At(t, "kmalloc", "relock") /\ held["kmalloc"] = None
    /\ LET size == Top(t).size
           new  == create_group(Top(t).base, PagesFor(size))
           r    == try_allocation(groups, size)
           mine == kmalloc_in_group(new, size)
       IN \/ /\ Top(t).base = None
             /\ held' = [held EXCEPT !["kmalloc"] = t]
             /\ stack' = Pushed(Goto(t, "leave"), t, SetError_("ENONE", None))
             /\ UNCHANGED <<groups, nest, own, panic>>
          \/ /\ Top(t).base # None /\ r.addr # NULL
             /\ groups' = r.groups
             /\ stack' = [stack EXCEPT ![t][1].pc = "drop", ![t][1].addr = r.addr]
             /\ UNCHANGED <<held, nest, own, panic>>
          \/ /\ Top(t).base # None /\ r.addr = NULL /\ mine.addr # NULL
             /\ groups' = Append(groups, mine.group)
             /\ nest' = Nested(cpu[t], -1)
             /\ Returned(t, mine.addr, size)
             /\ UNCHANGED <<held, panic>>
          \/ /\ Top(t).base # None /\ r.addr = NULL /\ mine.addr = NULL
             /\ panic' = TRUE
             /\ UNCHANGED <<groups, held, nest, stack, own>>
    /\ UNCHANGED <<bm, oom, page, err, cpu, ops>>

KmallocLeave(t) ==
    /\ CanRun(t) /\ At(t, "kmalloc", "leave") /\ Free("kmalloc", t)
    /\ nest' = Nested(cpu[t], -1)
    /\ held' = [held EXCEPT !["kmalloc"] = None]
    /\ Returned(t, Top(t).addr, Top(t).size)
    /\ UNCHANGED <<bm, oom, groups, page, err, cpu, ops, panic>>

\* free_group() of the group of the call on top: under the lock of the kernel's
\* address space, page after page, each frame under FRAME_ALLOC_LOCK.
FreeGroup(t) ==
    /\ CanRun(t) /\ stack[t] # <<>> /\ Top(t).op \in {"kmalloc", "kfree"} /\ Top(t).pc = "drop"
    /\ Free("space", t) /\ held["frame"] = None
    /\ LET f == Head(Top(t).frames)
           last == Len(Top(t).frames) = 1
       IN IF DoubleFree(bm, f) THEN Panic
          ELSE /\ bm' = free_frame(bm, f)
               /\ page' = [page EXCEPT ![Top(t).base] = NO_FRAME]
               /\ held' = [held EXCEPT !["space"] = IF last THEN None ELSE t]
               /\ stack' = [stack EXCEPT ![t][1].frames = Tail(@), ![t][1].base = @ + 1,
                                         ![t][1].pc = IF last THEN "leave" ELSE "drop"]
               /\ UNCHANGED <<oom, groups, nest, err, cpu, own, ops, panic>>

-----------------------------------------------------------------------------
(* kfree() *)

KfreeEnter(t) ==
    /\ CanRun(t) /\ At(t, "kfree", "enter") /\ held["kmalloc"] = None
    /\ LET addr == Top(t).addr
           i == SelectInSeq(groups, LAMBDA g : addr_in_group(g, addr))
           g == kfree_in_group(groups[i], addr)
       IN \/ /\ i = 0 \/ ~IsAllocated(groups[i], addr)
             /\ panic' = TRUE
             /\ UNCHANGED <<groups, stack>>
          \/ /\ i # 0 /\ IsAllocated(groups[i], addr) /\ ~group_is_empty(g)
             /\ groups' = ReplaceAt(groups, i, g)
             /\ stack' = Popped(t)
             /\ UNCHANGED panic
          \/ /\ i # 0 /\ IsAllocated(groups[i], addr) /\ group_is_empty(g)
             /\ groups' = RemoveAt(groups, i)
             /\ stack' = [stack EXCEPT ![t][1].pc = "drop", ![t][1].base = g.base,
                            ![t][1].frames = [p \in 1 .. g.num_pages |-> page[g.base + p - 1]]]
             /\ UNCHANGED panic
    /\ UNCHANGED <<bm, oom, page, held, nest, err, cpu, own, ops>>

KfreeLeave(t) ==
    /\ CanRun(t) /\ At(t, "kfree", "leave") /\ held["kmalloc"] = None
    /\ stack' = Popped(t)
    /\ UNCHANGED <<bm, oom, groups, page, held, nest, err, cpu, own, ops, panic>>

-----------------------------------------------------------------------------
(* SET_ERROR() and CLEAR_ERROR() *)

\* ENONE stands for the code of the previous error.
TrueCode(c, code) == IF code = "ENONE" THEN Last(err[c].list).code ELSE code

Recorded(c, desc, code) == Append(err[c].list, [desc |-> desc, code |-> TrueCode(c, code)])

\* The lock that the caller holds while it reports is released on return.
Unlocked(lock) == IF lock = None THEN held ELSE [held EXCEPT ![lock] = None]

NoPrevious(c, code) == code = "ENONE" /\ err[c].list = <<>>

\* Mutant: the flag of a static descriptor is not looked at.
AnyStatic(c) == StaticDescs

\* The static descriptors of a cpu that are not active.
get_static_error_desc(c) == StaticDescs \ err[c].active

\* Inside kmalloc(), as the counter of the cpu tells, a static descriptor is
\* used, and the error is dropped if none is left; otherwise one is allocated.
SetError(t) ==
    /\ CanRun(t) /\ At(t, "seterr", "enter")
    /\ LET c == cpu[t]
           code == Top(t).code
           left == get_static_error_desc(c)
           d == CHOOSE x \in left : \A y \in left : x <= y
       IN \/ /\ nest[c] = 0
             /\ stack' = Pushed(Goto(t, "wait"), t, Kmalloc_(ErrSize))
             /\ UNCHANGED <<err, held, panic>>
          \/ /\ nest[c] > 0 /\ left = {}
             /\ stack' = Popped(t) /\ held' = Unlocked(Top(t).lock)
             /\ UNCHANGED <<err, panic>>
          \/ /\ nest[c] > 0 /\ left # {} /\ ~NoPrevious(c, code)
             /\ err' = [err EXCEPT ![c] = [list |-> Recorded(c, d, code), active |-> @.active \cup {d}]]
             /\ stack' = Popped(t) /\ held' = Unlocked(Top(t).lock)
             /\ UNCHANGED panic
          \/ /\ nest[c] > 0 /\ left # {} /\ NoPrevious(c, code)
             /\ panic' = TRUE
             /\ UNCHANGED <<err, stack, held>>
    /\ UNCHANGED <<bm, oom, groups, page, nest, cpu, own, ops>>

\* kmalloc() returned a descriptor or NULL.
SetErrorLeave(t) ==
    /\ CanRun(t) /\ At(t, "seterr", "leave")
    /\ LET c == cpu[t]
           desc == Top(t).desc
       IN \/ /\ desc = NULL \/ ~NoPrevious(c, Top(t).code)
             /\ err' = IF desc = NULL THEN err ELSE [err EXCEPT ![c].list = Recorded(c, desc, Top(t).code)]
             /\ stack' = Popped(t) /\ held' = Unlocked(Top(t).lock)
             /\ UNCHANGED panic
          \/ /\ desc # NULL /\ NoPrevious(c, Top(t).code)
             /\ panic' = TRUE
             /\ UNCHANGED <<err, stack, held>>
    /\ UNCHANGED <<bm, oom, groups, page, nest, cpu, own, ops>>

\* The list is flushed from its head; allocated descriptors are freed.
ClearError(t) ==
    /\ CanRun(t) /\ stack[t] # <<>> /\ Top(t).op = "clear"
    /\ LET c == cpu[t]
           first == Head(err[c].list)
       IN IF err[c].list = <<>>
          THEN stack' = Popped(t) /\ err' = [err EXCEPT ![c].active = {}]
          ELSE /\ err' = [err EXCEPT ![c].list = Tail(@)]
               /\ stack' = IF first.desc \in StaticDescs THEN Goto(t, "flush")
                           ELSE Pushed(Goto(t, "flush"), t, Kfree_(first.desc))
    /\ UNCHANGED <<bm, oom, groups, page, held, nest, cpu, own, ops, panic>>

-----------------------------------------------------------------------------
\* A thread that can be preempted continues on another cpu.  Where it is matters
\* only to the steps that use per-cpu variables.
Migrate(t) ==
    /\ CanRun(t) /\ stack[t] # <<>> /\ ~IrqsOff(t)
    /\ Top(t).op # "kfree" /\ Top(t).pc \in {"enter", "relock", "leave"}
    /\ \E c \in Cpus \ {cpu[t]} : cpu' = [cpu EXCEPT ![t] = c]
    /\ UNCHANGED <<bm, oom, groups, page, held, nest, err, stack, own, ops, panic>>

Next ==
    \E t \in Threads :
         \/ StartOp(t) \/ (\E low \in BOOLEAN : AllocFrame(t, low)) \/ FreeFrame(t) \/ Migrate(t)
         \/ KmallocEnter(t) \/ AllocGroupFrame(t) \/ MapGroup(t) \/ UndoGroup(t) \/ Relock(t)
         \/ KmallocLeave(t) \/ FreeGroup(t) \/ KfreeEnter(t) \/ KfreeLeave(t)
         \/ SetError(t) \/ SetErrorLeave(t) \/ ClearError(t)

Spec == Init /\ [][Next]_vars

-----------------------------------------------------------------------------
\* kmalloc(), kfree(): the nodes of every listed group tile its pages, its free
\* list is sorted and fully merged and its counter is exact, whatever
\* allocations and frees came before; and a group with nothing in it is not kept
\* in the list, so that its frames are always given back.
HeapTiled ==
    \A i \in DOMAIN groups :
        /\ WellFormed(groups[i])
        /\ ~group_is_empty(groups[i])
        /\ \A j \in DOMAIN groups \ {i} : groups[i].base + groups[i].num_pages <= groups[j].base
                                         \/ groups[j].base + groups[j].num_pages <= groups[i].base

\* The allocations that someone refers to: threads, error lists, and calls in
\* progress.  They are tagged, to be told apart when they are the same.
Owners ==
    UNION {{<<<<t, 0>>, a.addr, a.size>> : a \in own[t].allocs} : t \in Threads}
    \cup UNION {{<<<<c, i>>, err[c].list[i].desc, ErrSize>> :
                   i \in {j \in DOMAIN err[c].list : err[c].list[j].desc \notin StaticDescs}} : c \in Cpus}
    \cup UNION {{<<<<t, i>>, stack[t][i].addr, stack[t][i].size>> :
                   i \in {j \in DOMAIN stack[t] : stack[t][j].op = "kmalloc" /\ stack[t][j].addr # NULL}} : t \in Threads}
    \cup UNION {{<<<<t, i>>, stack[t][i].addr, 0>> :
                   i \in {j \in DOMAIN stack[t] : stack[t][j].op = "kfree" /\ stack[t][j].pc = "enter"}} : t \in Threads}
    \cup UNION {{<<<<t, i>>, stack[t][i].desc, ErrSize>> :
                   i \in {j \in DOMAIN stack[t] : stack[t][j].op = "seterr" /\ stack[t][j].desc # NULL}} : t \in Threads}

\* kmalloc() gives every caller memory of its own, of the size it asked for, in
\* a listed group, although the lock is dropped while groups are created and
\* freed; and the heap holds nothing that no one refers to.
\* kmalloc_total_allocated() is zero exactly when there is no allocation.
AllocationsOwned ==
    LET live == UNION {Allocations(groups[i]) : i \in DOMAIN groups} IN
    /\ \A o \in Owners : \E a \in live : a.addr = o[2] /\ a.size >= o[3]
    /\ \A o, p \in Owners : o[2] = p[2] => o = p
    /\ \A a \in live : \E o \in Owners : o[2] = a.addr
    /\ kmalloc_total_allocated(groups) = 0 <=> live = {}

Calls(t) == {i \in DOMAIN stack[t] : stack[t][i].op \in {"kmalloc", "kfree"}}

GroupFrames(g) == {page[p] : p \in g.base .. g.base + g.num_pages - 1}

\* alloc_frame(), create_group() and free_group(): a frame is in use exactly when
\* boot reserved it, a thread holds it, a group is made of it or a call in
\* progress will give it back, and never for two of them; the kernel pages mapped
\* are those of the groups; and frames_allocated() is exact.
FramesConserved ==
    LET held_by == {<<<<None, -1>>, Reserved>>}
                   \cup {<<<<t, 0>>, own[t].frames>> : t \in Threads}
                   \cup UNION {{<<<<t, i>>, ToSet(stack[t][i].frames)>> : i \in Calls(t)} : t \in Threads}
                   \cup {<<<<None, g.base>>, GroupFrames(g)>> : g \in ToSet(groups)}
        used == UNION {x[2] : x \in held_by}
    IN  /\ \A x, y \in held_by : x # y => x[2] \cap y[2] = {}
        /\ used = (0 .. Frames - 1) \ bm.avail
        /\ frames_allocated(bm) = Cardinality(used)

Static(c) == {i \in DOMAIN err[c].list : err[c].list[i].desc \in StaticDescs}

Clearing(c) == \E t \in Threads : cpu[t] = c /\ \E i \in DOMAIN stack[t] : stack[t][i].op = "clear" /\ stack[t][i].pc = "flush"

\* SET_ERROR(), CLEAR_ERROR(): a static descriptor is linked at most once and is
\* active while it is, so that it is not taken a second time; none stays active
\* without being linked; and every error in a list has a code of its own,
\* although threads are preempted and migrate between the error and the report
\* of their callers.
ErrorListSound ==
    \A c \in Cpus :
        /\ \A i, j \in Static(c) : err[c].list[i].desc = err[c].list[j].desc => i = j
        /\ {err[c].list[i].desc : i \in Static(c)} \subseteq err[c].active
        /\ ~Clearing(c) => err[c].active \subseteq {err[c].list[i].desc : i \in Static(c)}
        /\ \A i \in DOMAIN err[c].list : err[c].list[i].code # "ENONE"

=============================================================================
