------------------------------ MODULE Process ------------------------------
(***************************************************************************)
(* Address spaces and processes (addr_space.c, proc.c, elf.c) on the page  *)
(* tables of Paging: cpus that create, load, run and delete processes, and *)
(* map regions of the kernel's own, until frames run out.                  *)
(*                                                                         *)
(* A cpu executes one call at a time and is not preempted in it.  A step   *)
(* is what happens under one lock.  kmalloc() succeeds or fails (Heap      *)
(* models it), and its objects are kept in `heap`; error descriptors, pids *)
(* and the contents of pages are left out.                                 *)
(***************************************************************************)
EXTENDS Paging
LOCAL INSTANCE SequencesExt

CONSTANTS
    Procs,          \* process structures; one that is deleted is used again
    K,              \* the kernel's address space; a process's has its name
    Frames,         \* number of frames
    Image,          \* frames and pages of the kernel image
    Reserved,       \* frames of firmware tables
    STACK_FRAMES,   \* DEFAULT_NUM_STACK_FRAMES
    Programs,       \* their PT_LOAD program headers: first page, number of pages
    MaxOps,         \* bound: calls started in a behaviour
    Regions         \* regions of firmware tables that are mapped at their address

ASSUME ProcessAssumption ==
    /\ Cardinality(Cpus) <= ENTRIES /\ Reserved \subseteq Image .. Frames - 1
    /\ \A r \in Regions : \A q \in 0 .. r.n - 1 : is_user_addr(r.page + q) /\ r.page + q \in Reserved

VARIABLES
    phys,       \* bitmap and contents of the frames
    dir,        \* dir[a]: page_dir_phy_addr of address space a, or NO_FRAME
    locked,     \* locked[a]: "yes" when the lock of a was never released, "past" when it
                \* was not and the address space is gone (history), else "no"
    cur,        \* cur[c]: curr_addr_space
    proc,       \* proc[p]
    heap,       \* objects allocated with kmalloc()
    regions,    \* the regions mapped in the kernel's address space
    call,       \* call[c]: what cpu c executes
    panic,      \* an ASSERT or a PANIC stopped the machine
    ops         \* calls started so far (bound)

vars == <<phys, dir, locked, cur, proc, heap, regions, call, panic, ops>>

NoProc == [state |-> "none", ring |-> 0, ustack |-> NO_REGION, kstack |-> NO_REGION]
Idle == [pc |-> "idle", p |-> K, frames |-> <<>>, segs |-> <<>>, mapped |-> NO_REGION, wmap |-> NO_REGION]

View(c) == [cpu |-> c, cr3 |-> dir[cur[c]]]

BootBitmap ==
    LET avail == (Image .. Frames - 1) \ Reserved
    IN  [size |-> Frames, free |-> Cardinality(avail), avail |-> avail]

Boot == init_paging(BootBitmap, Image)

Init ==
    /\ phys = Boot.s
    /\ dir = [a \in Procs \cup {K} |-> IF a = K THEN Boot.dir ELSE NO_FRAME]
    /\ locked = [a \in Procs \cup {K} |-> "no"]
    /\ cur = [c \in Cpus |-> K]
    /\ proc = [p \in Procs |-> NoProc]
    /\ heap = {} /\ regions = {}
    /\ call = [c \in Cpus |-> Idle]
    /\ panic = FALSE /\ ops = 0

-----------------------------------------------------------------------------
At(c, pc) == ~panic /\ call[c].pc = pc
IsIdle(c) == At(c, "idle") /\ cur[c] = K
Locked(a) == locked[a] = "yes"
InCall(p) == \E c \in Cpus : call[c].p = p

Goto(c, pc) == call' = [call EXCEPT ![c].pc = pc]
Done(c) == call' = [call EXCEPT ![c] = Idle]

\* A call is started, within the bound.
Start == ops < MaxOps /\ ops' = ops + 1

Panic == panic' = TRUE /\ UNCHANGED <<phys, dir, locked, cur, proc, heap, regions, call>>

\* free_frame() on each frame that a call has allocated so far.
FreeAll(s, frames) == FoldLeft(Freed, s, frames)

\* alloc_frame() for an array of n frames; Fail is what happens when it fails.
AllocInto(c, n, Fail) ==
    /\ Len(call[c].frames) < n
    /\ LET f == do_allocation(phys.bm, FALSE) IN
       IF f = NO_FRAME THEN Fail
       ELSE /\ phys' = Took(phys, f)
            /\ call' = [call EXCEPT ![c].frames = Append(@, f)]
            /\ UNCHANGED <<dir, locked, cur, proc, heap, regions, panic>>

-----------------------------------------------------------------------------
(* create_proc(), create_kproc() *)

CreateProc(c, p, ring) ==
    /\ Start /\ IsIdle(c) /\ proc[p].state = "none" /\ ~InCall(p)
    /\ heap' = heap \cup {<<"proc", p>>}
    /\ proc' = [proc EXCEPT ![p].state = "new", ![p].ring = ring]
    /\ call' = [call EXCEPT ![c].pc = IF ring = 0 THEN "kstack" ELSE "space", ![c].p = p]
    /\ UNCHANGED <<phys, dir, locked, cur, regions, panic>>

\* create_new_addr_space(): kmalloc(), alloc_frame(), and the new directory is
\* written through the temporary mapping.
CreateSpace(c) ==
    /\ At(c, "space")
    /\ LET p == call[c].p IN
       \/ heap' = heap \cup {<<"space", p>>} /\ Goto(c, "dir") /\ UNCHANGED proc
       \/ heap' = heap \ {<<"proc", p>>} /\ proc' = [proc EXCEPT ![p] = NoProc] /\ Done(c)
    /\ UNCHANGED <<phys, dir, locked, cur, regions, panic, ops>>

AllocDir(c) ==
    /\ At(c, "dir")
    /\ LET p == call[c].p
           f == do_allocation(phys.bm, FALSE)
       IN IF f = NO_FRAME
          THEN /\ heap' = heap \ {<<"space", p>>, <<"proc", p>>}
               /\ proc' = [proc EXCEPT ![p] = NoProc]
               /\ Done(c)
               /\ UNCHANGED <<phys, dir>>
          ELSE /\ phys' = Took(phys, f)
               /\ dir' = [dir EXCEPT ![p] = f]
               /\ Goto(c, "setup")
               /\ UNCHANGED <<heap, proc>>
    /\ UNCHANGED <<locked, cur, regions, panic, ops>>

SetupMap(c) ==
    /\ At(c, "setup")
    /\ phys' = create_temp_mapping(phys, View(c), dir[call[c].p])
    /\ Goto(c, "copy")
    /\ UNCHANGED <<dir, locked, cur, proc, heap, regions, panic, ops>>

SetupCopy(c) ==
    /\ At(c, "copy")
    /\ phys' = TempUnused(CopyKernelPdes(phys, View(c), TempMapped(phys, View(c))), View(c))
    /\ Goto(c, "ustack")
    /\ UNCHANGED <<dir, locked, cur, proc, heap, regions, panic, ops>>

\* A stack could not be allocated or mapped: its frames are freed.  Without a
\* user stack the address space is deleted next.
StackFailed(c, s) ==
    /\ phys' = FreeAll(s, call[c].frames)
    /\ call' = [call EXCEPT ![c].pc = IF @ = "ustack" THEN "check" ELSE "unstack", ![c].frames = <<>>]
    /\ UNCHANGED <<proc, heap, panic>>

\* Without a kernel stack the pages of the user stack are unmapped, in the
\* current address space; a kernel process has no such pages.
Unstack(c) ==
    /\ At(c, "unstack") /\ ~Locked(cur[c])
    /\ LET p == call[c].p
           n == IF proc[p].ring = 0 THEN 0 ELSE STACK_FRAMES
           r == do_paging_unmap_in(phys, dir[cur[c]], cur[c] = K, proc[p].ustack, n, TRUE)
       IN \/ r.res = "panic" /\ Panic
          \/ /\ r.res = "ok"
             /\ phys' = r.s
             /\ IF proc[p].ring = 0
                THEN proc' = [proc EXCEPT ![p] = NoProc] /\ heap' = heap \ {<<"proc", p>>} /\ Done(c)
                ELSE Goto(c, "check") /\ UNCHANGED <<proc, heap>>
             /\ UNCHANGED <<dir, locked, cur, regions, panic>>
    /\ UNCHANGED ops

AllocStackFrame(c) ==
    /\ call[c].pc \in {"ustack", "kstack"} /\ ~panic
    /\ AllocInto(c, STACK_FRAMES, StackFailed(c, phys) /\ UNCHANGED <<dir, locked, cur, regions>>)
    /\ UNCHANGED ops

\* The user stack goes to the process's address space, the kernel stack to the
\* kernel's.
StackMapped(c, p, user, start, r) ==
    CASE start = NO_REGION ->
            StackFailed(c, phys) /\ UNCHANGED locked
      [] start # NO_REGION /\ r.res = "fail" ->
            StackFailed(c, r.s) /\ locked' = [locked EXCEPT ![IF user THEN p ELSE K] = "yes"]
      [] start # NO_REGION /\ r.res = "panic" ->
            panic' = TRUE /\ UNCHANGED <<phys, call, proc, heap, locked>>
      [] OTHER ->
            /\ phys' = r.s
            /\ IF user
               THEN /\ proc' = [proc EXCEPT ![p].ustack = start]
                    /\ call' = [call EXCEPT ![c].pc = "kstack", ![c].frames = <<>>]
               ELSE /\ proc' = [proc EXCEPT ![p].kstack = start,
                                            ![p].state = IF proc[p].ring = 3 THEN "waiting" ELSE "runnable"]
                    /\ Done(c)
            /\ UNCHANGED <<heap, locked, panic>>

MapStack(c) ==
    /\ call[c].pc \in {"ustack", "kstack"} /\ ~panic /\ Len(call[c].frames) = STACK_FRAMES
    /\ LET p    == call[c].p
           user == call[c].pc = "ustack"
           a    == IF user THEN p ELSE K
       IN /\ ~Locked(a)
          /\ \E start \in find_contiguous(phys, View(c), dir[a], IF user THEN 0 ELSE KERNEL_PHY_OFFSET, STACK_FRAMES) :
                StackMapped(c, p, user, start, MapFrames(phys, dir[a], a = K, start, call[c].frames, user))
    /\ UNCHANGED <<dir, cur, regions, ops>>

-----------------------------------------------------------------------------
(* delete_proc(), delete_addr_space() *)

\* A process that is dead, that never ran, or that is a kernel process.
DeleteProc(c, p) ==
    /\ Start /\ IsIdle(c) /\ ~InCall(p)
    /\ proc[p].state \in {"waiting", "dead"} \/ (proc[p].state = "runnable" /\ proc[p].ring = 0)
    /\ ~Locked(K)
    /\ LET r == do_paging_unmap_in(phys, dir[K], TRUE, proc[p].kstack, STACK_FRAMES, TRUE) IN
       IF r.res = "panic" THEN Panic
       ELSE /\ phys' = r.s
            /\ IF proc[p].ring = 3
               THEN /\ call' = [call EXCEPT ![c].pc = "check", ![c].p = p]
                    /\ proc' = [proc EXCEPT ![p].kstack = NO_REGION]
                    /\ UNCHANGED heap
               ELSE /\ proc' = [proc EXCEPT ![p] = NoProc]
                    /\ heap' = heap \ {<<"proc", p>>}
                    /\ UNCHANGED call
            /\ UNCHANGED <<dir, locked, cur, regions, panic>>

\* Mutant: no cpu is asked whether it uses the address space.
CheckNothing(c) ==
    /\ At(c, "check") /\ Goto(c, "free")
    /\ UNCHANGED <<phys, dir, locked, cur, proc, heap, regions, panic, ops>>

\* No cpu may use an address space that is deleted.
CheckSpace(c) ==
    /\ At(c, "check")
    /\ IF \E d \in Cpus : cur[d] = call[c].p THEN Panic
       ELSE Goto(c, "free") /\ UNCHANGED <<phys, dir, locked, cur, proc, heap, regions, panic>>
    /\ UNCHANGED ops

\* The lock of the address space is not taken.
FreeSpace(c) ==
    /\ At(c, "free")
    /\ LET p == call[c].p
           r == paging_free_addr_space(phys, dir[p])
       IN IF r.res = "panic" THEN Panic
          ELSE /\ phys' = r.s
               /\ dir' = [dir EXCEPT ![p] = NO_FRAME]
               /\ locked' = [locked EXCEPT ![p] = IF @ = "no" THEN "no" ELSE "past"]
               /\ proc' = [proc EXCEPT ![p] = NoProc]
               /\ heap' = heap \ {<<"space", p>>, <<"proc", p>>}
               /\ Done(c)
               /\ UNCHANGED <<cur, regions, panic>>
    /\ UNCHANGED ops

-----------------------------------------------------------------------------
(* load_elf_binary() *)

LoadElf(c, p, segs) ==
    /\ Start /\ IsIdle(c) /\ proc[p].state = "waiting" /\ ~InCall(p)
    /\ cur' = [cur EXCEPT ![c] = p]
    /\ call' = [call EXCEPT ![c].pc = "array", ![c].p = p, ![c].segs = segs]
    /\ UNCHANGED <<phys, dir, locked, proc, heap, regions, panic>>

LoadFailed(c) == cur' = [cur EXCEPT ![c] = K] /\ Done(c)

\* process_program_header(): the array of frames, and the frames.
LoadArray(c) ==
    /\ At(c, "array")
    /\ \/ heap' = heap \cup {<<"frames", call[c].p>>} /\ Goto(c, "load") /\ UNCHANGED cur
       \/ LoadFailed(c) /\ UNCHANGED heap
    /\ UNCHANGED <<phys, dir, locked, proc, regions, panic, ops>>

\* The segment that is loaded.
Segment(c) == Head(call[c].segs)

\* Frames that are not mapped, or no longer, are freed with the array.
LoadUndo(c, s) ==
    /\ phys' = FreeAll(s, call[c].frames)
    /\ heap' = heap \ {<<"frames", call[c].p>>}
    /\ LoadFailed(c)
    /\ UNCHANGED <<dir, proc, regions, panic>>

LoadFrame(c) ==
    /\ At(c, "load")
    /\ AllocInto(c, Segment(c).n, LoadUndo(c, phys) /\ UNCHANGED locked)
    /\ UNCHANGED ops

\* The segment is mapped where it belongs, then once more to be written.
SegmentMapped(c, start, r) ==
    CASE start = NO_REGION ->
            LoadUndo(c, phys) /\ UNCHANGED locked
      [] start # NO_REGION /\ r.res = "fail" ->
            LoadUndo(c, r.s) /\ locked' = [locked EXCEPT ![call[c].p] = "yes"]
      [] start # NO_REGION /\ (r.res = "panic" \/ (r.res = "ok" /\ start # Segment(c).page)) ->
            Panic
      [] OTHER ->
            /\ phys' = r.s
            /\ call' = [call EXCEPT ![c].pc = "writemap", ![c].mapped = start]
            /\ UNCHANGED <<dir, locked, cur, proc, heap, regions, panic>>

LoadMap(c) ==
    /\ At(c, "load") /\ Len(call[c].frames) = Segment(c).n /\ ~Locked(call[c].p)
    /\ LET d == dir[call[c].p] IN
       \E start \in find_contiguous(phys, View(c), d, Segment(c).page, Segment(c).n) :
          SegmentMapped(c, start, MapFrames(phys, d, FALSE, start, call[c].frames, TRUE))
    /\ UNCHANGED ops

WriteMapped(c, start, r) ==
    CASE start = NO_REGION ->
            Goto(c, "unmap") /\ UNCHANGED <<phys, locked, panic>>
      [] start # NO_REGION /\ r.res = "fail" ->
            phys' = r.s /\ Goto(c, "unmap") /\ locked' = [locked EXCEPT ![call[c].p] = "yes"] /\ UNCHANGED panic
      [] start # NO_REGION /\ r.res = "panic" ->
            panic' = TRUE /\ UNCHANGED <<phys, call, locked>>
      [] OTHER ->
            /\ phys' = r.s
            /\ call' = [call EXCEPT ![c].pc = "write", ![c].wmap = start]
            /\ UNCHANGED <<locked, panic>>

LoadWriteMap(c) ==
    /\ At(c, "writemap") /\ ~Locked(call[c].p)
    /\ LET d == dir[call[c].p] IN
       \E start \in find_contiguous(phys, View(c), d, 0, Segment(c).n) :
          WriteMapped(c, start, MapFrames(phys, d, FALSE, start, call[c].frames, FALSE))
    /\ UNCHANGED <<dir, cur, proc, heap, regions, ops>>

\* fail_second_map_above.
LoadUnmap(c) ==
    /\ At(c, "unmap") /\ ~Locked(call[c].p)
    /\ LET r == do_paging_unmap_in(phys, dir[call[c].p], FALSE, call[c].mapped, Segment(c).n, FALSE)
       IN  IF r.res = "panic" THEN Panic ELSE LoadUndo(c, r.s) /\ UNCHANGED locked
    /\ UNCHANGED ops

\* The segment is read from the file, zeroed after its end, and unmapped from
\* where it was written; after the last one the process can run.
LoadWrite(c) ==
    /\ At(c, "write") /\ ~Locked(call[c].p)
    /\ LET p == call[c].p
           r == do_paging_unmap_in(phys, dir[p], FALSE, call[c].wmap, Segment(c).n, FALSE)
           last == Len(call[c].segs) = 1
       IN IF r.res = "panic" THEN Panic
          ELSE /\ phys' = r.s
               /\ heap' = heap \ {<<"frames", p>>}
               /\ IF last
                  THEN /\ proc' = [proc EXCEPT ![p].state = "runnable"]
                       /\ cur' = [cur EXCEPT ![c] = K]
                       /\ Done(c)
                  ELSE /\ call' = [call EXCEPT ![c] = [Idle EXCEPT !.pc = "array", !.p = p, !.segs = Tail(call[c].segs)]]
                       /\ UNCHANGED <<proc, cur>>
               /\ UNCHANGED <<dir, locked, regions, panic>>
    /\ UNCHANGED ops

-----------------------------------------------------------------------------
(* What else cpus do. *)

\* switch_to_proc(): to a process and back to one of the kernel's.
SwitchTo(c, p) ==
    /\ IsIdle(c) /\ proc[p].state = "runnable" /\ proc[p].ring = 3 /\ \A d \in Cpus : cur[d] # p
    /\ cur' = [cur EXCEPT ![c] = p]
    /\ UNCHANGED <<phys, dir, locked, proc, heap, regions, call, panic, ops>>

SwitchAway(c) ==
    /\ At(c, "idle") /\ cur[c] # K
    /\ cur' = [cur EXCEPT ![c] = K]
    /\ UNCHANGED <<phys, dir, locked, proc, heap, regions, call, panic, ops>>

\* do_exit(): the process is marked dead; its cpu leaves it later.
Exit(c) ==
    /\ At(c, "idle") /\ cur[c] # K /\ proc[cur[c]].state = "runnable"
    /\ proc' = [proc EXCEPT ![cur[c]].state = "dead"]
    /\ UNCHANGED <<phys, dir, locked, cur, heap, regions, call, panic, ops>>

\* paging_map() and paging_unmap() of firmware tables and devices, where they are.
MapRegion(c, r) ==
    /\ Start /\ IsIdle(c) /\ r \notin regions /\ ~Locked(K)
    /\ LET m == do_paging_map_in(phys, dir[K], TRUE, r.page, r.page, r.n, FALSE) IN
       /\ phys' = m.s
       /\ regions' = IF m.res = "ok" THEN regions \cup {r} ELSE regions
       /\ panic' = (m.res = "panic")
    /\ UNCHANGED <<dir, locked, cur, proc, heap, call>>

UnmapRegion(c, r) ==
    /\ Start /\ IsIdle(c) /\ r \in regions /\ ~Locked(K)
    /\ LET m == do_paging_unmap_in(phys, dir[K], TRUE, r.page, r.n, FALSE) IN
       /\ phys' = m.s
       /\ regions' = regions \ {r}
       /\ panic' = (m.res = "panic")
    /\ UNCHANGED <<dir, locked, cur, proc, heap, call>>

Next ==
    \E c \in Cpus :
        \/ \E p \in Procs :
              \/ (\E ring \in {0, 3} : CreateProc(c, p, ring)) \/ DeleteProc(c, p) \/ SwitchTo(c, p)
              \/ \E segs \in Programs : LoadElf(c, p, segs)
        \/ \E r \in Regions : MapRegion(c, r) \/ UnmapRegion(c, r)
        \/ CreateSpace(c) \/ AllocDir(c) \/ SetupMap(c) \/ SetupCopy(c)
        \/ AllocStackFrame(c) \/ MapStack(c) \/ Unstack(c) \/ CheckSpace(c) \/ FreeSpace(c)
        \/ LoadArray(c) \/ LoadFrame(c) \/ LoadMap(c) \/ LoadWriteMap(c) \/ LoadUnmap(c) \/ LoadWrite(c)
        \/ SwitchAway(c) \/ Exit(c)

Spec == Init /\ [][Next]_vars

-----------------------------------------------------------------------------
(* Properties. *)

LivePages(a) ==
    UNION {{i * ENTRIES + j : j \in {k \in Index : Present(phys.mem[phys.mem[dir[a]][i].frame][k])}} :
             i \in {k \in 0 .. (IF a = K THEN TEMP_MAP_PDE_IDX ELSE KERNEL_MIN_PDE_IDX) - 1 : Present(phys.mem[dir[a]][k])}}

FrameOf(a, q) == phys.mem[phys.mem[dir[a]][pde_index(q)].frame][pte_index(q)].frame

\* While a segment is written its frames have a second mapping.
Written(a) ==
    UNION {call[c].wmap .. call[c].wmap + Segment(c).n - 1 :
             c \in {d \in Cpus : call[d].p = a /\ call[d].pc = "write"}}

\* paging_map_frames_above_in() has failed half-way.
Torn == \E a \in DOMAIN locked : locked[a] # "no"

Live == {a \in DOMAIN dir : dir[a] # NO_FRAME}

\* Every use that is made of a frame: the kernel image, the firmware, directories,
\* tables and pages of address spaces, and the frames that a call has not mapped
\* yet.
Uses ==
    LET boot      == (0 .. Image - 1) \cup Reserved
        last(a)   == IF a = K THEN TEMP_MAP_PDE_IDX ELSE KERNEL_MIN_PDE_IDX - 1
        tables(a) == {<<"table", a, i, phys.mem[dir[a]][i].frame>> :
                        i \in {k \in 0 .. last(a) : Present(phys.mem[dir[a]][k])}}
        pages(a)  == {<<"page", a, q, FrameOf(a, q)>> :
                        q \in LivePages(a) \ Written(a)}
    IN  {<<"boot", K, 0, f>> : f \in boot}
        \cup UNION {tables(a) : a \in Live}
        \cup UNION {{u \in pages(a) : u[4] \notin boot} : a \in Live}
        \cup {<<"dir", a, 0, dir[a]>> : a \in Live}
        \cup UNION {{<<"call", c, i, call[c].frames[i]>> : i \in DOMAIN call[c].frames} :
                      c \in {d \in Cpus : call[d].pc \notin {"writemap", "write", "unmap"}}}

\* A frame is in use exactly when it has one user, and an object of the heap is
\* allocated exactly when its process, address space or load exists: calls of
\* create_proc(), load_elf_binary(), delete_proc() and paging_map() that fail at
\* any point, on several cpus at a time, give back what they took and nothing
\* else.  Only the tables of the identity mapping of init_paging() are in use
\* without a user.  (It does not hold once paging_map_frames_above_in() has failed
\* half-way, which leaves frames mapped that its caller frees.)
ResourcesConserved ==
    Torn \/ panic \/
        LET uses   == Uses
            used   == {u[4] : u \in uses}
            in_use == {f \in 0 .. Frames - 1 : bitmap_get_bit(phys.bm, f)}
        IN
        /\ Cardinality(used) = Cardinality(uses)
        /\ used \subseteq in_use
        /\ Cardinality(in_use \ used) = (Image + ENTRIES - 1) \div ENTRIES
        /\ heap = {<<"proc", p>> : p \in {x \in Procs : proc[x].state # "none"}}
                  \cup {<<"space", p>> : p \in (Live \ {K}) \cup {call[c].p : c \in {d \in Cpus : call[d].pc = "dir"}}}
                  \cup {<<"frames", call[c].p>> :
                          c \in {d \in Cpus : call[d].pc \in {"load", "writemap", "write", "unmap"}}}

\* A new directory that paging_setup_new_page_dir() has filled through the
\* temporary mapping of its cpu has the kernel's tables and its own recursive
\* entry, whatever other cpus mapped in the meantime.
DirsHaveKernelTables ==
    \A a \in Live :
        \/ \E c \in Cpus : call[c].p = a /\ call[c].pc \in {"setup", "copy"}
        \/ /\ \A i \in KERNEL_MIN_PDE_IDX .. TEMP_MAP_PDE_IDX :
                 Present(phys.mem[dir[a]][i]) /\ phys.mem[dir[a]][i] = phys.mem[dir[K]][i]
           /\ phys.mem[dir[a]][RECURSIVE_PDE_IDX] = Entry(dir[a], FALSE)

\* No cpu has a deleted address space in its CR3: delete_addr_space() looks at
\* the cpus before it frees, with the cpus running on in between.
CurrSpaceExists == \A c \in Cpus : dir[cur[c]] # NO_FRAME

\* A page that is mapped for the user can be reached by the user: the user bit
\* of a table is that of the first page mapped in it, which stays mapped or is
\* unmapped with the table.
UserPagesReachable ==
    Torn \/ \A a \in Live : \A i \in 0 .. KERNEL_MIN_PDE_IDX - 1 :
        LET e == phys.mem[dir[a]][i] IN
        (Present(e) /\ \E j \in Index : phys.mem[e.frame][j].user) => e.user

=============================================================================
