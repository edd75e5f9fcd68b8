------------------------------- MODULE Paging -------------------------------
(***************************************************************************)
(* Page directories and page tables (paging.c), with ENTRIES entries each. *)
(* A virtual page is a number; an entry is the frame it points to and its  *)
(* user bit, the only attribute that is not the same for every mapping of  *)
(* a page.  Physical memory is a record s: the bitmap of the frames and    *)
(* what each frame holds when it is read as a directory or a table.        *)
(*                                                                         *)
(* Every operation below runs under the lock of the address space, or on a *)
(* directory that nobody else knows of, and is one operator from s to s.   *)
(* `v` is the view of the caller, where it matters: the cpu it runs on and *)
(* the directory in that cpu's CR3.  The directory of another address      *)
(* space is reached through the cpu's entry of the table of temporary      *)
(* mappings.                                                               *)
(***************************************************************************)
EXTENDS FrameAlloc, Sequences, TLC
LOCAL INSTANCE SequencesExt
LOCAL INSTANCE FiniteSetsExt

CONSTANTS
    ENTRIES,                \* PDES_PER_PAGE, PTES_PER_PAGE
    KERNEL_MIN_PDE_IDX,     \* the first PDE of the kernel
    Cpus

Index == 0 .. ENTRIES - 1
RECURSIVE_PDE_IDX == ENTRIES - 1
TEMP_MAP_PDE_IDX == ENTRIES - 2
KERNEL_MAX_PDE_IDX == RECURSIVE_PDE_IDX - 1

ASSUME PagingAssumption == KERNEL_MIN_PDE_IDX \in 1 .. KERNEL_MAX_PDE_IDX - 1

Entry(frame, user) == [frame |-> frame, user |-> user]
Absent == Entry(NO_FRAME, FALSE)
Present(e) == e.frame # NO_FRAME
ZeroPage == [i \in Index |-> Absent]

pde_index(page) == page \div ENTRIES
pte_index(page) == page % ENTRIES
is_user_addr(page) == pde_index(page) < KERNEL_MIN_PDE_IDX
is_temp_mapping(page) == pde_index(page) = TEMP_MAP_PDE_IDX
NO_REGION == -1

KERNEL_PHY_OFFSET == KERNEL_MIN_PDE_IDX * ENTRIES
MaxPage == TEMP_MAP_PDE_IDX * ENTRIES

Set(s, frame, i, e) == [s EXCEPT !.mem[frame][i] = e]
Zeroed(s, frame) == [s EXCEPT !.mem[frame] = ZeroPage]
Took(s, frame) == [s EXCEPT !.bm = Allocated(@, frame)]

\* What a free frame holds is never read: directories and tables are cleared
\* when they are allocated.
Freed(s, frame) == [s EXCEPT !.bm = free_frame(@, frame), !.mem[frame] = ZeroPage]

FreedAll(s, frames) ==
    [s EXCEPT !.bm = [@ EXCEPT !.free = @ + Cardinality(frames), !.avail = @ \cup frames],
              !.mem = [f \in DOMAIN @ |-> IF f \in frames THEN ZeroPage ELSE @[f]]]

Result(s, res) == [s |-> s, res |-> res]

-----------------------------------------------------------------------------
(* Access to directories and tables. *)

\* Mutant: the entry of the temporary mapping table is not private.
SameSlot(v) == CHOOSE c \in Cpus : TRUE

\* The entry of the temporary mapping table that belongs to a cpu.
TempSlot(v) == v.cpu

\* The mapping replaces the one that was there.
create_temp_mapping(s, v, frame) == [s EXCEPT !.temp[TempSlot(v)] = frame]

\* get_page_dir() and get_page_table(): the address of a directory or a table,
\* here its frame.  It is in the recursive entry of the current directory, or
\* else in a temporary mapping, which every use of it makes anew: what is left in
\* the entry afterwards is not kept.
TempMapped(s, v) == s.temp[TempSlot(v)]

TempUnused(s, v) == [s EXCEPT !.temp[TempSlot(v)] = NO_FRAME]

-----------------------------------------------------------------------------
(* Mapping and unmapping of pages. *)

\* Mutant: the table is not accessible to the user whatever is mapped in it.
NoUserPde(user) == FALSE

\* The user bit of the entry of a new table: that of the first page mapped.
PdeUser(user) == user

\* A new table is allocated for the page if it has none.
LinkTable(s, dir, i, table, user) ==
    IF table = NO_FRAME THEN s
    ELSE Zeroed(Set(Took(s, table), dir, i, Entry(table, PdeUser(user))), table)

WithTable(s, dir, i, user) ==
    IF Present(s.mem[dir][i]) THEN s ELSE LinkTable(s, dir, i, do_allocation(s.bm, FALSE), user)

MapEntry(s, table, j, e) ==
    CASE table = NO_FRAME -> Result(s, "fail")
      [] table # NO_FRAME /\ Present(s.mem[table][j]) /\ s.mem[table][j] # e -> Result(s, "panic")
      [] OTHER -> Result(Set(s, table, j, e), "ok")

MapEntryIn(s, dir, page, e) == MapEntry(s, s.mem[dir][pde_index(page)].frame, pte_index(page), e)

\* "panic" when the page is mapped to something else, and when a page of the
\* kernel is mapped in an address space other than the kernel's.
map_page_in(s, dir, kernel, frame, page, user) ==
    IF ~(kernel \/ is_user_addr(page) \/ is_temp_mapping(page)) THEN Result(s, "panic")
    ELSE MapEntryIn(WithTable(s, dir, pde_index(page), user), dir, page, Entry(frame, user))

page_table_is_empty(table) == \A j \in Index : ~Present(table[j])

\* Mutant: a table that became empty is unlinked and not freed.
KeepEmptyTable(s, dir, i) ==
    IF page_table_is_empty(s.mem[s.mem[dir][i].frame]) THEN Set(s, dir, i, Absent) ELSE s

\* The frame of a table that became empty is freed, whichever table it is.
FreeEmptyTable(s, dir, i) ==
    IF page_table_is_empty(s.mem[s.mem[dir][i].frame])
    THEN Freed(Set(s, dir, i, Absent), s.mem[dir][i].frame) ELSE s

\* The frame that a page is mapped to.
FrameAt(s, dir, page) ==
    IF Present(s.mem[dir][pde_index(page)])
    THEN s.mem[s.mem[dir][pde_index(page)].frame][pte_index(page)].frame ELSE NO_FRAME

UnmapFrame(s, dir, page, frame, free_phy_frame) ==
    FreeEmptyTable(Set(IF free_phy_frame THEN Freed(s, frame) ELSE s,
                       s.mem[dir][pde_index(page)].frame, pte_index(page), Absent),
                   dir, pde_index(page))

unmap_page_in(s, dir, kernel, page, free_phy_frame) ==
    IF \/ ~(kernel \/ is_user_addr(page)) \/ FrameAt(s, dir, page) = NO_FRAME
       \/ (free_phy_frame /\ DoubleFree(s.bm, FrameAt(s, dir, page)))
    THEN Result(s, "panic")
    ELSE Result(UnmapFrame(s, dir, page, FrameAt(s, dir, page), free_phy_frame), "ok")

Steps(n) == [i \in 1 .. n |-> i - 1]

\* Consecutive pages to consecutive frames, as far as it goes: n pages.
MapPages(s, dir, kernel, frame, page, npages, user) ==
    LET Count(r, i) == [s |-> r.s, res |-> r.res, n |-> IF r.res = "ok" THEN i + 1 ELSE i]
        Map(r, i) == IF r.res # "ok" THEN r ELSE Count(map_page_in(r.s, dir, kernel, frame + i, page + i, user), i)
    IN  FoldLeft(Map, [s |-> s, res |-> "ok", n |-> 0], Steps(npages))

\* The pages mapped so far are unmapped when a table cannot be allocated.
UndoMap(r, dir, kernel, page) ==
    IF r.res # "fail" THEN Result(r.s, r.res)
    ELSE Result(FoldLeft(LAMBDA t, i : unmap_page_in(t, dir, kernel, page + i, FALSE).s, r.s, Steps(r.n)), "fail")

do_paging_map_in(s, dir, kernel, frame, page, npages, user) ==
    UndoMap(MapPages(s, dir, kernel, frame, page, npages, user), dir, kernel, page)

do_paging_unmap_in(s, dir, kernel, page, npages, free_phy_frame) ==
    LET Unmap(r, i) == IF r.res = "ok" THEN unmap_page_in(r.s, dir, kernel, page + i, free_phy_frame) ELSE r
    IN  FoldLeft(Unmap, Result(s, "ok"), Steps(npages))

-----------------------------------------------------------------------------
(* Holes in an address space. *)

page_is_mapped(s, dir, page) ==
    LET e == s.mem[dir][pde_index(page)] IN Present(e) /\ Present(s.mem[e.frame][pte_index(page)])

\* The sizes that may be computed for the hole that starts at a page.  In
\* another address space the pointer to the directory is lost when the first
\* table is mapped: if the hole goes on after that table, what is read next is
\* that table, and anything may follow.
compute_hole_size(s, v, dir, page) ==
    LET stop   == {p \in page .. MaxPage - 1 : page_is_mapped(s, dir, p)}
        size   == Min(stop \cup {MaxPage}) - page
        tables == {i \in pde_index(page) .. TEMP_MAP_PDE_IDX - 1 : Present(s.mem[dir][i])}
        known  == (Min(tables \cup {TEMP_MAP_PDE_IDX}) + 1) * ENTRIES - page
    IN  IF v.cr3 = dir \/ tables = {} \/ size < known THEN {size} ELSE known .. MaxPage - page

\* The pages that do_paging_find_contiguous_non_mapped_pages_in() may return.
find_contiguous(s, v, dir, low, npages) ==
    LET free      == {p \in low .. MaxPage - 1 : ~page_is_mapped(s, dir, p)}
        sizes     == [p \in free |-> compute_hole_size(s, v, dir, p)]
        May(p)    == \E h \in sizes[p] : h >= npages
        MayNot(p) == \E h \in sizes[p] : h < npages
    IN  {p \in free : May(p) /\ \A q \in free : q < p => MayNot(q)}
        \cup {r \in {NO_REGION} : \A q \in free : MayNot(q)}

\* The rest of paging_map_frames_above_in(), once a hole is found.  When a table
\* cannot be allocated ("fail") the frames mapped so far stay mapped, and the
\* lock of the address space is not released.
MapFrames(s, dir, kernel, start, frames, user) ==
    LET Map(r, i) == IF r.res = "ok" THEN do_paging_map_in(r.s, dir, kernel, frames[i], start + i - 1, 1, user) ELSE r
    IN  FoldLeft(Map, Result(s, "ok"), [i \in 1 .. Len(frames) |-> i])

-----------------------------------------------------------------------------
(* Directories. *)

\* paging_setup_new_page_dir() once the new directory is mapped: the user part
\* is cleared, the rest is that of the current directory.
CopyKernelPdes(s, v, dest) ==
    [s EXCEPT !.mem[dest] = [i \in Index |->
        IF i = RECURSIVE_PDE_IDX THEN Entry(dest, FALSE)
        ELSE IF i >= KERNEL_MIN_PDE_IDX THEN s.mem[v.cr3][i] ELSE Absent]]

\* The frames that paging_free_addr_space() frees: the pages and the tables of
\* the user part, and the directory itself.
UserTables(s, dir) == {s.mem[dir][i].frame : i \in {k \in 0 .. KERNEL_MIN_PDE_IDX - 1 : Present(s.mem[dir][k])}}

UserFrames(s, dir) ==
    UNION {{s.mem[t][j].frame : j \in {k \in Index : Present(s.mem[t][k])}} : t \in UserTables(s, dir)}

paging_free_addr_space(s, dir) ==
    LET all == UserFrames(s, dir) \cup UserTables(s, dir) \cup {dir}
    IN  IF \E f \in all : DoubleFree(s.bm, f) THEN Result(s, "panic") ELSE Result(FreedAll(s, all), "ok")

-----------------------------------------------------------------------------
(* Initialisation.  The frames 0 .. image - 1 hold the kernel. *)

\* Every frame of the kernel is mapped at its address and in the higher half.
create_identity_and_higher_half_mappings(s, dir, image) ==
    FoldLeft(LAMBDA t, f : map_page_in(map_page_in(t, dir, TRUE, f, KERNEL_PHY_OFFSET + f, FALSE).s,
                                       dir, TRUE, f, f, FALSE).s,
             s, Steps(image))

create_recursive_entry(s, dir) == Set(s, dir, RECURSIVE_PDE_IDX, Entry(dir, FALSE))

NewTable(s, dir, i) == LinkTable(s, dir, i, do_allocation(s.bm, FALSE), FALSE)

create_temp_mapping_entry(s, dir) == NewTable(s, dir, TEMP_MAP_PDE_IDX)

preallocate_kernel_page_table(s, dir) ==
    FoldLeft(LAMBDA t, i : IF Present(t.mem[dir][i]) THEN t ELSE NewTable(t, dir, i), s,
             [i \in 1 .. KERNEL_MAX_PDE_IDX - KERNEL_MIN_PDE_IDX |-> KERNEL_MIN_PDE_IDX + i - 1])

\* The entries are cleared; the tables of the identity mapping are not freed.
remove_identity_mapping(s, dir, image) ==
    [s EXCEPT !.mem[dir] = [i \in Index |-> IF i < (image + ENTRIES - 1) \div ENTRIES THEN Absent ELSE @[i]]]

\* The memory once paging is enabled; `dir` is the directory of the kernel.
EnablePaging(s, dir, image) ==
    remove_identity_mapping(
        preallocate_kernel_page_table(
            create_temp_mapping_entry(
                create_recursive_entry(
                    create_identity_and_higher_half_mappings(Took(s, dir), dir, image), dir), dir), dir), dir, image)

init_paging(bm, image) ==
    LET dir == do_allocation(bm, FALSE)
    IN  [dir |-> dir,
         s |-> EnablePaging([bm |-> bm, mem |-> [f \in 0 .. bm.size - 1 |-> ZeroPage],
                             temp |-> [c \in Cpus |-> NO_FRAME]], dir, image)]

=============================================================================
