----------------------------- MODULE Multiboot -----------------------------
(***************************************************************************)
(* What the boot loader tells about physical memory (multiboot.c) and what *)
(* init_frame_alloc() makes of it (frame_alloc.c).  Memory is scaled down: *)
(* PAGE addresses per frame, ADDR_LIMIT of them reachable in 32 bits and   *)
(* LEN_LIMIT of them in the 64 bits of a memory map entry.                 *)
(*                                                                         *)
(* mb is the information structure of the boot loader: its address, the    *)
(* address of the memory map, the entries of the map, and the modules.     *)
(***************************************************************************)
EXTENDS FrameAlloc, Sequences

CONSTANTS
    PAGE,           \* 0x1000
    ADDR_LIMIT,     \* 2^32
    LEN_LIMIT,      \* 2^64
    BITS,           \* bits of the bitmap that a frame holds, 8 * 0x1000
    Kernel,         \* [first, last], the addresses of the kernel image
    VgaBuffer,      \* [first, last]
    INFO_SIZE       \* sizeof(struct multiboot_info)

\* The image is not empty.
ASSUME KernelAssumption ==
    PAGE \in Nat \ {0} /\ Kernel.first \in Nat /\ Kernel.last \in Nat /\ Kernel.first <= Kernel.last

Region(first, last) == [first |-> first, last |-> last]
Frame(addr) == addr \div PAGE
FramesOf(r) == Frame(r.first) .. Frame(r.last)

\* A search that found nothing, and one that ended in PANIC() or ASSERT().
NOT_FOUND == -1
STOPPED == -2

\* The memory map counts one address per entry.
InfoStruct(mb) == Region(mb.addr, mb.addr + INFO_SIZE - 1)
init_reserved_memory_area(mb) ==
    <<Kernel,
      Region(Min({mb.addr, mb.mmap_addr}), Max({InfoStruct(mb).last, mb.mmap_addr + Len(mb.mmap)})),
      VgaBuffer>>

\* The addresses of the initrd: none unless there is exactly one module, and
\* one that is not empty.
init_initrd(mb) ==
    IF Len(mb.mods) = 1 /\ mb.mods[1].end # mb.mods[1].start
    THEN <<Region(mb.mods[1].start, mb.mods[1].end - 1)>> ELSE <<>>

-----------------------------------------------------------------------------
Entry(base_addr, length) == [base_addr |-> base_addr, length |-> length, type |-> 1]

mmap_entry_is_available(e) == e.type = 1
mmap_entry_within_4GiB(e) == e.base_addr < ADDR_LIMIT
get_max_offset_for_entry(e) == e.base_addr + e.length - 1
get_max_addr_for_entry(e) == get_max_offset_for_entry(e) % ADDR_LIMIT

Usable(mmap) == SelectSeq(mmap, LAMBDA e : mmap_entry_is_available(e) /\ mmap_entry_within_4GiB(e))

get_max_addr(mmap) ==
    Min({ADDR_LIMIT - 1, Max({0} \cup {get_max_offset_for_entry(e) : e \in Range(Usable(mmap))})})

Overlaps(e, r) == ~(get_max_offset_for_entry(e) < r.first \/ r.last < e.base_addr)

\* The first of some places of a list, 0 if there is none.
FirstOf(places) == IF places = {} THEN 0 ELSE Min(places)

\* contain_reserved_memory(): the first reserved region in the entry, or 0.
ReservedIn(reserved, e) ==
    IF e.length = 0 THEN 0 ELSE FirstOf({i \in DOMAIN reserved : Overlaps(e, reserved[i])})

\* The start of nframes frames in memory without reserved regions.  The
\* subtraction is unsigned.
FitIn(e, nframes) ==
    LET aligned == (((e.base_addr + PAGE - 1) \div PAGE) * PAGE) % ADDR_LIMIT
        new_len == (e.length - (aligned - e.base_addr)) % LEN_LIMIT
    IN  IF \/ ~mmap_entry_within_4GiB(e)
           \/ new_len < nframes * PAGE
           \/ (aligned + new_len) % LEN_LIMIT >= ADDR_LIMIT
        THEN NOT_FOUND ELSE aligned

\* The memory before the reserved region, then the memory after it.  Neither may
\* hold a second one.
find_in_entry(reserved, e, nframes) ==
    LET i      == ReservedIn(reserved, e)
        r      == reserved[i]
        before == Entry(e.base_addr, r.first - e.base_addr)
        after  == Entry(r.last + 1, get_max_offset_for_entry(e) - r.last)
        Try(piece) == IF ReservedIn(reserved, piece) # 0 THEN STOPPED ELSE FitIn(piece, nframes)
        first  == IF e.base_addr <= r.first THEN Try(before) ELSE NOT_FOUND
    IN  CASE ~mmap_entry_within_4GiB(e) -> NOT_FOUND
          [] mmap_entry_within_4GiB(e) /\ i = 0 -> FitIn(e, nframes)
          [] OTHER -> IF first # NOT_FOUND \/ get_max_offset_for_entry(e) < r.last THEN first ELSE Try(after)

\* The first entry that has the frames, or the first that stops the search.
find_contiguous_physical_frames(reserved, mmap, nframes) ==
    LET Found(e) == /\ mmap_entry_is_available(e) /\ e.length >= nframes * PAGE
                    /\ find_in_entry(reserved, e, nframes) # NOT_FOUND
        i == FirstOf({k \in DOMAIN mmap : Found(mmap[k])})
    IN  IF i = 0 THEN STOPPED ELSE find_in_entry(reserved, mmap[i], nframes)

-----------------------------------------------------------------------------
compute_bitmap_size(mmap) == (get_max_addr(mmap) + PAGE - 1) \div PAGE
BitmapFrames(mmap) == (compute_bitmap_size(mmap) + BITS - 1) \div BITS

\* Where the bitmap is stored.
BitmapStart(reserved, mmap) == find_contiguous_physical_frames(reserved, mmap, BitmapFrames(mmap))
BitmapRegion(start, mmap) == Region(start, start + BitmapFrames(mmap) * PAGE - 1)

\* unmark_avail_frames(): the frames of each entry.  The loop is empty when the
\* end of the entry wrapped around.
AvailFrames(mmap) ==
    [i \in 1 .. Len(Usable(mmap)) |->
        FramesOf(Region(Usable(mmap)[i].base_addr, get_max_addr_for_entry(Usable(mmap)[i])))]

\* The frames that are in use from the start, in the order in which they are
\* marked: kernel, bitmap, information structure, initrd.
UsedFrames(mb, start, initrd) ==
    <<FramesOf(Kernel), FramesOf(BitmapRegion(start, mb.mmap)), FramesOf(InfoStruct(mb))>>
        \o [i \in DOMAIN initrd |-> FramesOf(initrd[i])]

Disjoint(sets) == \A i, j \in DOMAIN sets : i # j => sets[i] \cap sets[j] = {}
Covered(sets) == UNION Range(sets)

\* unmark_memory_range() and mark_memory_range() assert that every bit is in the
\* bitmap and that it changes.
MarksHold(mb, start, initrd) ==
    /\ Disjoint(AvailFrames(mb.mmap)) /\ Disjoint(UsedFrames(mb, start, initrd))
    /\ \A f \in Covered(AvailFrames(mb.mmap)) : f < compute_bitmap_size(mb.mmap)
    /\ Covered(UsedFrames(mb, start, initrd)) \subseteq Covered(AvailFrames(mb.mmap))

\* The bitmap of these two sets of frames.
NewBitmap(size, avail, used) ==
    [size |-> size, free |-> Cardinality(avail) - Cardinality(used), avail |-> avail \ used]

\* Mutant: the initrd is forgotten.
InitrdForgotten(mb, start, initrd) ==
    NewBitmap(compute_bitmap_size(mb.mmap), Covered(AvailFrames(mb.mmap)), Covered(UsedFrames(mb, start, <<>>)))

MarkedBitmap(mb, start, initrd) ==
    NewBitmap(compute_bitmap_size(mb.mmap), Covered(AvailFrames(mb.mmap)), Covered(UsedFrames(mb, start, initrd)))

=============================================================================
