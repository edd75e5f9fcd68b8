----------------------------- MODULE FrameAlloc -----------------------------
(***************************************************************************)
(* The physical frame allocator (frame_alloc.c): one bit per frame, set    *)
(* when the frame is in use.  Every operation runs under FRAME_ALLOC_LOCK, *)
(* so each is one operator on the bitmap.                                  *)
(***************************************************************************)
EXTENDS Bitmap

CONSTANT LOW_MEM_MAX_IDX    \* the last frame under 1MiB

NO_FRAME == BM_NPOS

StartIdx(low_mem) == IF low_mem THEN 0 ELSE LOW_MEM_MAX_IDX

\* do_allocation() stops the machine when the search leaves the bitmap.
AllocationTraps(b, low_mem) == RunsPastTheEnd(b, StartIdx(low_mem))

\* The frame that do_allocation() returns.  A request for any frame looks below
\* 1MiB when the search above it returned nothing.  A request for low memory
\* gives back a frame above 1MiB.
do_allocation(b, low_mem) ==
    LET first == next_bit(b, StartIdx(low_mem)) IN
    IF low_mem
    THEN IF first > LOW_MEM_MAX_IDX THEN NO_FRAME ELSE first
    ELSE IF first = BM_NPOS THEN next_bit(b, 0) ELSE first

\* The bitmap after it.
Allocated(b, frame) == IF frame = NO_FRAME THEN b ELSE bitmap_set(b, frame)

\* free_frame() panics on a frame that is not in use, and traps on one that the
\* bitmap does not have.
DoubleFree(b, frame) == ~assert_bounds(b, frame) \/ ~bitmap_get_bit(b, frame)

free_frame(b, frame) == bitmap_unset(b, frame)

frames_allocated(b) == b.size - b.free

=============================================================================
