------------------------------- MODULE Bitmap -------------------------------
(***************************************************************************)
(* Bitmaps (bitmap.c, bitmap_asm.S).  The data words are represented by    *)
(* `avail`, the indexes of the bits that are not set (stored as 1, so that *)
(* BSF finds them).  `free` is the counter the assembly keeps beside them. *)
(* A bound check that fails executes int3, which ends in a panic: the      *)
(* operators below have a separate predicate for it.                       *)
(***************************************************************************)
EXTENDS Integers, FiniteSets, FiniteSetsExt

BM_NPOS == -1

BitmapType(size) == [size : {size}, free : 0 .. size, avail : SUBSET (0 .. size - 1)]

bitmap_reset(size) == [size |-> size, free |-> size, avail |-> 0 .. size - 1]

bitmap_set_all(size) == [size |-> size, free |-> 0, avail |-> {}]

\* default_val tells whether all the bits start set or not set.
bitmap_init(size, default_val) == IF default_val THEN bitmap_set_all(size) ELSE bitmap_reset(size)

assert_bounds(b, i) == i < b.size

bitmap_get_bit(b, i) == i \notin b.avail

bitmap_set(b, i) ==
    IF bitmap_get_bit(b, i) THEN b ELSE [b EXCEPT !.free = @ - 1, !.avail = @ \ {i}]

bitmap_unset(b, i) ==
    IF bitmap_get_bit(b, i) THEN [b EXCEPT !.free = @ + 1, !.avail = @ \cup {i}] ELSE b

bitmap_is_full(b) == b.free = 0

From(b, start) == {i \in b.avail : i >= start}

\* The search stops early only when start is out of bounds or the whole bitmap
\* is full; it has no upper bound of its own.  When the only bits that are not
\* set are below start it leaves the array, and the bounds check of the
\* bitmap_set() at its end fails.
RunsPastTheEnd(b, start) == start < b.size /\ ~bitmap_is_full(b) /\ From(b, start) = {}

\* The index that bitmap_set_next_bit() returns, when it returns.
next_bit(b, start) ==
    IF start >= b.size \/ bitmap_is_full(b) THEN BM_NPOS ELSE Min(From(b, start))

=============================================================================
