------------------------------ MODULE MCProcess ------------------------------
(***************************************************************************)
(* Process with small page tables: five entries per table, of which two    *)
(* are for users and one for the kernel.                                   *)
(***************************************************************************)
EXTENDS Process

\* The first segment of the first program fills the table of the stack, so that
\* the mapping it is written through needs a table of its own; the segment of the
\* second program leaves no room for such a mapping.
TwoPrograms == {<<[page |-> 2, n |-> 3], [page |-> 7, n |-> 1]>>, <<[page |-> 4, n |-> 4]>>}

OneRegion == {[page |-> 9, n |-> 1]}

Symmetry == Permutations(Procs) \cup Permutations(Cpus)
=============================================================================
