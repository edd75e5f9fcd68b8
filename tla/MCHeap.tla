------------------------------- MODULE MCHeap -------------------------------
(***************************************************************************)
(* Heap with a few threads, cpus and frames.                               *)
(***************************************************************************)
EXTENDS Heap

\* Threads are interchangeable, and so are cpus.
Symmetry == Permutations(Threads) \cup Permutations(Cpus)
=============================================================================
