------------------------------ MODULE MCRwLock ------------------------------
(***************************************************************************)
(* RwLock with a few tasks.                                                *)
(***************************************************************************)
EXTENDS RwLockProofs, TLC

\* Tasks and cpus are interchangeable.
Symmetry == Permutations(Tasks) \cup Permutations(Cpus)
=============================================================================
