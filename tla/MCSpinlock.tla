----------------------------- MODULE MCSpinlock -----------------------------
(***************************************************************************)
(* Spinlock with a few cpus.  Cpus are interchangeable: no action names    *)
(* one, so permuting them maps behaviours to behaviours.                   *)
(***************************************************************************)
EXTENDS SpinlockProofs, TLC

Symmetry == Permutations(Cpus)
=============================================================================
