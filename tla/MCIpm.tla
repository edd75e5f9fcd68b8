-------------------------------- MODULE MCIpm --------------------------------
(***************************************************************************)
(* Ipm with a few cpus and processes.                                      *)
(***************************************************************************)
EXTENDS Ipm, TLC

\* Processes are interchangeable (cpus are not: loops visit them in order).
Symmetry == Permutations(Procs)
=============================================================================
