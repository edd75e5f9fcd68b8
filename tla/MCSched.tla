------------------------------- MODULE MCSched -------------------------------
(***************************************************************************)
(* Sched with a few cpus and processes.                                    *)
(***************************************************************************)
EXTENDS SchedProofs, TLC

\* Cpus (with their idle processes) and processes are interchangeable.
Symmetry == Permutations(Cpus) \cup Permutations(Procs)
=============================================================================
