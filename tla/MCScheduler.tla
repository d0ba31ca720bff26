---------------------------- MODULE MCScheduler ----------------------------
(***************************************************************************)
(* Small instances of Scheduler for TLC.  Rows, processes and approvals    *)
(* are interchangeable, so safety runs use their symmetry.                 *)
(***************************************************************************)
EXTENDS Scheduler, TLC

Symmetry == Permutations(Rows) \cup Permutations(Procs) \cup Permutations(Approvals)
=============================================================================
