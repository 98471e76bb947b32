----------------------------- MODULE MCScheduler -----------------------------
(***************************************************************************)
(* Instances of Scheduler for TLC.  Tasks and writes are interchangeable,  *)
(* so the safety run declares Jobs a symmetry set.                         *)
(***************************************************************************)
EXTENDS Scheduler, TLC

JobSymmetry == Permutations(Jobs)
=============================================================================
