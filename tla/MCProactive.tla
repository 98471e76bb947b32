---------------------------- MODULE MCProactive ----------------------------
(***************************************************************************)
(* An instance of ProactiveScheduler for TLC: two tasks and one permit, so *)
(* that a run waits for another, with a job identity for each.             *)
(***************************************************************************)
EXTENDS ProactiveScheduler
=============================================================================
