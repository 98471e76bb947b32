---------------------------- MODULE SingleFlight ----------------------------
(***************************************************************************)
(* What the scheduler promises of the runs it starts, with nothing of how  *)
(* it polls, stores or stops: a schedule never has two runs at once, and   *)
(* at most MaxConcurrent runs execute at the same time.  A run is launched,*)
(* waits for a permit, executes, and ends; a shutdown or a crash may end   *)
(* any set of runs at once.                                                *)
(***************************************************************************)
EXTENDS Integers, FiniteSets

CONSTANTS
  Schedules,      \* schedule ids
  Jobs,           \* identities of runs, reused once a run has ended
  MaxConcurrent,  \* the number of runs that may execute at once
  None            \* the schedule of an idle job; not one of Schedules

VARIABLE runs     \* runs[j]: the stage job j is in, and the schedule it runs

Idle == [stage |-> "idle", of |-> None]

Run == {Idle} \cup [stage : {"waiting", "executing"}, of : Schedules]

Executing == {j \in Jobs : runs[j].stage = "executing"}
-----------------------------------------------------------------------------
Init == runs = [j \in Jobs |-> Idle]

Launch(j, s) ==
  /\ runs[j] = Idle
  /\ \A k \in Jobs : runs[k].of # s
  /\ runs' = [runs EXCEPT ![j] = [stage |-> "waiting", of |-> s]]

Execute(j) ==
  /\ runs[j].stage = "waiting"
  /\ Cardinality(Executing) < MaxConcurrent
  /\ runs' = [runs EXCEPT ![j].stage = "executing"]

\* Some runs end: one that has finished, or all those a shutdown cancels.
End(J) == runs' = [j \in Jobs |-> IF j \in J THEN Idle ELSE runs[j]]

Next ==
  \/ \E j \in Jobs, s \in Schedules : Launch(j, s)
  \/ \E j \in Jobs : Execute(j)
  \/ \E J \in SUBSET Jobs : End(J)

Spec == Init /\ [][Next]_runs
-----------------------------------------------------------------------------
TypeOK == runs \in [Jobs -> Run]

\* Two runs in progress are runs of two schedules.
OneRunEach ==
  \A j, k \in Jobs : j # k /\ runs[j] # Idle => runs[j].of # runs[k].of

\* No more runs execute than the semaphore has permits.
WithinPermits == Cardinality(Executing) <= MaxConcurrent
=============================================================================
