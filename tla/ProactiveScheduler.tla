------------------------- MODULE ProactiveScheduler -------------------------
(***************************************************************************)
(* ProactiveScheduler over ProactiveTaskStore                              *)
(* (services/scheduler/proactive_scheduler.py), the daemon's scheduler:    *)
(* recovery of missed tasks at start, the check loop, and the runs.        *)
(*                                                                         *)
(* As in Scheduler, coroutines interleave at an await only (loop.at =      *)
(* "scan" is between two of them) while a store call commits in a worker   *)
(* thread, at any moment.  The daemon starts this service and never calls  *)
(* stop(): it ends with the process, at any point.                         *)
(*                                                                         *)
(* Time is abstracted to "due" (next_run <= now).  A recorded run has      *)
(* last_run < next_run, so the missed tasks of a start are the due ones;   *)
(* whether it is within a task's active hours is open at every check.      *)
(***************************************************************************)
EXTENDS Integers, FiniteSets

CONSTANTS
  Tasks,          \* ids of proactive tasks; AUTOINCREMENT never reuses one
  Unusable,       \* those whose cron_expr croniter rejects: sync brings such rows
  Jobs,           \* identities of the asyncio tasks that run them
  MaxConcurrent,  \* permits of _semaphore
  None            \* no task

ASSUME ProactiveAssumption ==
  /\ Unusable \subseteq Tasks
  /\ IsFiniteSet(Jobs)
  /\ MaxConcurrent \in Nat \ {0}
  /\ None \notin Tasks

VARIABLES
  rows,      \* the proactive_tasks table
  loop,      \* where start() and _check_loop are
  list,      \* what is left of the list read from the store
  inflight,  \* _inflight_task_ids
  jobs       \* the tasks of _inflight

vars == <<rows, loop, list, inflight, jobs>>
-----------------------------------------------------------------------------
Row == [life : {"new", "yes", "gone"}, enabled : BOOLEAN, due : BOOLEAN]

\* "read" and "advance" wait for a worker thread, "have" and "advanced" for the
\* event loop after it; "dead" is a start() that raised: _running, but no loop.
Places == {"down", "read", "have", "scan", "advance", "advanced", "asleep", "dead"}

Loop == [at : Places, starting : BOOLEAN, of : Tasks \cup {None}]

At(place) == [loop EXCEPT !.at = place, !.of = None]

Stopped == [at |-> "down", starting |-> FALSE, of |-> None]

\* queued waits for the semaphore, recording for the store; settled has the
\* outcome of the write but has not left _guarded_execute.
Free == [phase |-> "free", of |-> None]

Job == {Free} \cup [phase : {"queued", "running", "recording", "settled"}, of : Tasks]

Holding == {j \in Jobs : jobs[j].phase \in {"running", "recording", "settled"}}

LoopFree == loop.at # "scan"

Due == {t \in Tasks : rows[t].life = "yes" /\ rows[t].enabled /\ rows[t].due}
-----------------------------------------------------------------------------
Init ==
  /\ rows = [t \in Tasks |-> [life |-> "new", enabled |-> FALSE, due |-> FALSE]]
  /\ loop = Stopped
  /\ list = {}
  /\ inflight = {}
  /\ jobs = [j \in Jobs |-> Free]

(***************************************************************************)
(* The store.                                                              *)
(***************************************************************************)
\* record_execution: next_run is computed from now, whatever was due.  For an
\* unusable cron_expr the error is logged and nothing is written.
Recorded(t) ==
  IF t \in Unusable \/ rows[t].life # "yes" THEN rows ELSE [rows EXCEPT ![t].due = FALSE]

BecomeDue(t) ==
  /\ rows[t].life = "yes" /\ ~rows[t].due
  /\ rows' = [rows EXCEPT ![t].due = TRUE]
  /\ UNCHANGED <<loop, list, inflight, jobs>>

Add(t) ==
  /\ rows[t].life = "new"
  /\ rows' = [rows EXCEPT ![t] = [life |-> "yes", enabled |-> TRUE, due |-> FALSE]]
  /\ UNCHANGED <<loop, list, inflight, jobs>>

\* pause_task, resume_task.
UpdateEnabled(t, on) ==
  /\ rows[t].life = "yes" /\ rows[t].enabled # on
  /\ rows' = [rows EXCEPT ![t].enabled = on]
  /\ UNCHANGED <<loop, list, inflight, jobs>>

Delete(t) ==
  /\ rows[t].life = "yes"
  /\ rows' = [rows EXCEPT ![t] = [life |-> "gone", enabled |-> FALSE, due |-> FALSE]]
  /\ UNCHANGED <<loop, list, inflight, jobs>>

(***************************************************************************)
(* start(), _recover_missed, _check_loop and _check_and_fire.              *)
(***************************************************************************)
Start ==
  /\ loop.at = "down"
  /\ loop' = [at |-> "read", starting |-> TRUE, of |-> None]
  /\ UNCHANGED <<rows, list, inflight, jobs>>

\* get_missed_tasks_async, get_due_tasks_async: the query in its thread.
Read ==
  /\ loop.at = "read"
  /\ list' = Due
  /\ loop' = At("have")
  /\ UNCHANGED <<rows, inflight, jobs>>

BeginScan ==
  /\ loop.at = "have"
  /\ loop' = At("scan")
  /\ UNCHANGED <<rows, list, inflight, jobs>>

\* Mutant: a task is started again while it is still running.
LaunchAgain(t, j) ==
  /\ loop.at = "scan" /\ t \in list
  /\ jobs[j] = Free
  /\ jobs' = [jobs EXCEPT ![j] = [phase |-> "queued", of |-> t]]
  /\ inflight' = inflight \cup {t}
  /\ list' = list \ {t}
  /\ UNCHANGED <<rows, loop>>

\* _start_execution_task of a task within its active hours.
Launch(t, j) ==
  /\ loop.at = "scan" /\ t \in list
  /\ t \notin inflight
  /\ jobs[j] = Free
  /\ jobs' = [jobs EXCEPT ![j] = [phase |-> "queued", of |-> t]]
  /\ inflight' = inflight \cup {t}
  /\ list' = list \ {t}
  /\ UNCHANGED <<rows, loop>>

\* "skipped because it is already running".
PassOver(t) ==
  /\ loop.at = "scan" /\ t \in list
  /\ t \in inflight
  /\ list' = list \ {t}
  /\ UNCHANGED <<rows, loop, inflight, jobs>>

\* Outside of the active hours: the loop waits for _advance_next_run.
Outside(t) ==
  /\ loop.at = "scan" /\ t \in list
  /\ list' = list \ {t}
  /\ loop' = [loop EXCEPT !.at = "advance", !.of = t]
  /\ UNCHANGED <<rows, inflight, jobs>>

Advance(t) ==
  /\ loop.at = "advance" /\ loop.of = t
  /\ rows' = Recorded(t)
  /\ loop' = At("advanced")
  /\ UNCHANGED <<list, inflight, jobs>>

Continue ==
  /\ loop.at = "advanced"
  /\ loop' = At("scan")
  /\ UNCHANGED <<rows, list, inflight, jobs>>

\* Mutant: a check that fails ends the loop, as a start() that fails does.
StoreFailsForGood ==
  /\ loop.at \in {"read", "advance"}
  /\ list' = {}
  /\ loop' = At("dead")
  /\ UNCHANGED <<rows, inflight, jobs>>

\* The store raises.  The check is given up and the loop goes on; a start() ends
\* with the exception, which the daemon logs.
StoreFails ==
  /\ loop.at \in {"read", "advance"}
  /\ list' = {}
  /\ loop' = IF loop.starting THEN At("dead") ELSE At("asleep")
  /\ UNCHANGED <<rows, inflight, jobs>>

\* The list is done: start() creates the loop, which checks at once.
ScanDone ==
  /\ loop.at = "scan" /\ list = {}
  /\ loop' = [at |-> IF loop.starting THEN "read" ELSE "asleep", starting |-> FALSE, of |-> None]
  /\ UNCHANGED <<rows, list, inflight, jobs>>

Wake ==
  /\ loop.at = "asleep"
  /\ loop' = At("read")
  /\ UNCHANGED <<rows, list, inflight, jobs>>

(***************************************************************************)
(* _guarded_execute.                                                       *)
(***************************************************************************)
To(j, phase) == jobs' = [jobs EXCEPT ![j].phase = phase]

\* Mutant: one permit too many.
AcquireOneMore(j) ==
  /\ LoopFree
  /\ jobs[j].phase = "queued"
  /\ Cardinality(Holding) <= MaxConcurrent
  /\ To(j, "running")
  /\ UNCHANGED <<rows, loop, list, inflight>>

Acquire(j) ==
  /\ LoopFree
  /\ jobs[j].phase = "queued"
  /\ Cardinality(Holding) < MaxConcurrent
  /\ To(j, "running")
  /\ UNCHANGED <<rows, loop, list, inflight>>

\* _execute_task up to the record: the pipeline answered, failed or timed out,
\* and the result was delivered or the delivery's error logged.
Executed(j) ==
  /\ LoopFree
  /\ jobs[j].phase = "running"
  /\ To(j, "recording")
  /\ UNCHANGED <<rows, loop, list, inflight>>

Record(j) ==
  /\ jobs[j].phase = "recording"
  /\ rows' = Recorded(jobs[j].of)
  /\ To(j, "settled")
  /\ UNCHANGED <<loop, list, inflight>>

\* The store raises: the run ends all the same and the row stays due.
RecordFails(j) ==
  /\ jobs[j].phase = "recording"
  /\ To(j, "settled")
  /\ UNCHANGED <<rows, loop, list, inflight>>

\* Mutant: the id is dropped only by a run that was recorded.
LeaveKeepingId(j) ==
  /\ LoopFree
  /\ jobs[j].phase = "settled"
  /\ inflight' = IF rows[jobs[j].of].due THEN inflight ELSE inflight \ {jobs[j].of}
  /\ jobs' = [jobs EXCEPT ![j] = Free]
  /\ UNCHANGED <<rows, loop, list>>

\* The finally clause and the release of the permit.
Leave(j) ==
  /\ LoopFree
  /\ jobs[j].phase = "settled"
  /\ inflight' = inflight \ {jobs[j].of}
  /\ jobs' = [jobs EXCEPT ![j] = Free]
  /\ UNCHANGED <<rows, loop, list>>

\* The process dies; the table stays.
Crash ==
  /\ loop.at # "down"
  /\ loop' = Stopped
  /\ list' = {}
  /\ inflight' = {}
  /\ jobs' = [j \in Jobs |-> Free]
  /\ UNCHANGED rows
-----------------------------------------------------------------------------
User == \E t \in Tasks :
          Add(t) \/ Delete(t) \/ UpdateEnabled(t, TRUE) \/ UpdateEnabled(t, FALSE)

Turn(t) == PassOver(t) \/ Outside(t) \/ \E j \in Jobs : Launch(t, j)

Check ==
  \/ Read \/ BeginScan \/ Continue \/ StoreFails \/ ScanDone \/ Wake
  \/ \E t \in Tasks : Turn(t) \/ Advance(t)

Run(j) == Acquire(j) \/ Executed(j) \/ Record(j) \/ RecordFails(j) \/ Leave(j)

Next ==
  \/ User \/ Start \/ Check \/ Crash
  \/ \E t \in Tasks : BecomeDue(t)
  \/ \E j \in Jobs : Run(j)

Spec == Init /\ [][Next]_vars

\* The service's own steps are fair: the loop and its threads; the semaphore,
\* which serves in order; a run, whose pipeline call is under a 120 s timeout and
\* whose delivery, which is not, is taken to return.  A task's turn in the list
\* comes although checks fail before it: the list is ordered by next_run, and
\* what is done with moves back.  A store asked again and again for one task
\* works at some time.
Fairness ==
  /\ WF_vars(BeginScan \/ Continue \/ ScanDone \/ Wake) /\ SF_vars(Read)
  /\ \A t \in Tasks : SF_vars(Turn(t)) /\ SF_vars(Advance(t))
  /\ \A j \in Jobs : SF_vars(Run(j))

LiveSpec == Spec /\ Fairness
-----------------------------------------------------------------------------
TypeOK ==
  /\ rows \in [Tasks -> Row]
  /\ loop \in Loop
  /\ list \subseteq Tasks
  /\ inflight \subseteq Tasks
  /\ jobs \in [Jobs -> Job]

\* The id set names exactly the tasks with a run, one run each, also when a run
\* fails or is never recorded: an id left behind would silence its task, an id
\* lost would let it run twice at a time (1057-1067, 1127).
InflightExact ==
  /\ inflight = {jobs[j].of : j \in {k \in Jobs : jobs[k] # Free}}
  /\ \A j, k \in Jobs : j # k /\ jobs[j] # Free => jobs[j].of # jobs[k].of

\* A run as SingleFlight sees it.
Flight ==
  [j \in Jobs |->
     CASE jobs[j].phase = "queued" -> [stage |-> "waiting", of |-> jobs[j].of]
       [] j \in Holding -> [stage |-> "executing", of |-> jobs[j].of]
       [] OTHER -> [stage |-> "idle", of |-> None]]

Promise == INSTANCE SingleFlight WITH runs <- Flight, Schedules <- Tasks

\* This scheduler keeps the same promise as SchedulerService: one run of a task
\* at a time, and no more than the semaphore allows, across failures and deaths
\* of the process.
RefinesSingleFlight == Promise!Spec

Looping == loop.at \notin {"down", "dead"}

\* The process died, or start() raised: nothing runs any more.
Ended == loop.at = "down" \/ (loop.at = "dead" /\ loop.starting)

Attempted(t) == \E j \in Jobs : jobs[j].of = t

\* A due, enabled task is run or, outside its hours, moved on, unless the process
\* or start() ends: a check that fails costs neither the loop nor the task its next
\* check, and runs of other tasks do not starve it (1013-1055).  An unusable task
\* is never moved on: outside its hours it is listed again at every check.
DueIsAttempted ==
  \A t \in Tasks \ Unusable :
    (Looping /\ t \in Due) ~> (Ended \/ Attempted(t) \/ t \notin Due)

\* Every run ends and frees its task, also one whose record failed (1121-1128).
EveryRunEnds == \A t \in Tasks : t \in inflight ~> t \notin inflight
=============================================================================
