------------------------------ MODULE Scheduler ------------------------------
(***************************************************************************)
(* SchedulerService (services/scheduler/service.py) over ScheduleStore     *)
(* (services/scheduler/store.py): the poll loop, the runs it spawns, the   *)
(* rows they are recorded in, and the user's edits of those rows.          *)
(*                                                                         *)
(* Two kinds of concurrency are told apart.  Coroutines of the event loop  *)
(* interleave only at an await: while the poll loop is between two awaits  *)
(* (checker = "scan") no other coroutine moves.  Store calls run in worker *)
(* threads, so a commit may fall anywhere.                                 *)
(*                                                                         *)
(* Time is abstracted to the three facts the code computes from it: a row  *)
(* is due (next_run_at <= now), a one-shot is stale (due for over 24 h),   *)
(* a row is cooling (it failed in the last 5 min).                         *)
(***************************************************************************)
EXTENDS Integers, FiniteSets

CONSTANTS
  Schedules,      \* schedule ids; AUTOINCREMENT never reuses one
  OneShots,       \* those with one_shot_at; the others recur by cron_expr
  Instant,        \* those whose action is an instant command: no LLM needed
  Crons,          \* cron expressions a recurring schedule may be given
  Editable,       \* bound: those the user edits once they are added
  Jobs,           \* identities of runs and of store writes in progress
  MaxConcurrent,  \* _MAX_CONCURRENT_SUBAGENTS
  MaxFailures,    \* MAX_CONSECUTIVE_FAILURES
  None            \* no schedule, no snapshot, no cron expression

ASSUME SchedulerAssumption ==
  /\ OneShots \subseteq Schedules
  /\ Instant \subseteq Schedules
  /\ Editable \subseteq Schedules
  /\ Crons # {}
  /\ IsFiniteSet(Jobs)
  /\ MaxConcurrent \in Nat \ {0}
  /\ MaxFailures \in Nat \ {0}
  /\ None \notin Schedules \cup Crons

VARIABLES
  rows,       \* the schedules table
  lifecycle,  \* where start() and stop() are
  checker,    \* where _check_loop is
  snap,       \* what is left of the due list _check_and_fire iterates over
  healthy,    \* llm_healthy, read once per check (TRUE outside of one)
  inflight,   \* _inflight_ids
  jobs,       \* the tasks of _inflight_tasks, and store writes in worker threads
  enabling    \* enable() calls between their two commits, with the cron they read

vars == <<rows, lifecycle, checker, snap, healthy, inflight, jobs, enabling>>
-----------------------------------------------------------------------------
Recurring == Schedules \ OneShots

Row == [life : {"new", "yes", "gone"}, enabled : BOOLEAN, due : BOOLEAN,
        stale : BOOLEAN, cooling : BOOLEAN, failures : 0 .. MaxFailures,
        cron : Crons \cup {None}, plan : Crons \cup {None}]

\* The columns of a Schedule object that the code reads after the query.
Snapshot == [stale : BOOLEAN, cooling : BOOLEAN, cron : Crons \cup {None}]

\* "error" is also what a timeout records; "invalid" is an unusable cron_expr.
Outcome == {"ok", "error", "invalid", "skipped"}

Failed == {"error", "invalid"}

Free == [phase |-> "free", sid |-> None, cron |-> None, outcome |-> "ok"]

Enabling == [sid : Schedules, cron : Crons \cup {None}]

\* queued .. settled are the stages of _guarded_execute; "skip" is the write
\* of _skip_stale_one_shot; "orphan" is a write whose caller was cancelled.
LivePhases == {"queued", "running", "recording", "settled"}

Holding == {"running", "recording", "settled"}

Job == {Free} \cup [phase : LivePhases \cup {"skip", "orphan"}, sid : Schedules,
                    cron : Crons \cup {None}, outcome : Outcome]

Live(j) == jobs[j].phase \in LivePhases

LoopFree == checker # "scan"
-----------------------------------------------------------------------------
Init ==
  /\ rows = [s \in Schedules |->
               [life |-> "new", enabled |-> FALSE, due |-> FALSE, stale |-> FALSE,
                cooling |-> FALSE, failures |-> 0, cron |-> None, plan |-> None]]
  /\ lifecycle = "stopped"
  /\ checker = "off"
  /\ snap = [s \in Schedules |-> None]
  /\ healthy = TRUE
  /\ inflight = {}
  /\ jobs = [j \in Jobs |-> Free]
  /\ enabling = {}

(***************************************************************************)
(* The store: what each statement does to a row.                           *)
(***************************************************************************)
AtMost(n) == IF n < MaxFailures THEN n ELSE MaxFailures

Failures(row, outcome) == IF outcome \in Failed THEN AtMost(row.failures + 1) ELSE 0

\* record_execution with next_run_at = None: a one-shot, or an unusable cron.
\* Nothing reads the failures of a one-shot, so they stay 0 here.
Retired(row, outcome) ==
  [row EXCEPT !.enabled = FALSE,
              !.cooling = outcome \in Failed,
              !.failures = IF row.cron = None THEN 0 ELSE Failures(row, outcome)]

\* record_execution with the next_run_at computed from the run's own cron.
Advanced(row, outcome, cron) ==
  LET trips == outcome \in Failed /\ Failures(row, outcome) >= MaxFailures
  IN  [row EXCEPT !.due = FALSE,
                  !.plan = cron,
                  !.cooling = outcome \in Failed,
                  !.failures = Failures(row, outcome),
                  !.enabled = row.enabled /\ ~trips]

RecordExecution(j) ==
  LET s == jobs[j].sid
      o == jobs[j].outcome
  IN  rows' = IF rows[s].life # "yes" THEN rows
              ELSE [rows EXCEPT ![s] = IF s \in OneShots \/ o = "invalid"
                                       THEN Retired(@, o)
                                       ELSE Advanced(@, o, jobs[j].cron)]

(***************************************************************************)
(* Time.                                                                   *)
(***************************************************************************)
BecomeDue(s) ==
  /\ rows[s].life = "yes" /\ ~rows[s].due
  /\ rows' = [rows EXCEPT ![s].due = TRUE]
  /\ UNCHANGED <<lifecycle, checker, snap, healthy, inflight, jobs, enabling>>

GoStale(s) ==
  /\ s \in OneShots /\ rows[s].life = "yes" /\ rows[s].due /\ ~rows[s].stale
  /\ rows' = [rows EXCEPT ![s].stale = TRUE]
  /\ UNCHANGED <<lifecycle, checker, snap, healthy, inflight, jobs, enabling>>

CoolDown(s) ==
  /\ rows[s].cooling
  /\ rows' = [rows EXCEPT ![s].cooling = FALSE]
  /\ UNCHANGED <<lifecycle, checker, snap, healthy, inflight, jobs, enabling>>

(***************************************************************************)
(* The user's edits, each a commit of its own.                             *)
(***************************************************************************)
UserOnly == UNCHANGED <<lifecycle, checker, snap, healthy, inflight, jobs>>

Add(s, cron) ==
  /\ rows[s].life = "new"
  /\ cron \in IF s \in OneShots THEN {None} ELSE Crons
  /\ rows' = [rows EXCEPT ![s] = [@ EXCEPT !.life = "yes", !.enabled = TRUE,
                                          !.cron = cron, !.plan = cron]]
  /\ UserOnly /\ UNCHANGED enabling

\* update(enabled=...): disable(), and the schedule_update tool.
SetEnabled(s, b) ==
  /\ rows[s].life = "yes"
  /\ rows' = [rows EXCEPT ![s].enabled = b]
  /\ UserOnly /\ UNCHANGED enabling

\* update(cron_expr=...): the table's CHECK refuses it on a one-shot.
Reschedule(s, cron) ==
  /\ rows[s].life = "yes" /\ s \in Recurring
  /\ rows' = [rows EXCEPT ![s] = [@ EXCEPT !.cron = cron, !.plan = cron, !.due = FALSE]]
  /\ UserOnly /\ UNCHANGED enabling

Delete(s) ==
  /\ rows[s].life = "yes"
  /\ rows' = [rows EXCEPT ![s] = [@ EXCEPT !.life = "gone", !.enabled = FALSE, !.due = FALSE,
                                          !.stale = FALSE, !.cooling = FALSE, !.failures = 0]]
  /\ UserOnly /\ UNCHANGED enabling

\* enable(), first commit: reset_consecutive_failures.
EnableReset(s) ==
  /\ rows[s].life = "yes"
  /\ \A e \in enabling : e.sid # s
  /\ rows' = [rows EXCEPT ![s].failures = 0]
  /\ enabling' = enabling \cup {[sid |-> s, cron |-> rows[s].cron]}
  /\ UserOnly

\* enable(), second commit: next_run_at is recomputed for a cron row only.
EnableCommit(e) ==
  /\ rows' = IF rows[e.sid].life # "yes" THEN rows
             ELSE [rows EXCEPT ![e.sid] =
                     [@ EXCEPT !.enabled = TRUE, !.plan = e.cron,
                               !.due = e.sid \in OneShots /\ rows[e.sid].due]]
  /\ enabling' = enabling \ {e}
  /\ UserOnly

(***************************************************************************)
(* The poll loop.                                                          *)
(***************************************************************************)
StoreOnly == UNCHANGED <<rows, enabling>>

\* start(): the loop is created, its first check comes at once.
Start ==
  /\ lifecycle = "stopped"
  /\ lifecycle' = "running"
  /\ checker' = "sleep"
  /\ StoreOnly /\ UNCHANGED <<snap, healthy, inflight, jobs>>

\* The worker thread reads the due rows; the loop has yet to resume.
QueryDue ==
  /\ checker = "sleep"
  /\ checker' = "read"
  /\ snap' = [s \in Schedules |->
                IF rows[s].enabled /\ rows[s].due
                THEN [stale |-> rows[s].stale, cooling |-> rows[s].cooling, cron |-> rows[s].cron]
                ELSE None]
  /\ StoreOnly /\ UNCHANGED <<lifecycle, healthy, inflight, jobs>>

BeginScan(h) ==
  /\ checker = "read"
  /\ checker' = "scan"
  /\ healthy' = h
  /\ StoreOnly /\ UNCHANGED <<lifecycle, snap, inflight, jobs>>

\* Mutant: an instant command too is passed over when the LLM is unhealthy.
PassOverAny(s) ==
  /\ checker = "scan" /\ snap[s] # None
  /\ s \in inflight \/ (~snap[s].stale /\ (snap[s].cooling \/ ~healthy))
  /\ snap' = [snap EXCEPT ![s] = None]
  /\ StoreOnly /\ UNCHANGED <<lifecycle, checker, healthy, inflight, jobs>>

\* One turn of the loop over the due list, for a row it passes over.
PassOver(s) ==
  /\ checker = "scan" /\ snap[s] # None
  /\ \/ s \in inflight
     \/ ~snap[s].stale /\ snap[s].cooling
     \/ ~snap[s].stale /\ ~healthy /\ s \notin Instant
  /\ snap' = [snap EXCEPT ![s] = None]
  /\ StoreOnly /\ UNCHANGED <<lifecycle, checker, healthy, inflight, jobs>>

\* ... for a stale one-shot: the loop awaits the write that retires it.
SkipStale(s, j) ==
  /\ checker = "scan" /\ snap[s] # None
  /\ s \notin inflight
  /\ snap[s].stale
  /\ jobs[j] = Free
  /\ jobs' = [jobs EXCEPT ![j] = [phase |-> "skip", sid |-> s, cron |-> None,
                                  outcome |-> "skipped"]]
  /\ snap' = [snap EXCEPT ![s] = None]
  /\ checker' = "skip"
  /\ StoreOnly /\ UNCHANGED <<lifecycle, healthy, inflight>>

\* Mutant: no in-flight guard.
LaunchUnguarded(s, j) ==
  /\ checker = "scan" /\ snap[s] # None
  /\ ~snap[s].stale /\ ~snap[s].cooling
  /\ healthy \/ s \in Instant
  /\ jobs[j] = Free
  /\ jobs' = [jobs EXCEPT ![j] = [phase |-> "queued", sid |-> s, cron |-> snap[s].cron,
                                  outcome |-> "ok"]]
  /\ inflight' = inflight \cup {s}
  /\ snap' = [snap EXCEPT ![s] = None]
  /\ StoreOnly /\ UNCHANGED <<lifecycle, checker, healthy>>

\* ... for a row that fires.
Launch(s, j) ==
  /\ checker = "scan" /\ snap[s] # None
  /\ s \notin inflight
  /\ ~snap[s].stale /\ ~snap[s].cooling
  /\ healthy \/ s \in Instant
  /\ jobs[j] = Free
  /\ jobs' = [jobs EXCEPT ![j] = [phase |-> "queued", sid |-> s, cron |-> snap[s].cron,
                                  outcome |-> "ok"]]
  /\ inflight' = inflight \cup {s}
  /\ snap' = [snap EXCEPT ![s] = None]
  /\ StoreOnly /\ UNCHANGED <<lifecycle, checker, healthy>>

ScanDone ==
  /\ checker = "scan"
  /\ \A s \in Schedules : snap[s] = None
  /\ checker' = "sleep"
  /\ healthy' = TRUE
  /\ StoreOnly /\ UNCHANGED <<lifecycle, snap, inflight, jobs>>

\* The skip is committed, or raises and is logged; the loop goes on.
SkipCommits(j) ==
  /\ jobs[j].phase = "skip"
  /\ RecordExecution(j)
  /\ jobs' = [jobs EXCEPT ![j] = Free]
  /\ checker' = "scan"
  /\ UNCHANGED <<lifecycle, snap, healthy, inflight, enabling>>

SkipFails(j) ==
  /\ jobs[j].phase = "skip"
  /\ jobs' = [jobs EXCEPT ![j] = Free]
  /\ checker' = "scan"
  /\ StoreOnly /\ UNCHANGED <<lifecycle, snap, healthy, inflight>>

(***************************************************************************)
(* A run: _guarded_execute and _execute_schedule.                          *)
(***************************************************************************)
JobOnly == UNCHANGED <<lifecycle, checker, snap, healthy, enabling>>

Serving == lifecycle \in {"running", "draining"}

\* Mutant: a run does not wait for a permit.
AcquireFreely(j) ==
  /\ LoopFree /\ Serving
  /\ jobs[j].phase = "queued"
  /\ jobs' = [jobs EXCEPT ![j].phase = "running"]
  /\ JobOnly /\ UNCHANGED <<rows, inflight>>

Acquire(j) ==
  /\ LoopFree /\ Serving
  /\ jobs[j].phase = "queued"
  /\ Cardinality({k \in Jobs : jobs[k].phase \in Holding}) < MaxConcurrent
  /\ jobs' = [jobs EXCEPT ![j].phase = "running"]
  /\ JobOnly /\ UNCHANGED <<rows, inflight>>

\* The sub-agent returns, raises, or exceeds the timeout; or its cron turns
\* out unusable before it starts.
Finish(j, o) ==
  /\ LoopFree /\ Serving
  /\ jobs[j].phase = "running"
  /\ o = "invalid" => jobs[j].sid \in Recurring
  /\ jobs' = [jobs EXCEPT ![j] = [@ EXCEPT !.phase = "recording", !.outcome = o]]
  /\ JobOnly /\ UNCHANGED <<rows, inflight>>

\* The worker thread commits record_execution.
CommitRecord(j) ==
  /\ jobs[j].phase = "recording"
  /\ RecordExecution(j)
  /\ jobs' = [jobs EXCEPT ![j] = [@ EXCEPT !.phase = "settled", !.outcome = "ok"]]
  /\ JobOnly /\ UNCHANGED inflight

\* It raises: a failed "ok" record is retried as an error, any other is lost.
RecordFails(j) ==
  /\ LoopFree /\ Serving
  /\ jobs[j].phase = "recording"
  /\ jobs' = [jobs EXCEPT ![j] = IF @.outcome = "ok"
                                 THEN [@ EXCEPT !.outcome = "error"]
                                 ELSE [@ EXCEPT !.phase = "settled", !.outcome = "ok"]]
  /\ JobOnly /\ UNCHANGED <<rows, inflight>>

\* Mutant: the in-flight marker outlives the run.
ReleaseLeaks(j) ==
  /\ LoopFree /\ Serving
  /\ jobs[j].phase = "settled"
  /\ jobs' = [jobs EXCEPT ![j] = Free]
  /\ JobOnly /\ UNCHANGED <<rows, inflight>>

\* The permit is returned and the in-flight marker cleared.
Release(j) ==
  /\ LoopFree /\ Serving
  /\ jobs[j].phase = "settled"
  /\ inflight' = inflight \ {jobs[j].sid}
  /\ jobs' = [jobs EXCEPT ![j] = Free]
  /\ JobOnly /\ UNCHANGED rows

(***************************************************************************)
(* stop(): cancel the loop, wait out the grace period, cancel the rest.    *)
(***************************************************************************)
LifecycleOnly == UNCHANGED <<rows, enabling>>

Stop ==
  /\ LoopFree /\ lifecycle = "running"
  /\ lifecycle' = "draining"
  /\ checker' = "off"
  /\ snap' = [s \in Schedules |-> None]
  /\ healthy' = TRUE
  /\ jobs' = [j \in Jobs |-> IF jobs[j].phase = "skip"
                             THEN [jobs[j] EXCEPT !.phase = "orphan"] ELSE jobs[j]]
  /\ LifecycleOnly /\ UNCHANGED inflight

GraceExpires ==
  /\ lifecycle = "draining"
  /\ \E j \in Jobs : Live(j)
  /\ lifecycle' = "cancelling"
  /\ LifecycleOnly /\ UNCHANGED <<checker, snap, healthy, inflight, jobs>>

\* Mutant: the marker is not cleared in a finally.
UnwindLeaks(j) ==
  /\ lifecycle = "cancelling"
  /\ Live(j)
  /\ jobs' = [jobs EXCEPT ![j] = IF @.phase = "recording"
                                 THEN [@ EXCEPT !.phase = "orphan"] ELSE Free]
  /\ LifecycleOnly /\ UNCHANGED <<lifecycle, checker, snap, healthy, inflight>>

\* Mutant: a run that is being recorded swallows its cancellation.
UnwindUnrecorded(j) ==
  /\ lifecycle = "cancelling"
  /\ jobs[j].phase \in {"queued", "running"}
  /\ inflight' = inflight \ {jobs[j].sid}
  /\ jobs' = [jobs EXCEPT ![j] = Free]
  /\ LifecycleOnly /\ UNCHANGED <<lifecycle, checker, snap, healthy>>

\* A cancelled task unwinds; its write, if any, is still in a worker thread.
Unwind(j) ==
  /\ lifecycle = "cancelling"
  /\ Live(j)
  /\ inflight' = inflight \ {jobs[j].sid}
  /\ jobs' = [jobs EXCEPT ![j] = IF @.phase = "recording"
                                 THEN [@ EXCEPT !.phase = "orphan"] ELSE Free]
  /\ LifecycleOnly /\ UNCHANGED <<lifecycle, checker, snap, healthy>>

OrphanEnds(j) ==
  /\ jobs[j].phase = "orphan"
  /\ RecordExecution(j) \/ UNCHANGED rows
  /\ jobs' = [jobs EXCEPT ![j] = Free]
  /\ JobOnly /\ UNCHANGED inflight

\* Mutant: stop() cancels what is left and returns without gathering it.
StopReturnsEarly ==
  /\ lifecycle \in {"draining", "cancelling"}
  /\ lifecycle' = "stopped"
  /\ LifecycleOnly /\ UNCHANGED <<checker, snap, healthy, inflight, jobs>>

StopReturns ==
  /\ lifecycle \in {"draining", "cancelling"}
  /\ \A j \in Jobs : ~Live(j)
  /\ lifecycle' = "stopped"
  /\ LifecycleOnly /\ UNCHANGED <<checker, snap, healthy, inflight, jobs>>

\* The process dies: the table survives, everything else is lost.
Crash ==
  /\ lifecycle' = "stopped"
  /\ checker' = "off"
  /\ snap' = [s \in Schedules |-> None]
  /\ healthy' = TRUE
  /\ inflight' = {}
  /\ jobs' = [j \in Jobs |-> Free]
  /\ enabling' = {}
  /\ UNCHANGED rows
-----------------------------------------------------------------------------
Clock == \E s \in Schedules : BecomeDue(s) \/ GoStale(s) \/ CoolDown(s)

User ==
  \/ \E s \in Schedules, cron \in Crons \cup {None} : Add(s, cron)
  \/ \E s \in Editable :
       \/ \E cron \in Crons : Reschedule(s, cron)
       \/ \E b \in BOOLEAN : SetEnabled(s, b)
       \/ Delete(s) \/ EnableReset(s)
  \/ \E e \in enabling : EnableCommit(e)

Check ==
  \/ QueryDue \/ ScanDone
  \/ \E h \in BOOLEAN : BeginScan(h)
  \/ \E s \in Schedules : PassOver(s) \/ \E j \in Jobs : Launch(s, j) \/ SkipStale(s, j)
  \/ \E j \in Jobs : SkipCommits(j) \/ SkipFails(j)

Work(j) ==
  \/ Acquire(j) \/ CommitRecord(j) \/ RecordFails(j) \/ Release(j)
  \/ \E o \in Outcome \ {"skipped"} : Finish(j, o)
  \/ Unwind(j) \/ OrphanEnds(j)

Next ==
  \/ Clock \/ User \/ Check
  \/ \E j \in Jobs : Work(j)
  \/ Start \/ Stop \/ GraceExpires \/ StopReturns \/ Crash

Spec == Init /\ [][Next]_vars

(***************************************************************************)
(* Fairness: the poll loop keeps going, worker threads finish, stop() gets *)
(* on with it, and five minutes pass.  The event loop and the semaphore    *)
(* serve their waiters in order, hence SF for the steps of a run that a    *)
(* scan or a full semaphore can hold up; a sub-agent is bounded by its     *)
(* timeout.  Nobody is obliged to start, stop or edit, or to make the LLM  *)
(* healthy.                                                                *)
(***************************************************************************)
Fairness ==
  /\ WF_vars(Check)
  /\ WF_vars(GraceExpires \/ StopReturns \/ \E j \in Jobs : Unwind(j))
  /\ \A s \in Schedules : WF_vars(CoolDown(s))
  /\ \A j \in Jobs :
       /\ SF_vars(Acquire(j) \/ Release(j) \/ \E o \in Outcome \ {"skipped"} : Finish(j, o))
       /\ WF_vars(CommitRecord(j) \/ RecordFails(j) \/ OrphanEnds(j))

FairSpec == Spec /\ Fairness
-----------------------------------------------------------------------------
TypeOK ==
  /\ rows \in [Schedules -> Row]
  /\ lifecycle \in {"stopped", "running", "draining", "cancelling"}
  /\ checker \in {"off", "sleep", "read", "scan", "skip"}
  /\ snap \in [Schedules -> Snapshot \cup {None}]
  /\ healthy \in BOOLEAN
  /\ inflight \subseteq Schedules
  /\ jobs \in [Jobs -> Job]
  /\ enabling \subseteq Enabling

\* No two live tasks run the same schedule (the F-015 guard, service.py:267),
\* whatever the order of ticks, slow runs, stops and crashes.
OneRunEach ==
  \A j, k \in Jobs : j # k /\ Live(j) /\ Live(k) => jobs[j].sid # jobs[k].sid

\* _inflight_ids names exactly the schedules that have a live task: an id that
\* outlived its task would silence its schedule until the process restarts, an
\* id dropped early would let the next tick start a second run.
InflightExact == inflight = {jobs[j].sid : j \in {k \in Jobs : Live(k)}}

\* Once stop() has returned no task is left to run anything, and while it waits
\* the poll loop can add none.
StopIsFinal ==
  /\ lifecycle = "stopped" => \A j \in Jobs : ~Live(j)
  /\ lifecycle # "running" => checker = "off" /\ \A j \in Jobs : jobs[j].phase # "skip"

\* Runs as the abstract specification sees them.
Flight == [j \in Jobs |->
             CASE jobs[j].phase = "queued"  -> [stage |-> "waiting", of |-> jobs[j].sid]
               [] jobs[j].phase \in Holding -> [stage |-> "executing", of |-> jobs[j].sid]
               [] OTHER                     -> [stage |-> "idle", of |-> None]]

Promise == INSTANCE SingleFlight WITH runs <- Flight

\* The scheduler's tasks behave as SingleFlight promises: a launch is always of
\* a schedule with no run, and a task executes only with a permit.
RefinesSingleFlight == Promise!Spec

Attempted(s) == \E j \in Jobs : jobs[j].sid = s /\ jobs[j].phase # "free"

\* A due, enabled schedule with an instant action is attempted whatever the
\* LLM's health, as long as the scheduler runs: neither a lost in-flight id nor
\* a backoff silences it for good (service.py:69, 649-656).
InstantDueIsAttempted ==
  \A s \in Instant :
    (lifecycle = "running" /\ rows[s].enabled /\ rows[s].due)
      ~> (lifecycle # "running" \/ Attempted(s) \/ ~rows[s].enabled \/ ~rows[s].due)

\* Every run ends and frees its schedule, though its record may fail and though
\* the scheduler may be stopped or die under it.
EveryRunEnds == \A s \in Schedules : s \in inflight ~> s \notin inflight

\* stop() returns: the grace period and the cancellation leave no one waiting.
StopEnds == lifecycle = "draining" ~> lifecycle = "stopped"
-----------------------------------------------------------------------------
(***************************************************************************)
(* What the repository's own words say and the code does not do.           *)
(***************************************************************************)

\* "Disable a schedule (it won't fire until re-enabled)", service.py:499: a
\* run begins only for a row that is not disabled.
DisabledNeverFires ==
  [][\A j \in Jobs : (jobs[j].phase = "queued" /\ jobs'[j].phase = "running")
        => LET row == rows[jobs[j].sid] IN row.life = "yes" => row.enabled]_vars

\* The in-flight guard is there so that no run "would fire twice for the same
\* due row", service.py:621: a run is launched only for a row that is still due.
DueRowFiresOnce ==
  [][\A j \in Jobs : (jobs[j] = Free /\ jobs'[j].phase = "queued")
        => rows[jobs'[j].sid].due]_vars

\* "If cron_expr is changed, next_run_at is recomputed", service.py:418: once a
\* run is recorded, an enabled row's next run is planned by the cron_expr it has.
RecordKeepsPlan ==
  [][\A j \in Jobs : (jobs[j].phase = "recording" /\ jobs'[j].phase = "settled")
        => LET row == rows'[jobs[j].sid] IN row.enabled => row.plan = row.cron]_vars

\* "When a user manually re-enables a schedule ... the consecutive failure
\* counter is reset so it gets a fresh start", service.py:476: no recurring row
\* is enabled with its failures used up.
FreshStart ==
  \A s \in Recurring : rows[s].enabled => rows[s].failures < MaxFailures
=============================================================================
