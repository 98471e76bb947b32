-------------------------- MODULE SchedulerProofs --------------------------
(***************************************************************************)
(* Scheduler for every set of schedules, jobs and cron expressions: its    *)
(* variables keep their types, _inflight_ids is exact, a schedule never    *)
(* has two runs, a returned stop() leaves none, and the whole implements   *)
(* SingleFlight.                                                           *)
(***************************************************************************)
EXTENDS Scheduler, TLAPS

USE SchedulerAssumption
-----------------------------------------------------------------------------
(***************************************************************************)
(* The store's statements keep a row a row.                                *)
(***************************************************************************)
LEMMA FailuresType ==
  ASSUME NEW row \in Row, NEW o \in Outcome
  PROVE  Failures(row, o) \in 0 .. MaxFailures
BY DEF Failures, AtMost, Row

LEMMA RetiredRow ==
  ASSUME NEW row \in Row, NEW enabled \in BOOLEAN, NEW cooling \in BOOLEAN,
         NEW failures \in 0 .. MaxFailures
  PROVE  [row EXCEPT !.enabled = enabled, !.cooling = cooling, !.failures = failures] \in Row
BY DEF Row

LEMMA AdvancedRow ==
  ASSUME NEW row \in Row, NEW due \in BOOLEAN, NEW plan \in Crons \cup {None},
         NEW cooling \in BOOLEAN, NEW failures \in 0 .. MaxFailures, NEW enabled \in BOOLEAN
  PROVE  [row EXCEPT !.due = due, !.plan = plan, !.cooling = cooling,
                     !.failures = failures, !.enabled = enabled] \in Row
BY DEF Row

LEMMA DeletedRow ==
  ASSUME NEW row \in Row, NEW enabled \in BOOLEAN, NEW due \in BOOLEAN, NEW stale \in BOOLEAN,
         NEW cooling \in BOOLEAN, NEW failures \in 0 .. MaxFailures
  PROVE  [row EXCEPT !.life = "gone", !.enabled = enabled, !.due = due, !.stale = stale,
                     !.cooling = cooling, !.failures = failures] \in Row
BY DEF Row

\* The statements that set columns to given values.
LEMMA RowEdits ==
  ASSUME NEW row \in Row, NEW b \in BOOLEAN, NEW cron \in Crons \cup {None}
  PROVE  /\ [row EXCEPT !.due = b] \in Row
         /\ [row EXCEPT !.stale = b] \in Row
         /\ [row EXCEPT !.cooling = b] \in Row
         /\ [row EXCEPT !.enabled = b] \in Row
         /\ [row EXCEPT !.failures = 0] \in Row
         /\ [row EXCEPT !.cron = cron, !.plan = cron, !.due = FALSE] \in Row
         /\ [row EXCEPT !.life = "yes", !.enabled = TRUE, !.cron = cron, !.plan = cron] \in Row
         /\ [row EXCEPT !.enabled = TRUE, !.plan = cron, !.due = b] \in Row
         /\ [row EXCEPT !.life = "gone", !.enabled = FALSE, !.due = FALSE, !.stale = FALSE,
                        !.cooling = FALSE, !.failures = 0] \in Row
<1>1. /\ [row EXCEPT !.due = b] \in Row
      /\ [row EXCEPT !.stale = b] \in Row
      /\ [row EXCEPT !.cooling = b] \in Row
      /\ [row EXCEPT !.enabled = b] \in Row
  BY DEF Row
<1>2. [row EXCEPT !.failures = 0] \in Row
  BY DEF Row
<1>3. [row EXCEPT !.cron = cron, !.plan = cron, !.due = FALSE] \in Row
  BY DEF Row
<1>4. [row EXCEPT !.life = "yes", !.enabled = TRUE, !.cron = cron, !.plan = cron] \in Row
  BY DEF Row
<1>5. [row EXCEPT !.enabled = TRUE, !.plan = cron, !.due = b] \in Row
  BY DEF Row
<1>6. [row EXCEPT !.life = "gone", !.enabled = FALSE, !.due = FALSE, !.stale = FALSE,
                  !.cooling = FALSE, !.failures = 0] \in Row
  <2>1. FALSE \in BOOLEAN /\ 0 \in 0 .. MaxFailures
    OBVIOUS
  <2> QED
    BY <2>1, DeletedRow, Zenon
<1> QED
  BY <1>1, <1>2, <1>3, <1>4, <1>5, <1>6

LEMMA RetiredType ==
  ASSUME NEW row \in Row, NEW o \in Outcome
  PROVE  Retired(row, o) \in Row
<1> DEFINE cooling == o \in Failed
           failures == IF row.cron = None THEN 0 ELSE Failures(row, o)
<1>1. cooling \in BOOLEAN
  OBVIOUS
<1>2. failures \in 0 .. MaxFailures
  BY FailuresType
<1>3. Retired(row, o) = [row EXCEPT !.enabled = FALSE, !.cooling = cooling, !.failures = failures]
  BY Zenon DEF Retired
<1> HIDE DEF cooling, failures
<1>4. [row EXCEPT !.enabled = FALSE, !.cooling = cooling, !.failures = failures] \in Row
  BY <1>1, <1>2, RetiredRow, Zenon
<1> QED
  BY <1>3, <1>4, Zenon

LEMMA AdvancedType ==
  ASSUME NEW row \in Row, NEW o \in Outcome, NEW cron \in Crons \cup {None}
  PROVE  Advanced(row, o, cron) \in Row
<1> DEFINE cooling == o \in Failed
           enabled == row.enabled /\ ~(o \in Failed /\ Failures(row, o) >= MaxFailures)
<1>1. cooling \in BOOLEAN /\ enabled \in BOOLEAN
  OBVIOUS
<1>2. Advanced(row, o, cron) =
        [row EXCEPT !.due = FALSE, !.plan = cron, !.cooling = cooling,
                    !.failures = Failures(row, o), !.enabled = enabled]
  BY Zenon DEF Advanced
<1> HIDE DEF cooling, enabled
<1>3. [row EXCEPT !.due = FALSE, !.plan = cron, !.cooling = cooling,
                  !.failures = Failures(row, o), !.enabled = enabled] \in Row
  BY <1>1, FailuresType, AdvancedRow, Zenon
<1> QED
  BY <1>2, <1>3, Zenon

LEMMA RecordType ==
  ASSUME TypeOK, NEW j \in Jobs, jobs[j] # Free, RecordExecution(j)
  PROVE  rows' \in [Schedules -> Row]
<1>1. /\ jobs[j].sid \in Schedules
      /\ jobs[j].outcome \in Outcome
      /\ jobs[j].cron \in Crons \cup {None}
  BY DEF TypeOK, Job
<1>2. rows[jobs[j].sid] \in Row
  BY <1>1 DEF TypeOK
<1>3. /\ Retired(rows[jobs[j].sid], jobs[j].outcome) \in Row
      /\ Advanced(rows[jobs[j].sid], jobs[j].outcome, jobs[j].cron) \in Row
  BY <1>1, <1>2, RetiredType, AdvancedType
<1> QED
  BY <1>3 DEF RecordExecution, TypeOK

\* A job in progress stays a job as it moves to another stage.
LEMMA JobStages ==
  ASSUME NEW job \in Job, job # Free, NEW o \in Outcome
  PROVE  /\ [job EXCEPT !.outcome = o] \in Job
         /\ \A phase \in LivePhases \cup {"orphan"} :
              /\ [job EXCEPT !.phase = phase] \in Job
              /\ [job EXCEPT !.phase = phase, !.outcome = o] \in Job
BY DEF Job

(***************************************************************************)
(* Types.                                                                  *)
(***************************************************************************)
\* Every variable keeps its type, whatever users, clock, threads and crashes do.
THEOREM TypeCorrect == Spec => []TypeOK
<1>1. Init => TypeOK
  BY DEF Init, TypeOK, Row, Snapshot, Job, Free
<1>2. TypeOK /\ [Next]_vars => TypeOK'
  <2> SUFFICES ASSUME TypeOK, [Next]_vars PROVE TypeOK'
    OBVIOUS
  <2>0. \A s \in Schedules : rows[s] \in Row
    BY DEF TypeOK
  <2>1. CASE Clock
    <3>1. ASSUME NEW s \in Schedules, BecomeDue(s) \/ GoStale(s) \/ CoolDown(s) PROVE TypeOK'
      <4>1. /\ [rows[s] EXCEPT !.due = TRUE] \in Row
            /\ [rows[s] EXCEPT !.stale = TRUE] \in Row
            /\ [rows[s] EXCEPT !.cooling = FALSE] \in Row
        BY <2>0, RowEdits
      <4>2. rows' \in [Schedules -> Row]
        <5>1. CASE BecomeDue(s)
          BY <4>1, <5>1 DEF BecomeDue, TypeOK
        <5>2. CASE GoStale(s)
          BY <4>1, <5>2 DEF GoStale, TypeOK
        <5>3. CASE CoolDown(s)
          BY <4>1, <5>3 DEF CoolDown, TypeOK
        <5> QED
          BY <3>1, <5>1, <5>2, <5>3
      <4> QED
        BY <3>1, <4>2 DEF BecomeDue, GoStale, CoolDown, TypeOK
    <3> QED
      BY <2>1, <3>1 DEF Clock
  <2>2. CASE User
    <3>1. ASSUME NEW s \in Schedules, NEW cron \in Crons \cup {None}, Add(s, cron) PROVE TypeOK'
      <4>1. [rows[s] EXCEPT !.life = "yes", !.enabled = TRUE, !.cron = cron, !.plan = cron] \in Row
        BY <2>0, RowEdits
      <4> QED
        BY <3>1, <4>1 DEF Add, UserOnly, TypeOK
    <3>2. ASSUME NEW s \in Schedules, NEW b \in BOOLEAN, SetEnabled(s, b) PROVE TypeOK'
      <4>1. [rows[s] EXCEPT !.enabled = b] \in Row
        BY <2>0, RowEdits
      <4> QED
        BY <3>2, <4>1 DEF SetEnabled, UserOnly, TypeOK
    <3>3. ASSUME NEW s \in Schedules, NEW cron \in Crons, Reschedule(s, cron) PROVE TypeOK'
      <4>1. [rows[s] EXCEPT !.cron = cron, !.plan = cron, !.due = FALSE] \in Row
        BY <2>0, RowEdits
      <4> QED
        BY <3>3, <4>1 DEF Reschedule, UserOnly, TypeOK
    <3>4. ASSUME NEW s \in Schedules, Delete(s) PROVE TypeOK'
      <4>1. [rows[s] EXCEPT !.life = "gone", !.enabled = FALSE, !.due = FALSE, !.stale = FALSE,
                            !.cooling = FALSE, !.failures = 0] \in Row
        BY <2>0, RowEdits
      <4> QED
        BY <3>4, <4>1 DEF Delete, UserOnly, TypeOK
    <3>5. ASSUME NEW s \in Schedules, EnableReset(s) PROVE TypeOK'
      <4>1. [rows[s] EXCEPT !.failures = 0] \in Row
        BY <2>0, RowEdits
      <4>2. rows[s].cron \in Crons \cup {None}
        BY <2>0 DEF Row
      <4> QED
        BY <3>5, <4>1, <4>2 DEF EnableReset, UserOnly, TypeOK, Enabling
    <3>6. ASSUME NEW e \in enabling, EnableCommit(e) PROVE TypeOK'
      <4> DEFINE due == e.sid \in OneShots /\ rows[e.sid].due
      <4>1. e.sid \in Schedules /\ e.cron \in Crons \cup {None} /\ rows[e.sid] \in Row
        BY DEF TypeOK, Enabling
      <4>2. due \in BOOLEAN
        OBVIOUS
      <4>3. [rows[e.sid] EXCEPT !.enabled = TRUE, !.plan = e.cron, !.due = due] \in Row
        <5> HIDE DEF due
        <5> QED
          BY <4>1, <4>2, RowEdits
      <4> QED
        BY <3>6, <4>1, <4>3 DEF EnableCommit, UserOnly, TypeOK
    <3> QED
      BY <2>2, <3>1, <3>2, <3>3, <3>4, <3>5, <3>6 DEF User
  <2>3. CASE Check
    <3>1. CASE QueryDue
      <4>1. \A s \in Schedules :
              [stale |-> rows[s].stale, cooling |-> rows[s].cooling, cron |-> rows[s].cron] \in Snapshot
        BY DEF TypeOK, Row, Snapshot
      <4> QED
        BY <3>1, <4>1 DEF QueryDue, StoreOnly, TypeOK
    <3>2. CASE ScanDone \/ \E h \in BOOLEAN : BeginScan(h)
      BY <3>2 DEF ScanDone, BeginScan, StoreOnly, TypeOK
    <3>3. ASSUME NEW s \in Schedules, PassOver(s) PROVE TypeOK'
      BY <3>3 DEF PassOver, StoreOnly, TypeOK
    <3>4. ASSUME NEW s \in Schedules, NEW j \in Jobs, Launch(s, j) \/ SkipStale(s, j) PROVE TypeOK'
      <4>1. snap[s].cron \in Crons \cup {None}
        BY <3>4 DEF Launch, TypeOK, Snapshot, SkipStale
      <4> QED
        BY <3>4, <4>1 DEF Launch, SkipStale, StoreOnly, TypeOK, Job, LivePhases, Outcome
    <3>5. ASSUME NEW j \in Jobs, SkipCommits(j) PROVE TypeOK'
      BY <3>5, RecordType DEF SkipCommits, TypeOK, Job, Free
    <3>6. ASSUME NEW j \in Jobs, SkipFails(j) PROVE TypeOK'
      BY <3>6 DEF SkipFails, StoreOnly, TypeOK, Job
    <3> QED
      BY <2>3, <3>1, <3>2, <3>3, <3>4, <3>5, <3>6 DEF Check
  <2>4. ASSUME NEW j \in Jobs, Work(j) PROVE TypeOK'
    <3>1. CASE Acquire(j)
      BY <3>1 DEF Acquire, JobOnly, TypeOK, Job, LivePhases, Free
    <3>2. CASE CommitRecord(j)
      <4>0. jobs[j] \in Job /\ jobs[j] # Free
        BY <3>2 DEF CommitRecord, TypeOK, Free
      <4>1. [jobs[j] EXCEPT !.phase = "settled", !.outcome = "ok"] \in Job
        BY <4>0, JobStages DEF LivePhases, Outcome
      <4> QED
        BY <3>2, <4>0, <4>1, RecordType DEF CommitRecord, JobOnly, TypeOK
    <3>3. CASE RecordFails(j)
      <4>0. jobs[j] \in Job /\ jobs[j] # Free
        BY <3>3 DEF RecordFails, TypeOK, Free
      <4>1. /\ [jobs[j] EXCEPT !.phase = "settled", !.outcome = "ok"] \in Job
            /\ [jobs[j] EXCEPT !.outcome = "error"] \in Job
        BY <4>0, JobStages DEF LivePhases, Outcome
      <4> QED
        BY <3>3, <4>1 DEF RecordFails, JobOnly, TypeOK
    <3>4. CASE Release(j)
      BY <3>4 DEF Release, JobOnly, TypeOK, Job
    <3>5. ASSUME NEW o \in Outcome \ {"skipped"}, Finish(j, o) PROVE TypeOK'
      <4>0. jobs[j] \in Job /\ jobs[j] # Free
        BY <3>5 DEF Finish, TypeOK, Free
      <4>1. [jobs[j] EXCEPT !.phase = "recording", !.outcome = o] \in Job
        BY <4>0, JobStages DEF LivePhases, Outcome
      <4> QED
        BY <3>5, <4>1 DEF Finish, JobOnly, TypeOK
    <3>6. CASE Unwind(j)
      BY <3>6 DEF Unwind, LifecycleOnly, TypeOK, Job, LivePhases, Free
    <3>7. CASE OrphanEnds(j)
      BY <3>7, RecordType DEF OrphanEnds, JobOnly, TypeOK, Job, Free
    <3> QED
      BY <2>4, <3>1, <3>2, <3>3, <3>4, <3>5, <3>6, <3>7 DEF Work
  <2>5. CASE Stop
    BY <2>5 DEF Stop, LifecycleOnly, TypeOK, Job, LivePhases, Free
  <2>6. CASE Start \/ GraceExpires \/ StopReturns
    BY <2>6 DEF Start, StoreOnly, GraceExpires, StopReturns, LifecycleOnly, TypeOK
  <2>7. CASE Crash
    BY <2>7 DEF Crash, TypeOK, Job
  <2>8. CASE UNCHANGED vars
    BY <2>8 DEF vars, TypeOK
  <2> QED
    BY <2>1, <2>2, <2>3, <2>4, <2>5, <2>6, <2>7, <2>8 DEF Next
<1> QED
  BY <1>1, <1>2, PTL DEF Spec
-----------------------------------------------------------------------------
(***************************************************************************)
(* The in-flight set.  A step leaves the live tasks alone, ends one, or    *)
(* launches one; the first two are lemmas.                                 *)
(***************************************************************************)
InFlightInv == InflightExact /\ OneRunEach

LEMMA SameFlight ==
  ASSUME InFlightInv, inflight' = inflight,
         \A j \in Jobs : /\ Live(j)' <=> Live(j)
                         /\ Live(j) => jobs'[j].sid = jobs[j].sid
  PROVE  InFlightInv'
BY DEF InFlightInv, InflightExact, OneRunEach

LEMMA RunLands ==
  ASSUME InFlightInv, NEW j \in Jobs, Live(j), ~Live(j)',
         inflight' = inflight \ {jobs[j].sid},
         \A k \in Jobs \ {j} : jobs'[k] = jobs[k]
  PROVE  InFlightInv'
<1>1. \A k \in Jobs : Live(k)' <=> k # j /\ Live(k)
  BY DEF Live
<1>2. OneRunEach'
  BY <1>1 DEF InFlightInv, OneRunEach
<1>3. \A k \in Jobs \ {j} : Live(k) => jobs[k].sid # jobs[j].sid
  BY DEF InFlightInv, OneRunEach
<1>4. inflight' = {jobs[k].sid : k \in {i \in Jobs : i # j /\ Live(i)}}
  BY <1>3 DEF InFlightInv, InflightExact
<1>5. inflight' = {jobs'[k].sid : k \in {i \in Jobs : Live(i)'}}
  BY <1>1, <1>4
<1> QED
  BY <1>2, <1>5 DEF InFlightInv, InflightExact

\* Stopping, and the poll loop's being gone while it goes on.
LEMMA StopStep == TypeOK /\ StopIsFinal /\ [Next]_vars => StopIsFinal'
<1> SUFFICES ASSUME TypeOK, StopIsFinal, [Next]_vars PROVE StopIsFinal'
  OBVIOUS
<1>1. CASE Clock
  BY <1>1 DEF Clock, BecomeDue, GoStale, CoolDown, StopIsFinal, Live
<1>2. CASE User
  BY <1>2 DEF User, UserOnly, Add, SetEnabled, Reschedule, Delete, EnableReset, EnableCommit,
              StopIsFinal, Live
<1>3. CASE Check
  <2>1. lifecycle = "running" /\ lifecycle' = "running"
    BY <1>3 DEF Check, QueryDue, ScanDone, BeginScan, PassOver, Launch, SkipStale, SkipCommits,
                SkipFails, StopIsFinal, TypeOK
  <2> QED
    BY <2>1 DEF StopIsFinal
<1>4. ASSUME NEW j \in Jobs, Work(j) PROVE StopIsFinal'
  <2>1. /\ lifecycle' = lifecycle /\ checker' = checker
        /\ \A k \in Jobs : /\ Live(k)' => Live(k)
                           /\ jobs'[k].phase = "skip" => jobs[k].phase = "skip"
    <3>1. CASE Acquire(j)
      BY <3>1 DEF Acquire, JobOnly, TypeOK, Live, LivePhases
    <3>2. CASE CommitRecord(j)
      BY <3>2 DEF CommitRecord, JobOnly, TypeOK, Live, LivePhases
    <3>3. CASE RecordFails(j)
      BY <3>3 DEF RecordFails, JobOnly, TypeOK, Live, LivePhases
    <3>4. CASE Release(j)
      BY <3>4 DEF Release, JobOnly, TypeOK, Live, LivePhases, Free
    <3>5. CASE \E o \in Outcome \ {"skipped"} : Finish(j, o)
      BY <3>5 DEF Finish, JobOnly, TypeOK, Live, LivePhases
    <3>6. CASE Unwind(j)
      BY <3>6 DEF Unwind, LifecycleOnly, TypeOK, Live, LivePhases, Free
    <3>7. CASE OrphanEnds(j)
      BY <3>7 DEF OrphanEnds, JobOnly, TypeOK, Live, LivePhases, Free
    <3> QED
      BY <1>4, <3>1, <3>2, <3>3, <3>4, <3>5, <3>6, <3>7 DEF Work
  <2> QED
    BY <2>1 DEF StopIsFinal
<1>5. CASE Start
  BY <1>5 DEF Start, StopIsFinal
<1>6. CASE Stop
  BY <1>6 DEF Stop, StopIsFinal, TypeOK
<1>7. CASE GraceExpires \/ StopReturns
  BY <1>7 DEF GraceExpires, StopReturns, StopIsFinal, Live
<1>8. CASE Crash
  BY <1>8 DEF Crash, StopIsFinal, Live, LivePhases, Free
<1>9. CASE UNCHANGED vars
  BY <1>9 DEF vars, StopIsFinal, Live
<1> QED
  BY <1>1, <1>2, <1>3, <1>4, <1>5, <1>6, <1>7, <1>8, <1>9 DEF Next

LEMMA InFlightStep == TypeOK /\ InFlightInv /\ [Next]_vars => InFlightInv'
<1> SUFFICES ASSUME TypeOK, InFlightInv, [Next]_vars PROVE InFlightInv'
  OBVIOUS
<1>1. CASE UNCHANGED <<jobs, inflight>>
  BY <1>1, SameFlight DEF Live
<1>2. CASE Clock \/ User
  BY <1>2, <1>1 DEF Clock, BecomeDue, GoStale, CoolDown, User, UserOnly, Add, SetEnabled, Reschedule,
              Delete, EnableReset, EnableCommit
<1>3. CASE Check
  <2>1. CASE QueryDue \/ ScanDone \/ (\E h \in BOOLEAN : BeginScan(h)) \/ \E s \in Schedules : PassOver(s)
    BY <2>1, <1>1 DEF QueryDue, ScanDone, BeginScan, PassOver
  <2>2. ASSUME NEW s \in Schedules, NEW j \in Jobs, Launch(s, j) PROVE InFlightInv'
    <3>1. /\ ~Live(j) /\ Live(j)' /\ jobs'[j].sid = s
          /\ \A k \in Jobs \ {j} : jobs'[k] = jobs[k]
          /\ s \notin inflight /\ inflight' = inflight \cup {s}
      BY <2>2 DEF Launch, Live, LivePhases, Free, TypeOK
    <3>2. \A k \in Jobs : Live(k)' <=> k = j \/ Live(k)
      BY <3>1 DEF Live
    <3>3. \A k \in Jobs : Live(k) => jobs[k].sid # s
      BY <3>1 DEF InFlightInv, InflightExact
    <3>4. OneRunEach'
      BY <3>1, <3>2, <3>3 DEF InFlightInv, OneRunEach
    <3>5. InflightExact'
      BY <3>1, <3>2 DEF InFlightInv, InflightExact
    <3> QED
      BY <3>4, <3>5 DEF InFlightInv
  <2>3. ASSUME NEW s \in Schedules, NEW j \in Jobs, SkipStale(s, j) PROVE InFlightInv'
    BY <2>3, SameFlight DEF SkipStale, TypeOK, Live, LivePhases, Free
  <2>4. ASSUME NEW j \in Jobs, SkipCommits(j) \/ SkipFails(j) PROVE InFlightInv'
    BY <2>4, SameFlight DEF SkipCommits, SkipFails, TypeOK, Live, LivePhases, Free
  <2> QED
    BY <1>3, <2>1, <2>2, <2>3, <2>4 DEF Check
<1>4. ASSUME NEW j \in Jobs, Work(j) PROVE InFlightInv'
  <2>1. CASE Acquire(j)
    BY <2>1, SameFlight DEF Acquire, TypeOK, Live, LivePhases
  <2>2. CASE CommitRecord(j)
    BY <2>2, SameFlight DEF CommitRecord, TypeOK, Live, LivePhases
  <2>3. CASE RecordFails(j)
    BY <2>3, SameFlight DEF RecordFails, TypeOK, Live, LivePhases
  <2>4. CASE \E o \in Outcome \ {"skipped"} : Finish(j, o)
    BY <2>4, SameFlight DEF Finish, TypeOK, Live, LivePhases
  <2>5. CASE OrphanEnds(j)
    BY <2>5, SameFlight DEF OrphanEnds, JobOnly, TypeOK, Live, LivePhases, Free
  <2>6. CASE Release(j)
    BY <2>6, RunLands DEF Release, TypeOK, Live, LivePhases, Free
  <2>7. CASE Unwind(j)
    BY <2>7, RunLands DEF Unwind, TypeOK, Live, LivePhases, Free
  <2> QED
    BY <1>4, <2>1, <2>2, <2>3, <2>4, <2>5, <2>6, <2>7 DEF Work
<1>5. CASE Start \/ GraceExpires \/ StopReturns
  BY <1>5, <1>1 DEF Start, GraceExpires, StopReturns
<1>6. CASE Stop
  BY <1>6, SameFlight DEF Stop, TypeOK, Live, LivePhases
<1>7. CASE Crash
  BY <1>7 DEF Crash, InFlightInv, InflightExact, OneRunEach, Live, LivePhases, Free
<1>8. CASE UNCHANGED vars
  BY <1>8, <1>1 DEF vars
<1> QED
  BY <1>2, <1>3, <1>4, <1>5, <1>6, <1>7, <1>8 DEF Next

\* _inflight_ids holds exactly the ids of the live tasks.
THEOREM InflightIsExact == Spec => []InflightExact
<1>1. Init => InFlightInv
  BY DEF Init, InFlightInv, InflightExact, OneRunEach, Live, LivePhases, Free
<1>2. InFlightInv => InflightExact
  BY DEF InFlightInv
<1> QED
  BY <1>1, <1>2, InFlightStep, TypeCorrect, PTL DEF Spec

\* No schedule has two live tasks.
THEOREM NoTwoRunsOfASchedule == Spec => []OneRunEach
<1>1. Init => InFlightInv
  BY DEF Init, InFlightInv, InflightExact, OneRunEach, Live, LivePhases, Free
<1>2. InFlightInv => OneRunEach
  BY DEF InFlightInv
<1> QED
  BY <1>1, <1>2, InFlightStep, TypeCorrect, PTL DEF Spec

\* A stop() that has returned, and one that has not, keep their word.
THEOREM StopKeepsItsWord == Spec => []StopIsFinal
<1>1. Init => StopIsFinal
  BY DEF Init, StopIsFinal, Live, LivePhases, Free
<1> QED
  BY <1>1, StopStep, TypeCorrect, PTL DEF Spec
-----------------------------------------------------------------------------
(***************************************************************************)
(* The scheduler implements SingleFlight.                                  *)
(***************************************************************************)
IdleRun == [stage |-> "idle", of |-> None]

\* What a job is to the abstract specification.
LEMMA FlightAt ==
  ASSUME NEW j \in Jobs
  PROVE  /\ jobs[j].phase = "queued" => Flight[j] = [stage |-> "waiting", of |-> jobs[j].sid]
         /\ jobs[j].phase \in Holding => Flight[j] = [stage |-> "executing", of |-> jobs[j].sid]
         /\ ~Live(j) => Flight[j] = IdleRun
BY DEF Flight, Holding, Live, LivePhases, IdleRun

\* A step that keeps every live job in its class is a stutter.
LEMMA FlightStutters ==
  ASSUME \A j \in Jobs :
           \/ ~Live(j) /\ ~Live(j)'
           \/ /\ jobs[j].phase \in Holding /\ jobs'[j].phase \in Holding
              /\ jobs'[j].sid = jobs[j].sid
           \/ /\ jobs[j].phase = "queued" /\ jobs'[j].phase = "queued"
              /\ jobs'[j].sid = jobs[j].sid
  PROVE  Flight' = Flight
<1>1. ASSUME NEW j \in Jobs PROVE Flight'[j] = Flight[j]
  BY DEF Flight, Holding, Live, LivePhases
<1>2. Flight = [j \in Jobs |-> Flight[j]] /\ Flight' = [j \in Jobs |-> Flight'[j]]
  BY DEF Flight
<1> QED
  BY <1>1, <1>2

\* A step that frees some jobs and leaves the others in their class ends runs.
LEMMA FlightEnds ==
  ASSUME NEW J \in SUBSET Jobs,
         \A j \in J : ~Live(j)',
         \A j \in Jobs \ J : jobs'[j] = jobs[j]
  PROVE  Promise!End(J)
<1>1. ASSUME NEW j \in Jobs PROVE Flight'[j] = IF j \in J THEN IdleRun ELSE Flight[j]
  BY DEF Flight, Holding, Live, LivePhases, IdleRun
<1>2. Flight' = [j \in Jobs |-> Flight'[j]]
  BY DEF Flight
<1> QED
  BY <1>1, <1>2 DEF Promise!End, Promise!Idle, IdleRun

LEMMA RefinementStep ==
  TypeOK /\ InFlightInv /\ [Next]_vars => [Promise!Next]_Flight
<1> SUFFICES ASSUME TypeOK, InFlightInv, [Next]_vars PROVE [Promise!Next]_Flight
  OBVIOUS
<1>1. CASE UNCHANGED jobs
  BY <1>1 DEF Flight
<1>2. CASE Clock \/ User
  BY <1>2, <1>1 DEF Clock, BecomeDue, GoStale, CoolDown, User, UserOnly, Add, SetEnabled, Reschedule,
              Delete, EnableReset, EnableCommit
<1>3. CASE Check
  <2>1. CASE QueryDue \/ ScanDone \/ (\E h \in BOOLEAN : BeginScan(h)) \/ \E s \in Schedules : PassOver(s)
    BY <2>1, <1>1 DEF QueryDue, ScanDone, BeginScan, PassOver
  <2>2. ASSUME NEW s \in Schedules, NEW j \in Jobs, Launch(s, j) PROVE Promise!Launch(j, s)
    <3>1. /\ jobs[j] = Free /\ jobs'[j].phase = "queued" /\ jobs'[j].sid = s
          /\ \A k \in Jobs \ {j} : jobs'[k] = jobs[k]
      BY <2>2 DEF Launch, TypeOK
    <3>2. Flight[j] = Promise!Idle
      <4>1. ~Live(j)
        BY <3>1 DEF Live, LivePhases, Free
      <4> QED
        BY <4>1, FlightAt DEF IdleRun, Promise!Idle
    <3>3. ASSUME NEW k \in Jobs PROVE Flight[k].of # s
      <4>1. Live(k) => jobs[k].sid # s
        BY <2>2 DEF Launch, InFlightInv, InflightExact
      <4> QED
        BY <4>1 DEF Flight, Live, LivePhases, Holding
    <3>4. ASSUME NEW k \in Jobs
          PROVE  Flight'[k] = IF k = j THEN [stage |-> "waiting", of |-> s] ELSE Flight[k]
      BY <3>1 DEF Flight, Holding
    <3>5. Flight = [k \in Jobs |-> Flight[k]] /\ Flight' = [k \in Jobs |-> Flight'[k]]
      BY DEF Flight
    <3>6. Flight' = [Flight EXCEPT ![j] = [stage |-> "waiting", of |-> s]]
      BY <3>4, <3>5
    <3> QED
      BY <3>2, <3>3, <3>6 DEF Promise!Launch
  <2>3. ASSUME NEW s \in Schedules, NEW j \in Jobs, SkipStale(s, j) PROVE Flight' = Flight
    BY <2>3, FlightStutters DEF SkipStale, TypeOK, Job, Live, LivePhases, Holding, Free
  <2>4. ASSUME NEW j \in Jobs, SkipCommits(j) \/ SkipFails(j) PROVE Flight' = Flight
    BY <2>4, FlightStutters DEF SkipCommits, SkipFails, TypeOK, Job, Live, LivePhases, Holding, Free
  <2> QED
    BY <1>3, <2>1, <2>2, <2>3, <2>4 DEF Check, Promise!Next
<1>4. ASSUME NEW j \in Jobs, Work(j) PROVE [Promise!Next]_Flight
  <2>1. CASE Acquire(j)
    <3>1. /\ jobs[j].phase = "queued" /\ jobs'[j].phase = "running" /\ jobs'[j].sid = jobs[j].sid
          /\ \A k \in Jobs \ {j} : jobs'[k] = jobs[k]
      BY <2>1 DEF Acquire, TypeOK
    <3>2. Flight[j] = [stage |-> "waiting", of |-> jobs[j].sid]
      BY <3>1, FlightAt
    <3>3. ASSUME NEW k \in Jobs PROVE Flight[k].stage = "executing" <=> jobs[k].phase \in Holding
      BY DEF Flight, Holding
    <3>4. Promise!Executing = {k \in Jobs : jobs[k].phase \in Holding}
      BY <3>3 DEF Promise!Executing
    <3>5. Cardinality(Promise!Executing) < MaxConcurrent
      BY <2>1, <3>4 DEF Acquire
    <3>6. ASSUME NEW k \in Jobs
          PROVE  Flight'[k] = IF k = j THEN [stage |-> "executing", of |-> jobs[j].sid]
                              ELSE Flight[k]
      BY <3>1 DEF Flight, Holding
    <3>7. Flight = [k \in Jobs |-> Flight[k]] /\ Flight' = [k \in Jobs |-> Flight'[k]]
      BY DEF Flight
    <3>8. Flight' = [Flight EXCEPT ![j] = [@ EXCEPT !.stage = "executing"]]
      BY <3>2, <3>6, <3>7
    <3>9. Promise!Execute(j)
      <4>1. Flight[j].stage = "waiting"
        BY <3>2
      <4>2. Flight' = [Flight EXCEPT ![j].stage = "executing"]
        BY <3>8
      <4>3. Promise!Cardinality(Promise!Executing) = Cardinality(Promise!Executing)
        BY Zenon DEF Cardinality, Promise!Cardinality
      <4> QED
        BY <3>5, <4>1, <4>2, <4>3 DEF Promise!Execute
    <3> QED
      BY <3>9 DEF Promise!Next
  <2>2. CASE CommitRecord(j)
    BY <2>2, FlightStutters DEF CommitRecord, TypeOK, Job, Live, LivePhases, Holding, Free
  <2>3. CASE RecordFails(j)
    BY <2>3, FlightStutters DEF RecordFails, TypeOK, Job, Live, LivePhases, Holding, Free
  <2>4. CASE \E o \in Outcome \ {"skipped"} : Finish(j, o)
    BY <2>4, FlightStutters DEF Finish, TypeOK, Job, Live, LivePhases, Holding, Free
  <2>5. CASE OrphanEnds(j)
    BY <2>5, FlightStutters DEF OrphanEnds, TypeOK, Job, Live, LivePhases, Holding, Free
  <2>6. CASE Release(j) \/ Unwind(j)
    <3>1. ~Live(j)' /\ \A k \in Jobs \ {j} : jobs'[k] = jobs[k]
      <4>1. CASE Release(j)
        BY <4>1 DEF Release, TypeOK, Live, LivePhases, Free
      <4>2. CASE Unwind(j)
        BY <4>2 DEF Unwind, TypeOK, Live, LivePhases, Free
      <4> QED
        BY <2>6, <4>1, <4>2
    <3>2. Promise!End({j})
      BY <3>1, FlightEnds
    <3> QED
      BY <3>2 DEF Promise!Next
  <2> QED
    BY <1>4, <2>1, <2>2, <2>3, <2>4, <2>5, <2>6 DEF Work
<1>5. CASE Start \/ GraceExpires \/ StopReturns
  BY <1>5, <1>1 DEF Start, GraceExpires, StopReturns
<1>6. CASE Stop
  BY <1>6, FlightStutters DEF Stop, TypeOK, Job, Live, LivePhases, Holding, Free
<1>7. CASE Crash
  <2>1. \A j \in Jobs : ~Live(j)'
    BY <1>7 DEF Crash, Live, LivePhases, Free
  <2>2. Promise!End(Jobs)
    BY <2>1, FlightEnds
  <2> QED
    BY <2>2 DEF Promise!Next
<1>8. CASE UNCHANGED vars
  BY <1>8, <1>1 DEF vars
<1> QED
  BY <1>2, <1>3, <1>4, <1>5, <1>6, <1>7, <1>8 DEF Next

\* Every behaviour of the scheduler is one of SingleFlight.
THEOREM Refinement == Spec => RefinesSingleFlight
<1>1. Init => Promise!Init
  BY DEF Init, Flight, Holding, Free, Promise!Init, Promise!Idle
<1>2. Init => InFlightInv
  BY DEF Init, InFlightInv, InflightExact, OneRunEach, Live, LivePhases, Free
<1>3. TypeOK /\ InFlightInv /\ [Next]_vars => [Promise!Next]_Flight
  BY RefinementStep
<1> QED
  BY <1>1, <1>2, <1>3, InFlightStep, TypeCorrect, PTL DEF Spec, RefinesSingleFlight, Promise!Spec
=============================================================================
