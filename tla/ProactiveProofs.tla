-------------------------- MODULE ProactiveProofs --------------------------
(***************************************************************************)
(* Theorems of ProactiveScheduler: its types, the id set that names        *)
(* exactly the tasks with a run, and that the scheduler implements         *)
(* SingleFlight.                                                           *)
(***************************************************************************)
EXTENDS ProactiveScheduler, TLAPS

(***************************************************************************)
(* Types.                                                                  *)
(***************************************************************************)
LEMMA Records ==
  /\ \A p \in Places : TypeOK => At(p) \in Loop
  /\ Stopped \in Loop /\ Free \in Job
  /\ \A t \in Tasks : [phase |-> "queued", of |-> t] \in Job
BY DEF TypeOK, At, Loop, Places, Stopped, Free, Job

LEMMA RecordedType ==
  ASSUME TypeOK, NEW t \in Tasks
  PROVE  Recorded(t) \in [Tasks -> Row]
BY DEF TypeOK, Recorded, Row

\* A job that is not free has a task.
LEMMA JobOf ==
  ASSUME TypeOK, NEW j \in Jobs, jobs[j].phase # "free"
  PROVE  jobs[j].of \in Tasks /\ jobs[j] # Free
BY DEF TypeOK, Job, Free

LEMMA TypeStep == TypeOK /\ [Next]_vars => TypeOK'
<1> SUFFICES ASSUME TypeOK, [Next]_vars PROVE TypeOK'
  OBVIOUS
<1> USE Records
<1>1. CASE User
  <2>1. ASSUME NEW t \in Tasks, Add(t) \/ Delete(t) PROVE TypeOK'
    <3>1. /\ [life |-> "yes", enabled |-> TRUE, due |-> FALSE] \in Row
          /\ [life |-> "gone", enabled |-> FALSE, due |-> FALSE] \in Row
      BY DEF Row
    <3> QED
      BY <2>1, <3>1 DEF Add, Delete, TypeOK
  <2>2. ASSUME NEW t \in Tasks, NEW on \in BOOLEAN, UpdateEnabled(t, on) PROVE TypeOK'
    <3>1. [rows[t] EXCEPT !.enabled = on] \in Row
      BY DEF TypeOK, Row
    <3> QED
      BY <2>2, <3>1 DEF UpdateEnabled, TypeOK
  <2> QED
    BY <1>1, <2>1, <2>2 DEF User
<1>2. CASE Start
  BY <1>2 DEF Start, TypeOK, Loop, Places
<1>3. CASE Check
  <2>1. CASE Read
    BY <2>1 DEF Read, Due, TypeOK, Places
  <2>2. CASE BeginScan \/ Continue \/ StoreFails \/ Wake
    BY <2>2 DEF BeginScan, Continue, StoreFails, Wake, TypeOK, Places
  <2>3. CASE ScanDone
    BY <2>3 DEF ScanDone, TypeOK, Loop, Places
  <2>4. ASSUME NEW t \in Tasks, PassOver(t) \/ Outside(t) PROVE TypeOK'
    BY <2>4 DEF PassOver, Outside, TypeOK, Loop, Places
  <2>5. ASSUME NEW t \in Tasks, NEW j \in Jobs, Launch(t, j) PROVE TypeOK'
    BY <2>5 DEF Launch, TypeOK
  <2>6. ASSUME NEW t \in Tasks, Advance(t) PROVE TypeOK'
    BY <2>6, RecordedType DEF Advance, TypeOK, Places
  <2> QED
    BY <1>3, <2>1, <2>2, <2>3, <2>4, <2>5, <2>6 DEF Check, Turn
<1>4. CASE Crash
  BY <1>4 DEF Crash, TypeOK
<1>5. ASSUME NEW t \in Tasks, BecomeDue(t) PROVE TypeOK'
  BY <1>5 DEF BecomeDue, TypeOK, Row
<1>6. ASSUME NEW j \in Jobs, Run(j) PROVE TypeOK'
  <2>1. CASE Acquire(j) \/ Executed(j) \/ RecordFails(j)
    BY <1>6, <2>1 DEF Acquire, Executed, RecordFails, To, TypeOK, Job, Free
  <2>2. CASE Record(j)
    <3>1. jobs[j].of \in Tasks
      BY <1>6, <2>2, JobOf DEF Record
    <3> QED
      BY <1>6, <2>2, <3>1, RecordedType DEF Record, To, TypeOK, Job, Free
  <2>3. CASE Leave(j)
    BY <1>6, <2>3 DEF Leave, TypeOK
  <2> QED
    BY <1>6, <2>1, <2>2, <2>3 DEF Run
<1>7. CASE UNCHANGED vars
  BY <1>7 DEF vars, TypeOK
<1> QED
  BY <1>1, <1>2, <1>3, <1>4, <1>5, <1>6, <1>7 DEF Next

\* Every variable has its type: the tables' rows, the place of the loop, and a
\* task for every run that is not over.
THEOREM TypeCorrect == Spec => []TypeOK
<1>1. Init => TypeOK
  BY DEF Init, TypeOK, Row, Stopped, Loop, Places, Free, Job
<1> QED
  BY <1>1, TypeStep, PTL DEF Spec
-----------------------------------------------------------------------------
(***************************************************************************)
(* The id set and the runs.                                                *)
(***************************************************************************)
\* A step that keeps every job's task, and what is free, keeps the invariant.
LEMMA ExactStutters ==
  ASSUME InflightExact, TypeOK, TypeOK', inflight' = inflight,
         \A j \in Jobs : /\ jobs'[j].of = jobs[j].of
                         /\ jobs'[j] = Free <=> jobs[j] = Free
  PROVE  InflightExact'
BY DEF InflightExact

LEMMA ExactStep == TypeOK /\ TypeOK' /\ InflightExact /\ [Next]_vars => InflightExact'
<1> SUFFICES ASSUME TypeOK, TypeOK', InflightExact, [Next]_vars PROVE InflightExact'
  OBVIOUS
<1>1. CASE UNCHANGED <<inflight, jobs>>
  BY <1>1 DEF InflightExact
<1>2. CASE User \/ Start \/ \E t \in Tasks : BecomeDue(t)
  BY <1>2, <1>1 DEF User, Add, Delete, UpdateEnabled, Start, BecomeDue
<1>3. CASE Check
  <2>1. ASSUME NEW t \in Tasks, NEW j \in Jobs, Launch(t, j) PROVE InflightExact'
    <3>1. /\ jobs[j] = Free /\ jobs'[j] = [phase |-> "queued", of |-> t]
          /\ \A k \in Jobs \ {j} : jobs'[k] = jobs[k]
          /\ inflight' = inflight \cup {t} /\ t \notin inflight
      BY <2>1 DEF Launch, TypeOK
    <3>2. jobs'[j] # Free /\ jobs'[j].of = t
      BY <3>1 DEF Free
    <3>3. \A k \in Jobs : jobs[k] # Free => jobs[k].of # t
      BY <3>1 DEF InflightExact
    <3>4. inflight' = {jobs'[k].of : k \in {i \in Jobs : jobs'[i] # Free}}
      BY <3>1, <3>2 DEF InflightExact
    <3>5. ASSUME NEW i \in Jobs, NEW k \in Jobs, i # k, jobs'[i] # Free
          PROVE  jobs'[i].of # jobs'[k].of
      <4>1. CASE jobs'[k] # Free
        BY <3>1, <3>2, <3>3, <3>5, <4>1 DEF InflightExact
      <4>2. CASE jobs'[k] = Free
        <5>1. jobs'[i].of \in Tasks
          BY <3>5 DEF TypeOK, Job
        <5> QED
          BY <4>2, <5>1, ProactiveAssumption DEF Free
      <4> QED
        BY <4>1, <4>2
    <3> QED
      BY <3>4, <3>5 DEF InflightExact
  <2> QED
    BY <1>3, <2>1, <1>1 DEF Check, Read, BeginScan, Continue, StoreFails, ScanDone, Wake,
                            Turn, PassOver, Outside, Advance
<1>4. CASE Crash
  <2>1. \A j \in Jobs : jobs'[j] = Free
    BY <1>4 DEF Crash
  <2> QED
    BY <1>4, <2>1 DEF Crash, InflightExact
<1>5. ASSUME NEW j \in Jobs, Run(j) PROVE InflightExact'
  <2>1. CASE Acquire(j) \/ Executed(j) \/ Record(j) \/ RecordFails(j)
    <3>1. /\ inflight' = inflight
          /\ \A k \in Jobs : /\ jobs'[k].of = jobs[k].of
                             /\ jobs[k].phase = "free" <=> jobs'[k].phase = "free"
      BY <2>1 DEF Acquire, Executed, Record, RecordFails, To, TypeOK, Job, Free
    <3>2. \A k \in Jobs : jobs'[k] = Free <=> jobs[k] = Free
      BY <3>1 DEF TypeOK, Job, Free
    <3> QED
      BY <3>1, <3>2, ExactStutters
  <2>2. CASE Leave(j)
    <3>1. /\ jobs[j] # Free /\ jobs'[j] = Free
          /\ \A k \in Jobs \ {j} : jobs'[k] = jobs[k]
          /\ inflight' = inflight \ {jobs[j].of}
      BY <2>2 DEF Leave, TypeOK, Free
    <3>2. \A k \in Jobs \ {j} : jobs[k].of # jobs[j].of
      BY <3>1 DEF InflightExact
    <3>3. inflight' = {jobs'[k].of : k \in {i \in Jobs : jobs'[i] # Free}}
      BY <3>1, <3>2 DEF InflightExact
    <3>4. ASSUME NEW i \in Jobs, NEW k \in Jobs, i # k, jobs'[i] # Free
          PROVE  jobs'[i].of # jobs'[k].of
      <4>1. i # j /\ jobs[i] # Free /\ jobs'[i] = jobs[i] /\ jobs[i].of \in Tasks
        BY <3>1, <3>4 DEF TypeOK, Job
      <4>2. CASE k = j
        BY <3>1, <4>1, <4>2, ProactiveAssumption DEF Free
      <4>3. CASE k # j
        BY <3>1, <3>4, <4>1, <4>3 DEF InflightExact
      <4> QED
        BY <4>2, <4>3
    <3> QED
      BY <3>3, <3>4 DEF InflightExact
  <2> QED
    BY <1>5, <2>1, <2>2 DEF Run
<1>6. CASE UNCHANGED vars
  BY <1>6, <1>1 DEF vars
<1> QED
  BY <1>2, <1>3, <1>4, <1>5, <1>6 DEF Next

\* No id outlives its run and no run lacks its id, whatever fails and whenever
\* the process dies: a task is neither silenced nor run twice at a time.
THEOREM IdsAreRuns == Spec => []InflightExact
<1>1. Init => InflightExact
  BY DEF Init, InflightExact
<1> QED
  BY <1>1, ExactStep, TypeCorrect, PTL DEF Spec
-----------------------------------------------------------------------------
(***************************************************************************)
(* The scheduler implements SingleFlight.                                  *)
(***************************************************************************)
IdleRun == [stage |-> "idle", of |-> None]

Executes == {"running", "recording", "settled"}

\* The mapping is a function of the jobs, before and after a step.
LEMMA FlightIsFunction ==
  Flight = [j \in Jobs |-> Flight[j]] /\ Flight' = [j \in Jobs |-> Flight'[j]]
BY DEF Flight

LEMMA LaunchRefines ==
  ASSUME TypeOK, InflightExact, NEW t \in Tasks, NEW j \in Jobs, Launch(t, j)
  PROVE  Promise!Launch(j, t)
<1>1. /\ jobs[j] = Free /\ jobs'[j] = [phase |-> "queued", of |-> t]
      /\ \A k \in Jobs \ {j} : jobs'[k] = jobs[k]
      /\ t \notin inflight
  BY DEF Launch, TypeOK
<1>2. Flight[j] = Promise!Idle
  BY <1>1 DEF Flight, Holding, Free, Executes, IdleRun, Promise!Idle
<1>3. ASSUME NEW k \in Jobs PROVE Flight[k].of # t
  <2>1. jobs[k] # Free => jobs[k].of # t
    BY <1>1 DEF InflightExact
  <2>2. CASE jobs[k] = Free
    BY <2>2, ProactiveAssumption DEF Flight, Holding, Free, Executes, IdleRun
  <2>3. CASE jobs[k] # Free
    BY <2>1, <2>3, ProactiveAssumption DEF Flight, Holding, Executes, IdleRun
  <2> QED
    BY <2>2, <2>3
<1>4. ASSUME NEW k \in Jobs
      PROVE  Flight'[k] = IF k = j THEN [stage |-> "waiting", of |-> t] ELSE Flight[k]
  BY <1>1 DEF Flight, Holding
<1>5. Flight' = [Flight EXCEPT ![j] = [stage |-> "waiting", of |-> t]]
  BY <1>4, FlightIsFunction
<1> QED
  BY <1>2, <1>3, <1>5 DEF Promise!Launch

LEMMA AcquireRefines ==
  ASSUME TypeOK, NEW j \in Jobs, Acquire(j)
  PROVE  Promise!Execute(j)
<1>1. /\ jobs[j].phase = "queued" /\ jobs'[j].phase = "running" /\ jobs'[j].of = jobs[j].of
      /\ \A k \in Jobs \ {j} : jobs'[k] = jobs[k]
  BY DEF Acquire, To, TypeOK
<1>2. Flight[j] = [stage |-> "waiting", of |-> jobs[j].of]
  BY <1>1 DEF Flight, Holding
<1>3. ASSUME NEW k \in Jobs PROVE Flight[k].stage = "executing" <=> jobs[k].phase \in Executes
  BY DEF Flight, Holding, Executes, IdleRun
<1>4. Promise!Executing = Holding
  BY <1>3 DEF Promise!Executing, Holding, Executes
<1>5. Cardinality(Promise!Executing) < MaxConcurrent
  BY <1>4 DEF Acquire
<1>6. ASSUME NEW k \in Jobs
      PROVE  Flight'[k] = IF k = j THEN [stage |-> "executing", of |-> jobs[j].of] ELSE Flight[k]
  BY <1>1 DEF Flight, Holding, Executes
<1>7. Flight' = [Flight EXCEPT ![j].stage = "executing"]
  <2>1. [Flight[j] EXCEPT !.stage = "executing"] = [stage |-> "executing", of |-> jobs[j].of]
    BY <1>2
  <2> QED
    BY <1>6, <2>1, FlightIsFunction
<1>8. Promise!Cardinality(Promise!Executing) = Cardinality(Promise!Executing)
  BY Zenon DEF Cardinality, Promise!Cardinality
<1> QED
  BY <1>2, <1>5, <1>7, <1>8 DEF Promise!Execute

\* A step that frees the jobs of J and keeps the class of the others ends runs.
LEMMA FlightEnds ==
  ASSUME NEW J \in SUBSET Jobs,
         \A j \in J : jobs'[j] = Free,
         \A j \in Jobs \ J : jobs'[j] = jobs[j]
  PROVE  Promise!End(J)
<1>1. ASSUME NEW j \in Jobs PROVE Flight'[j] = IF j \in J THEN IdleRun ELSE Flight[j]
  BY DEF Flight, Holding, Free, Executes, IdleRun
<1> QED
  BY <1>1, FlightIsFunction DEF Promise!End, Promise!Idle, IdleRun

LEMMA RefinementStep ==
  TypeOK /\ InflightExact /\ [Next]_vars => [Promise!Next]_Flight
<1> SUFFICES ASSUME TypeOK, InflightExact, [Next]_vars PROVE [Promise!Next]_Flight
  OBVIOUS
<1>1. CASE UNCHANGED jobs
  BY <1>1 DEF Flight, Holding
<1>2. CASE User \/ Start \/ \E t \in Tasks : BecomeDue(t)
  BY <1>2, <1>1 DEF User, Add, Delete, UpdateEnabled, Start, BecomeDue
<1>3. CASE Check
  <2>1. ASSUME NEW t \in Tasks, NEW j \in Jobs, Launch(t, j) PROVE [Promise!Next]_Flight
    BY <2>1, LaunchRefines DEF Promise!Next
  <2> QED
    BY <1>3, <2>1, <1>1 DEF Check, Read, BeginScan, Continue, StoreFails, ScanDone, Wake,
                            Turn, PassOver, Outside, Advance
<1>4. CASE Crash
  BY <1>4, FlightEnds DEF Crash, Promise!Next
<1>5. ASSUME NEW j \in Jobs, Run(j) PROVE [Promise!Next]_Flight
  <2>1. CASE Acquire(j)
    BY <2>1, AcquireRefines DEF Promise!Next
  <2>2. CASE Executed(j) \/ Record(j) \/ RecordFails(j)
    <3>1. /\ jobs[j].phase \in Executes /\ jobs'[j].phase \in Executes
          /\ jobs'[j].of = jobs[j].of
          /\ \A k \in Jobs \ {j} : jobs'[k] = jobs[k]
      BY <2>2 DEF Executed, Record, RecordFails, To, TypeOK, Job, Free, Executes
    <3>2. ASSUME NEW k \in Jobs PROVE Flight'[k] = Flight[k]
      BY <3>1 DEF Flight, Holding, Executes
    <3> QED
      BY <3>2, FlightIsFunction
  <2>3. CASE Leave(j)
    <3>1. \A k \in {j} : jobs'[k] = Free
      BY <2>3 DEF Leave, TypeOK
    <3>2. \A k \in Jobs \ {j} : jobs'[k] = jobs[k]
      BY <2>3 DEF Leave, TypeOK
    <3>3. Promise!End({j})
      BY <3>1, <3>2, FlightEnds
    <3> QED
      BY <3>3 DEF Promise!Next
  <2> QED
    BY <1>5, <2>1, <2>2, <2>3 DEF Run
<1>6. CASE UNCHANGED vars
  BY <1>6, <1>1 DEF vars
<1> QED
  BY <1>2, <1>3, <1>4, <1>5, <1>6 DEF Next

\* Every behaviour of this scheduler too is one of SingleFlight.
THEOREM Refinement == Spec => RefinesSingleFlight
<1>1. Init => Promise!Init
  BY DEF Init, Flight, Holding, Free, Promise!Init, Promise!Idle
<1>2. Init => InflightExact
  BY DEF Init, InflightExact
<1> QED
  BY <1>1, <1>2, RefinementStep, ExactStep, TypeCorrect, PTL
     DEF Spec, RefinesSingleFlight, Promise!Spec
=============================================================================
