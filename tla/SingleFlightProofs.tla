------------------------- MODULE SingleFlightProofs -------------------------
(***************************************************************************)
(* SingleFlight keeps its promises for any sets of schedules and of job    *)
(* identities and any number of permits.  The theorems state what they     *)
(* need of the constants; SchedulerAssumption implies it.                  *)
(***************************************************************************)
EXTENDS SingleFlight, FiniteSetTheorems, TLAPS

\* Runs keep their shape.
THEOREM TypeCorrect == Spec => []TypeOK
<1>1. Init => TypeOK
  BY DEF Init, TypeOK, Run
<1>2. TypeOK /\ [Next]_runs => TypeOK'
  <2> SUFFICES ASSUME TypeOK, [Next]_runs PROVE TypeOK'
    OBVIOUS
  <2>1. ASSUME NEW j \in Jobs, NEW s \in Schedules, Launch(j, s) PROVE TypeOK'
    BY <2>1 DEF Launch, TypeOK, Run
  <2>2. ASSUME NEW j \in Jobs, Execute(j) PROVE TypeOK'
    <3>1. runs[j] \in [stage : {"waiting"}, of : Schedules]
      BY <2>2 DEF Execute, TypeOK, Run, Idle
    <3>2. [runs[j] EXCEPT !.stage = "executing"] \in Run
      BY <3>1 DEF Run
    <3> QED
      BY <2>2, <3>2 DEF Execute, TypeOK
  <2>3. ASSUME NEW J \in SUBSET Jobs, End(J) PROVE TypeOK'
    BY <2>3 DEF End, TypeOK, Run
  <2>4. CASE UNCHANGED runs
    BY <2>4 DEF TypeOK
  <2> QED
    BY <2>1, <2>2, <2>3, <2>4 DEF Next
<1> QED
  BY <1>1, <1>2, PTL DEF Spec

\* A schedule never has two runs in progress: the in-flight guard of
\* _check_and_fire, seen from outside.
THEOREM NoTwoRuns ==
  ASSUME None \notin Schedules
  PROVE  Spec => []OneRunEach
<1>1. Init => OneRunEach
  BY DEF Init, OneRunEach
<1>2. TypeOK /\ OneRunEach /\ [Next]_runs => OneRunEach'
  <2> SUFFICES ASSUME TypeOK, OneRunEach, [Next]_runs PROVE OneRunEach'
    OBVIOUS
  <2>1. ASSUME NEW j \in Jobs, NEW s \in Schedules, Launch(j, s) PROVE OneRunEach'
    BY <2>1 DEF Launch, TypeOK, Run, Idle, OneRunEach
  <2>2. ASSUME NEW j \in Jobs, Execute(j) PROVE OneRunEach'
    <3>1. \A k \in Jobs : /\ runs'[k].of = runs[k].of
                          /\ runs'[k] # Idle => runs[k] # Idle
      BY <2>2 DEF Execute, TypeOK, Run, Idle
    <3> QED
      BY <3>1 DEF OneRunEach
  <2>3. ASSUME NEW J \in SUBSET Jobs, End(J) PROVE OneRunEach'
    BY <2>3 DEF End, TypeOK, Run, Idle, OneRunEach
  <2>4. CASE UNCHANGED runs
    BY <2>4 DEF OneRunEach
  <2> QED
    BY <2>1, <2>2, <2>3, <2>4 DEF Next
<1> QED
  BY <1>1, <1>2, TypeCorrect, PTL DEF Spec

\* Never more runs execute than there are permits: the semaphore of
\* _guarded_execute, seen from outside.
THEOREM PermitsSuffice ==
  ASSUME MaxConcurrent \in Nat \ {0}
  PROVE  Spec => []WithinPermits
<1> DEFINE Bounded == IsFiniteSet(Executing) /\ WithinPermits
<1>1. Init => Bounded
  <2> SUFFICES ASSUME Init PROVE Bounded
    OBVIOUS
  <2>1. Executing = {}
    BY DEF Init, Executing, Idle
  <2> QED
    BY <2>1, FS_EmptySet DEF WithinPermits
<1>2. TypeOK /\ Bounded /\ [Next]_runs => Bounded'
  <2> SUFFICES ASSUME TypeOK, Bounded, [Next]_runs PROVE Bounded'
    OBVIOUS
  <2>0. ASSUME Executing' \subseteq Executing PROVE Bounded'
    <3>1. /\ IsFiniteSet(Executing')
          /\ Cardinality(Executing') <= Cardinality(Executing)
      BY <2>0, FS_Subset
    <3>2. Cardinality(Executing) \in Nat /\ Cardinality(Executing') \in Nat
      BY <3>1, FS_CardinalityType
    <3> QED
      BY <3>1, <3>2 DEF WithinPermits
  <2>1. ASSUME NEW j \in Jobs, NEW s \in Schedules, Launch(j, s) PROVE Bounded'
    <3>1. Executing' \subseteq Executing
      BY <2>1 DEF Launch, Executing, TypeOK
    <3> QED
      BY <2>0, <3>1
  <2>2. ASSUME NEW j \in Jobs, Execute(j) PROVE Bounded'
    <3>1. Executing' = Executing \cup {j}
      BY <2>2 DEF Execute, Executing, TypeOK
    <3>2. /\ IsFiniteSet(Executing')
          /\ Cardinality(Executing') <= Cardinality(Executing) + 1
      <4>1. Cardinality(Executing) \in Nat
        BY FS_CardinalityType
      <4>2. /\ IsFiniteSet(Executing \cup {j})
            /\ Cardinality(Executing \cup {j}) =
                 IF j \in Executing THEN Cardinality(Executing) ELSE Cardinality(Executing) + 1
        BY FS_AddElement
      <4> QED
        BY <3>1, <4>1, <4>2
    <3>3. Cardinality(Executing) \in Nat /\ Cardinality(Executing') \in Nat
      BY <3>2, FS_CardinalityType
    <3>4. Cardinality(Executing) < MaxConcurrent
      BY <2>2 DEF Execute
    <3> QED
      BY <3>2, <3>3, <3>4 DEF WithinPermits
  <2>3. ASSUME NEW J \in SUBSET Jobs, End(J) PROVE Bounded'
    <3>1. Executing' \subseteq Executing
      BY <2>3 DEF End, Executing, Idle
    <3> QED
      BY <2>0, <3>1
  <2>4. CASE UNCHANGED runs
    <3>1. Executing' \subseteq Executing
      BY <2>4 DEF Executing
    <3> QED
      BY <2>0, <3>1
  <2> QED
    BY <2>1, <2>2, <2>3, <2>4 DEF Next
<1>3. Bounded => WithinPermits
  OBVIOUS
<1> QED
  BY <1>1, <1>2, <1>3, TypeCorrect, PTL DEF Spec
=============================================================================
