--------------------------- MODULE HelpersProofs ---------------------------
(***************************************************************************)
(* Proofs about Helpers, for any sets of helpers and scheduler runs and any*)
(* limit: its type invariant, the safety of the registry's slots, of the   *)
(* list of live helpers and of the reports, that a killed run is never     *)
(* shown as completed, and that helpers and parent implement Reports.      *)
(***************************************************************************)
EXTENDS Helpers, FiniteSetTheorems, TLAPS

USE HelpersAssumption
-----------------------------------------------------------------------------
Stages == {"none", "working", "delivering", "ended"}

LEMMA WithoutType ==
  ASSUME recs \in [Agents -> Record], NEW gone
  PROVE  /\ Without(gone) \in [Agents -> Record]
         /\ \A a \in Agents : Without(gone)[a] \in {recs[a], Absent}
BY DEF Without, Absent, Record

LEMMA OutcomeType ==
  ASSUME NEW rec \in Record
  PROVE  /\ Completed(rec) \in Record
         /\ Overwritten(rec, "failed") \in Record
         /\ Overwritten(rec, "killed") \in Record
BY DEF Completed, Overwritten, Record

\* What a registration leaves of the records.
LEMMA RegisterType ==
  ASSUME TypeOK, NEW a \in Agents, NEW gone, Register(a, gone)
  PROVE  recs' \in [Agents -> Record]
<1>1. [status |-> "running", done |-> FALSE] \in Record
  BY DEF Record
<1> QED
  BY <1>1, WithoutType DEF Register, TypeOK

\* What the end of a run leaves of the tasks and the records.
LEMMA FinishType ==
  ASSUME TypeOK, NEW a \in Agents, NEW rec \in Record, NEW gone, Finish(a, rec, gone)
  PROVE  recs' \in [Agents -> Record] /\ task' \in [Agents -> Stages]
BY WithoutType DEF Finish, TypeOK, Stages

LEMMA HelperType ==
  ASSUME TypeOK, NEW h \in Helpers, NEW gone \in SUBSET Collectable, Helper(h, gone)
  PROVE  TypeOK'
<1> h \in Agents /\ recs[h] \in Record
  BY DEF TypeOK, Agents
<1> USE DEF registry, reports, vars
<1>1. CASE StartAgent(h, gone)
  BY <1>1, RegisterType DEF StartAgent, TypeOK
<1>2. CASE ReportHeld(h, gone)
  BY <1>2, OutcomeType, FinishType DEF ReportHeld, TypeOK, Stages
<1>3. CASE Fail(h, gone)
  BY <1>3, OutcomeType, FinishType DEF Fail, TypeOK, Stages
<1>4. ASSUME NEW arrived \in BOOLEAN, Sent(h, arrived, gone) PROVE TypeOK'
  <2>1. told' \in [Helpers -> Nat]
    BY <1>4 DEF Sent, TypeOK
  <2> QED
    BY <1>4, <2>1, OutcomeType, FinishType DEF Sent, TypeOK, Stages
<1>5. CASE Interrupt(h, gone)
  <2>1. CASE task[h] \in Busy
    BY <1>5, <2>1, OutcomeType, FinishType DEF Interrupt, TypeOK, Stages
  <2>2. CASE task[h] \notin Busy
    BY <1>5, <2>2 DEF Interrupt, TypeOK
  <2> QED
    BY <2>1, <2>2
<1> QED
  BY <1>1, <1>2, <1>3, <1>4, <1>5 DEF Helper

LEMMA ScheduleType ==
  ASSUME TypeOK, NEW s \in Scheduled, NEW gone \in SUBSET Collectable, Schedule(s, gone)
  PROVE  TypeOK'
<1> s \in Agents /\ recs[s] \in Record
  BY DEF TypeOK, Agents
<1>1. CASE StartScheduled(s, gone)
  BY <1>1, RegisterType, WithoutType DEF StartScheduled, TypeOK, reports
<1>2. ASSUME NEW ok \in BOOLEAN, EndScheduled(s, ok, gone) PROVE TypeOK'
  <2>1. PICK rec \in Record : Finish(s, rec, gone)
    BY <1>2, OutcomeType DEF EndScheduled
  <2> QED
    BY <1>2, <2>1, FinishType DEF EndScheduled, TypeOK, reports, Stages
<1> QED
  BY <1>1, <1>2 DEF Schedule

LEMMA ParentType ==
  ASSUME TypeOK, Parent
  PROVE  TypeOK'
<1>1. told' \in [Helpers -> Nat]
  BY DEF Parent, ParentEnds, ParentLosesModel, ParentTakesReports, ParentAnswers, TypeOK, reports
<1> QED
  BY <1>1 DEF Parent, ParentEnds, ParentLosesModel, ParentTakesReports, ParentAnswers, TypeOK,
              reports, registry

\* The state keeps its shape (registry.py:66-110; agent_executor.py:9782).
THEOREM TypeCorrect == Spec => []TypeOK
<1>1. Init => TypeOK
  BY DEF Init, TypeOK, Absent, Record
<1>2. TypeOK /\ [Next]_vars => TypeOK'
  <2> SUFFICES ASSUME TypeOK, [Next]_vars PROVE TypeOK'
    OBVIOUS
  <2>1. ASSUME NEW h \in Helpers, Deliver(h) PROVE TypeOK'
    BY <2>1 DEF Deliver, Taken, TypeOK, registry, Agents
  <2>2. ASSUME NEW a \in Agents, Cancel(a) PROVE TypeOK'
    <3>1. [recs[a] EXCEPT !.status = "killed"] \in Record
      BY DEF TypeOK, Record
    <3> QED
      BY <2>2, <3>1 DEF Cancel, TypeOK, reports
  <2>3. ASSUME NEW gone \in SUBSET Collectable, List(gone) PROVE TypeOK'
    BY <2>3, WithoutType DEF List, TypeOK, reports
  <2>4. CASE UNCHANGED vars
    BY <2>4 DEF vars, TypeOK
  <2> QED
    BY <2>1, <2>2, <2>3, <2>4, HelperType, ScheduleType, ParentType DEF Next
<1> QED
  BY <1>1, <1>2, PTL DEF Spec
-----------------------------------------------------------------------------
(***************************************************************************)
(* The registry: slots and killed runs.                                    *)
(***************************************************************************)
SlotInv ==
  /\ \A a \in Agents : task[a] = "none" => recs[a] = Absent
  /\ \A a \in Active : task[a] \in Busy
  /\ IsFiniteSet(Active)
  /\ Cardinality(Active) <= ActiveLimit

LEMMA SlotsShrink ==
  ASSUME SlotInv, Active' \subseteq Active
  PROVE  IsFiniteSet(Active)' /\ Cardinality(Active)' <= ActiveLimit
<1>1. /\ IsFiniteSet(Active')
      /\ Cardinality(Active') <= Cardinality(Active)
  BY FS_Subset DEF SlotInv
<1>2. Cardinality(Active) \in Nat /\ Cardinality(Active') \in Nat
  BY <1>1, FS_CardinalityType DEF SlotInv
<1> QED
  BY <1>1, <1>2 DEF SlotInv

\* A registration takes one slot more, and only below the limit.
LEMMA RegisterSlots ==
  ASSUME TypeOK, SlotInv, NEW a \in Agents, NEW gone, Register(a, gone)
  PROVE  /\ Active' \subseteq Active \cup {a}
         /\ IsFiniteSet(Active)' /\ Cardinality(Active)' <= ActiveLimit
         /\ \A b \in Agents \ {a} : recs'[b] \in {recs[b], Absent}
<1>1. /\ \A b \in Agents \ {a} : recs'[b] \in {recs[b], Absent}
      /\ Active' \subseteq Active \cup {a}
  BY WithoutType DEF Register, TypeOK, Active, Absent
<1>2. /\ IsFiniteSet(Active \cup {a})
      /\ Cardinality(Active \cup {a}) =
           IF a \in Active THEN Cardinality(Active) ELSE Cardinality(Active) + 1
  BY FS_AddElement DEF SlotInv
<1>3. /\ IsFiniteSet(Active')
      /\ Cardinality(Active') <= Cardinality(Active \cup {a})
  BY <1>1, <1>2, FS_Subset
<1>4. /\ Cardinality(Active) \in Nat /\ Cardinality(Active') \in Nat
      /\ Cardinality(Active) < ActiveLimit
  BY <1>3, FS_CardinalityType DEF SlotInv, Register
<1> QED
  BY <1>1, <1>2, <1>3, <1>4

\* The end of a run frees its slot and takes no other.
LEMMA FinishSlots ==
  ASSUME TypeOK, SlotInv, NEW a \in Agents, NEW rec \in Record, NEW gone, Finish(a, rec, gone),
         rec.status # "running"
  PROVE  SlotInv'
<1>1. /\ \A b \in Agents \ {a} : recs'[b] \in {recs[b], Absent} /\ task'[b] = task[b]
      /\ recs'[a] = rec /\ task'[a] = "ended"
  BY WithoutType DEF Finish, TypeOK
<1>2. Active' \subseteq Active \ {a}
  BY <1>1 DEF Active, Absent
<1>3. IsFiniteSet(Active)' /\ Cardinality(Active)' <= ActiveLimit
  BY <1>2, SlotsShrink
<1> QED
  BY <1>1, <1>2, <1>3 DEF SlotInv, Active, Absent

\* What any step does to a record that is there.
LEMMA OutcomeStatus ==
  ASSUME NEW rec \in Record
  PROVE  /\ Completed(rec).status # "running"
         /\ rec.status = "killed" => Completed(rec).status = "killed"
         /\ Overwritten(rec, "failed").status \in {"failed", "absent"}
         /\ Overwritten(rec, "killed").status \in {"killed", "absent"}
BY DEF Completed, Overwritten, Record

\* A run ends by Finish with a record that is not running, or nothing ends.
LEMMA EndsByFinish ==
  ASSUME TypeOK, NEW a \in Agents, NEW gone \in SUBSET Collectable,
         \/ /\ a \in Helpers
            /\ \/ ReportHeld(a, gone) \/ Fail(a, gone)
               \/ Sent(a, TRUE, gone) \/ Sent(a, FALSE, gone)
               \/ Interrupt(a, gone) /\ task[a] \in Busy
         \/ a \in Scheduled /\ (EndScheduled(a, TRUE, gone) \/ EndScheduled(a, FALSE, gone))
  PROVE  \E rec \in Record :
           /\ Finish(a, rec, gone)
           /\ rec.status # "running"
           /\ recs[a].status = "killed" => rec.status \in {"killed", "failed", "absent"}
<1>1. recs[a] \in Record
  BY DEF TypeOK
<1>2. \/ Finish(a, Completed(recs[a]), gone)
      \/ Finish(a, Overwritten(recs[a], "failed"), gone)
      \/ Finish(a, Overwritten(recs[a], "killed"), gone)
  BY DEF ReportHeld, Fail, Sent, Interrupt, EndScheduled
<1> QED
  BY <1>1, <1>2, OutcomeType, OutcomeStatus

LEMMA SlotStep == TypeOK /\ SlotInv /\ [Next]_vars => SlotInv'
<1> SUFFICES ASSUME TypeOK, SlotInv, [Next]_vars PROVE SlotInv'
  OBVIOUS
<1> Helpers \subseteq Agents /\ Scheduled \subseteq Agents
  BY DEF Agents
<1>0. ASSUME Active' \subseteq Active, task' = task, recs' \in [Agents -> Record],
             \A a \in Agents : recs[a] = Absent => recs'[a] = Absent
      PROVE  SlotInv'
  BY <1>0, SlotsShrink DEF SlotInv, Absent, Active
<1>1. ASSUME NEW a \in Agents, NEW gone, Register(a, gone),
             task' = [task EXCEPT ![a] = "working"]
      PROVE  SlotInv'
  <2>1. /\ Active' \subseteq Active \cup {a}
        /\ IsFiniteSet(Active)' /\ Cardinality(Active)' <= ActiveLimit
        /\ \A b \in Agents \ {a} : recs'[b] \in {recs[b], Absent}
    BY <1>1, RegisterSlots
  <2>2. /\ task'[a] = "working"
        /\ \A b \in Agents \ {a} : task'[b] = task[b]
    BY <1>1 DEF TypeOK
  <2>3. \A b \in Agents : task'[b] = "none" => recs'[b] = Absent
    BY <2>1, <2>2 DEF SlotInv
  <2>4. \A b \in Active' : task'[b] \in Busy
    <3>1. Active' \subseteq Agents
      BY DEF Active
    <3> QED
      BY <2>1, <2>2, <3>1 DEF SlotInv, Busy
  <2> QED
    BY <2>1, <2>3, <2>4 DEF SlotInv
<1>2. ASSUME NEW h \in Helpers, NEW gone \in SUBSET Collectable, Helper(h, gone) PROVE SlotInv'
  <2>1. CASE StartAgent(h, gone)
    BY <2>1, <1>1 DEF StartAgent
  <2>2. CASE Interrupt(h, gone) /\ task[h] \notin Busy
    BY <2>2, <1>0 DEF Interrupt, TypeOK, Active
  <2>3. CASE ~StartAgent(h, gone) /\ ~(Interrupt(h, gone) /\ task[h] \notin Busy)
    <3>1. \/ ReportHeld(h, gone) \/ Fail(h, gone) \/ Sent(h, TRUE, gone) \/ Sent(h, FALSE, gone)
          \/ Interrupt(h, gone) /\ task[h] \in Busy
      BY <1>2, <2>3 DEF Helper
    <3>2. h \in Agents
      OBVIOUS
    <3>3. PICK rec \in Record : Finish(h, rec, gone) /\ rec.status # "running"
      <4>1. /\ recs[h] \in Record
            /\ \/ Finish(h, Completed(recs[h]), gone)
               \/ Finish(h, Overwritten(recs[h], "failed"), gone)
               \/ Finish(h, Overwritten(recs[h], "killed"), gone)
        BY <3>1, <3>2 DEF ReportHeld, Fail, Sent, Interrupt, TypeOK
      <4> QED
        BY <4>1, OutcomeType, OutcomeStatus
    <3> QED
      BY <3>2, <3>3, FinishSlots
  <2> QED
    BY <2>1, <2>2, <2>3
<1>3. ASSUME NEW h \in Helpers, Deliver(h) PROVE SlotInv'
  <2>1. recs' = recs /\ task' = [task EXCEPT ![h] = "delivering"] /\ task[h] = "working"
    BY <1>3 DEF Deliver, registry
  <2>2. Active' = Active
    BY <2>1 DEF Active
  <2>3. \A a \in Agents : task'[a] = IF a = h THEN "delivering" ELSE task[a]
    BY <2>1 DEF TypeOK
  <2>4. Active \subseteq Agents /\ IsFiniteSet(Active)' /\ Cardinality(Active)' <= ActiveLimit
    BY <2>2, SlotsShrink DEF Active
  <2> QED
    BY <2>1, <2>2, <2>3, <2>4 DEF SlotInv, Busy
<1>4. ASSUME NEW s \in Scheduled, NEW gone \in SUBSET Collectable, Schedule(s, gone) PROVE SlotInv'
  <2>1. CASE StartScheduled(s, gone) /\ Register(s, gone)
    BY <2>1, <1>1 DEF StartScheduled
  <2>2. CASE StartScheduled(s, gone) /\ ~Register(s, gone)
    <3>1. recs' = Without(gone) /\ task' = [task EXCEPT ![s] = "working"]
      BY <2>2 DEF StartScheduled
    <3>2. /\ \A a \in Agents : recs'[a] \in {recs[a], Absent}
          /\ Active' \subseteq Active
      BY <3>1, WithoutType DEF TypeOK, Active, Absent
    <3>3. \A a \in Agents : task'[a] = IF a = s THEN "working" ELSE task[a]
      BY <3>1 DEF TypeOK
    <3>4. Active \subseteq Agents /\ IsFiniteSet(Active)' /\ Cardinality(Active)' <= ActiveLimit
      BY <3>2, SlotsShrink DEF Active
    <3>5. \A a \in Agents : task'[a] = "none" => recs'[a] = Absent
      BY <3>2, <3>3 DEF SlotInv
    <3>6. \A a \in Active' : task'[a] \in Busy
      BY <3>2, <3>3, <3>4 DEF SlotInv, Busy
    <3> QED
      BY <3>4, <3>5, <3>6 DEF SlotInv
  <2>3. CASE EndScheduled(s, TRUE, gone) \/ EndScheduled(s, FALSE, gone)
    <3>2. s \in Agents
      OBVIOUS
    <3>3. PICK rec \in Record : Finish(s, rec, gone) /\ rec.status # "running"
      BY <2>3, <3>2, EndsByFinish
    <3> QED
      BY <3>2, <3>3, FinishSlots
  <2> QED
    BY <1>4, <2>1, <2>2, <2>3 DEF Schedule
<1>5. ASSUME NEW a \in Agents, Cancel(a) PROVE SlotInv'
  <2>1. recs' = [recs EXCEPT ![a].status = "killed"] /\ task' = task /\ a \in Active
    BY <1>5 DEF Cancel
  <2>2. Active' \subseteq Active
    BY <2>1 DEF Active, TypeOK
  <2>3. recs[a] # Absent
    BY <2>1 DEF Active, Absent
  <2>4. \A b \in Agents : recs[b] = Absent => recs'[b] = Absent
    BY <2>1, <2>3 DEF TypeOK
  <2>5. recs' \in [Agents -> Record]
    <3>1. [recs[a] EXCEPT !.status = "killed"] \in Record
      BY DEF TypeOK, Record
    <3> QED
      BY <2>1, <3>1 DEF TypeOK
  <2> QED
    BY <2>1, <2>2, <2>4, <2>5, <1>0
<1>6. ASSUME NEW gone \in SUBSET Collectable, List(gone) PROVE SlotInv'
  <2>1. /\ recs' \in [Agents -> Record] /\ task' = task
        /\ \A a \in Agents : recs'[a] \in {recs[a], Absent}
    BY <1>6, WithoutType DEF List, TypeOK
  <2> QED
    BY <2>1, <1>0 DEF Active, Absent
<1>7. CASE Parent \/ UNCHANGED vars
  <2>1. UNCHANGED <<recs, task>>
    BY <1>7 DEF Parent, ParentEnds, ParentLosesModel, ParentTakesReports, ParentAnswers,
                registry, vars
  <2> QED
    BY <2>1, <1>0 DEF Active, TypeOK
<1> QED
  BY <1>2, <1>3, <1>4, <1>5, <1>6, <1>7 DEF Next

\* No slot of the registry leaks, and there are never more than the limit.
THEOREM Slots == Spec => []SlotsAreBacked
<1>1. Init => SlotInv
  <2> SUFFICES ASSUME Init PROVE SlotInv
    OBVIOUS
  <2>1. Active = {}
    BY DEF Init, Active, Absent
  <2> QED
    BY <2>1, FS_EmptySet DEF Init, SlotInv
<1>2. SlotInv => SlotsAreBacked
  BY DEF SlotInv, SlotsAreBacked
<1> QED
  BY <1>1, <1>2, SlotStep, TypeCorrect, PTL DEF Spec

\* A run the user cancelled is never shown as completed or running again.
THEOREM KilledStays == Spec => KilledNeverCompletes
<1> DEFINE Keeps == \A a \in Agents : recs[a].status = "killed" =>
                      recs'[a].status \in {"killed", "failed", "absent"}
<1>1. TypeOK /\ SlotInv /\ [Next]_vars => Keeps
  <2> SUFFICES ASSUME TypeOK, SlotInv, [Next]_vars, NEW b \in Agents, recs[b].status = "killed"
               PROVE  recs'[b].status \in {"killed", "failed", "absent"}
    OBVIOUS
  <2>0. Helpers \subseteq Agents /\ Scheduled \subseteq Agents /\ recs[b] # Absent
    BY DEF Agents, Absent
  <2>1. ASSUME NEW gone, recs' = Without(gone)
        PROVE  recs'[b].status \in {"killed", "failed", "absent"}
    BY <2>1, WithoutType DEF TypeOK, Absent
  <2>2. ASSUME NEW a \in Agents, NEW gone, task[a] = "none", Register(a, gone)
        PROVE  recs'[b].status \in {"killed", "failed", "absent"}
    <3>1. a # b
      BY <2>0, <2>2 DEF SlotInv
    <3>2. recs'[b] = Without(gone)[b]
      BY <2>2, <3>1 DEF Register, Without
    <3> QED
      BY <3>2, WithoutType DEF TypeOK, Absent
  <2>3. ASSUME NEW a \in Agents, NEW rec \in Record, NEW gone, Finish(a, rec, gone),
               recs[a].status = "killed" => rec.status \in {"killed", "failed", "absent"}
        PROVE  recs'[b].status \in {"killed", "failed", "absent"}
    BY <2>3, WithoutType DEF Finish, TypeOK, Absent
  <2>4. ASSUME NEW a \in Agents, NEW gone,
               \/ Finish(a, Completed(recs[a]), gone)
               \/ Finish(a, Overwritten(recs[a], "failed"), gone)
               \/ Finish(a, Overwritten(recs[a], "killed"), gone)
        PROVE  recs'[b].status \in {"killed", "failed", "absent"}
    <3>1. recs[a] \in Record
      BY DEF TypeOK
    <3> QED
      BY <2>3, <2>4, <3>1, OutcomeType, OutcomeStatus
  <2>5. CASE \E h \in Helpers, gone \in SUBSET Collectable : Helper(h, gone)
    <3>1. PICK h \in Helpers, gone \in SUBSET Collectable : Helper(h, gone)
      BY <2>5
    <3>2. CASE StartAgent(h, gone)
      BY <2>0, <2>2, <3>2 DEF StartAgent
    <3>3. CASE Interrupt(h, gone) /\ task[h] \notin Busy
      BY <3>3 DEF Interrupt
    <3>4. CASE ~StartAgent(h, gone) /\ ~(Interrupt(h, gone) /\ task[h] \notin Busy)
      BY <2>0, <2>4, <3>1, <3>4 DEF Helper, ReportHeld, Fail, Sent, Interrupt
    <3> QED
      BY <3>2, <3>3, <3>4
  <2>6. CASE \E s \in Scheduled, gone \in SUBSET Collectable : Schedule(s, gone)
    <3>1. PICK s \in Scheduled, gone \in SUBSET Collectable : Schedule(s, gone)
      BY <2>6
    <3>2. CASE StartScheduled(s, gone)
      BY <2>0, <2>1, <2>2, <3>2 DEF StartScheduled
    <3>3. CASE ~StartScheduled(s, gone)
      BY <2>0, <2>4, <3>1, <3>3 DEF Schedule, EndScheduled
    <3> QED
      BY <3>2, <3>3
  <2>7. ASSUME NEW a \in Agents, Cancel(a) PROVE recs'[b].status \in {"killed", "failed", "absent"}
    BY <2>7 DEF Cancel, TypeOK
  <2>8. ASSUME NEW gone \in SUBSET Collectable, List(gone)
        PROVE  recs'[b].status \in {"killed", "failed", "absent"}
    BY <2>1, <2>8 DEF List
  <2>9. CASE Parent \/ UNCHANGED vars \/ \E h \in Helpers : Deliver(h)
    BY <2>9 DEF Parent, ParentEnds, ParentLosesModel, ParentTakesReports, ParentAnswers,
                Deliver, registry, vars
  <2> QED
    BY <2>5, <2>6, <2>7, <2>8, <2>9 DEF Next
<1>2. Init => SlotInv
  <2> SUFFICES ASSUME Init PROVE SlotInv
    OBVIOUS
  <2>1. Active = {}
    BY DEF Init, Active, Absent
  <2> QED
    BY <2>1, FS_EmptySet DEF Init, SlotInv
<1>3. TypeOK /\ SlotInv /\ [Next]_vars => [Keeps]_recs
  BY <1>1
<1> QED
  BY <1>2, <1>3, SlotStep, TypeCorrect, PTL DEF Spec, KilledNeverCompletes
-----------------------------------------------------------------------------
(***************************************************************************)
(* The reports.  Only a helper in its send has a reply, only a combining   *)
(* parent has reports of its own, and a helper that has not reported yet   *)
(* is nowhere in them.                                                     *)
(***************************************************************************)
Nowhere(h) == h \notin held \cup final \cup InReply /\ told[h] = 0

ReportInv ==
  /\ LiveIsBusy
  /\ ParentSpeaksFirst
  /\ ToldOnce
  /\ \A h \in Helpers : replying[h] # {} => task[h] = "delivering"
  /\ final # {} => parent = "combining"
  /\ \A h \in Helpers : task[h] \in {"none", "working"} => Nowhere(h)

\* The last helper is alone in _live_helpers.
LEMMA LastIsAlone ==
  ASSUME TypeOK, LiveIsBusy, NEW h \in Helpers, task[h] \in Busy, LastAfterEnd
  PROVE  live = {h}
<1>1. h \in live /\ IsFiniteSet(live)
  BY FS_Subset DEF LiveIsBusy, TypeOK
<1>2. ASSUME NEW k \in live, k # h PROVE FALSE
  <2>1. {h, k} \subseteq live /\ Cardinality({h, k}) = 2
    <3>1. IsFiniteSet({h}) /\ Cardinality({h}) = 1
      BY FS_Singleton
    <3>2. Cardinality({h} \cup {k}) = 2
      <4>1. Cardinality({h} \cup {k}) =
              IF k \in {h} THEN Cardinality({h}) ELSE Cardinality({h}) + 1
        BY <3>1, FS_AddElement
      <4> QED
        BY <3>1, <4>1, <1>2
    <3>3. {h, k} = {h} \cup {k}
      OBVIOUS
    <3> QED
      BY <1>1, <1>2, <3>2, <3>3
  <2>2. Cardinality({h, k}) <= Cardinality(live) /\ Cardinality(live) \in Nat
    BY <1>1, <2>1, FS_Subset, FS_CardinalityType
  <2> QED
    BY <2>1, <2>2 DEF LastAfterEnd
<1> QED
  BY <1>1, <1>2

\* A helper leaves its task and the reports alone, but for dropping its reply.
LEMMA EndsUnreported ==
  ASSUME TypeOK, ReportInv, NEW h \in Helpers, task[h] \in Busy,
         task' = [task EXCEPT ![h] = "ended"], live' = live \ {h},
         replying' = [replying EXCEPT ![h] = {}],
         UNCHANGED <<held, parent, final, told>>
  PROVE  ReportInv'
<1> h \in Agents /\ Helpers \subseteq Agents
  BY DEF Agents
<1>1. /\ task'[h] = "ended" /\ replying'[h] = {}
      /\ \A k \in Helpers \ {h} : task'[k] = task[k] /\ replying'[k] = replying[k]
  BY DEF TypeOK
<1>2. InReply' \subseteq InReply
  BY <1>1 DEF InReply
<1>3. LiveIsBusy'
  BY <1>1 DEF ReportInv, LiveIsBusy, Busy
<1>4. ParentSpeaksFirst'
  BY <1>1 DEF ReportInv, ParentSpeaksFirst, LiveIsBusy, LoopActive, Busy
<1>5. ToldOnce'
  <2>1. \A k \in Helpers : told'[k] <= IF k \in held' \cup final' \cup InReply' THEN 0 ELSE 1
    BY <1>2 DEF ReportInv, ToldOnce, TypeOK
  <2> QED
    BY <1>1, <1>2, <2>1 DEF ReportInv, ToldOnce
<1> QED
  BY <1>1, <1>2, <1>3, <1>4, <1>5 DEF ReportInv, Nowhere

\* A helper's report is kept, for the parent or for the last helper.
LEMMA HeldKeeps ==
  ASSUME TypeOK, ReportInv, NEW h \in Helpers, NEW gone, ReportHeld(h, gone)
  PROVE  ReportInv'
<1> h \in Agents /\ Helpers \subseteq Agents
  BY DEF Agents
<1>1. /\ task[h] = "working" /\ task' = [task EXCEPT ![h] = "ended"]
      /\ held' = held \cup {h} /\ live' = live \ {h}
      /\ UNCHANGED <<replying, parent, final, told>>
  BY DEF ReportHeld, Finish
<1>2. task'[h] = "ended" /\ \A k \in Helpers \ {h} : task'[k] = task[k]
  BY <1>1 DEF TypeOK
<1>3. Nowhere(h)
  BY <1>1 DEF ReportInv
<1>4. InReply' = InReply
  BY <1>1 DEF InReply
<1>5. LiveIsBusy'
  BY <1>1, <1>2 DEF ReportInv, LiveIsBusy, Busy
<1>6. ParentSpeaksFirst'
  BY <1>1, <1>2 DEF ReportInv, ParentSpeaksFirst, LiveIsBusy, LoopActive, Busy
<1>7. ToldOnce'
  BY <1>1, <1>3, <1>4 DEF ReportInv, ToldOnce, Nowhere, TypeOK
<1> QED
  BY <1>1, <1>2, <1>4, <1>5, <1>6, <1>7 DEF ReportInv, Nowhere

\* The last helper takes all that is held into one reply.
LEMMA DeliverKeeps ==
  ASSUME TypeOK, ReportInv, NEW h \in Helpers, Deliver(h)
  PROVE  ReportInv'
<1> h \in Agents /\ Helpers \subseteq Agents
  BY DEF Agents
<1>1. /\ task[h] = "working" /\ task' = [task EXCEPT ![h] = "delivering"]
      /\ held' = {} /\ replying' = [replying EXCEPT ![h] = held \cup {h}]
      /\ parent = "ended" /\ LastAfterEnd
      /\ UNCHANGED <<live, parent, final, told>>
  BY DEF Deliver, Taken, LastAfterEnd, LoopActive
<1>2. /\ task'[h] = "delivering" /\ replying'[h] = held \cup {h}
      /\ \A k \in Helpers \ {h} : task'[k] = task[k] /\ replying'[k] = replying[k]
  BY <1>1 DEF TypeOK
<1>3. live = {h}
  BY <1>1, LastIsAlone DEF ReportInv, Busy
<1>4. Nowhere(h) /\ final = {}
  BY <1>1 DEF ReportInv
<1>5. \A k \in Helpers : replying[k] = {}
  BY <1>1, <1>3 DEF ReportInv, LiveIsBusy, Busy
<1>6. InReply = {} /\ InReply' = held \cup {h}
  <2>1. InReply = {}
    BY <1>5 DEF InReply
  <2>2. \A k \in Helpers \ {h} : replying'[k] = {}
    BY <1>2, <1>5
  <2> QED
    BY <1>2, <2>1, <2>2 DEF InReply
<1>7. LiveIsBusy'
  BY <1>1, <1>2 DEF ReportInv, LiveIsBusy, Busy
<1>8. ParentSpeaksFirst'
  BY <1>1, <1>2, <1>3 DEF ReportInv, ParentSpeaksFirst, LoopActive
<1>9. ToldOnce'
  <2>1. \A k \in Helpers : told'[k] <= IF k \in held' \cup final' \cup InReply' THEN 0 ELSE 1
    BY <1>1, <1>4, <1>6 DEF ReportInv, ToldOnce, TypeOK, Nowhere
  <2>2. \A k, l \in Helpers : k # l => replying'[k] \cap replying'[l] = {}
    BY <1>2, <1>5
  <2> QED
    BY <1>1, <1>4, <1>6, <2>1, <2>2 DEF ToldOnce
<1> QED
  BY <1>1, <1>2, <1>4, <1>5, <1>6, <1>7, <1>8, <1>9 DEF ReportInv, Nowhere

\* The reply arrives: its reports are with the user, and nowhere else.
LEMMA SentKeeps ==
  ASSUME TypeOK, ReportInv, NEW h \in Helpers, NEW gone, Sent(h, TRUE, gone)
  PROVE  ReportInv'
<1> h \in Agents /\ Helpers \subseteq Agents
  BY DEF Agents
<1>1. /\ task[h] = "delivering" /\ task' = [task EXCEPT ![h] = "ended"]
      /\ told' = [k \in Helpers |-> IF k \in replying[h] THEN told[k] + 1 ELSE told[k]]
      /\ replying' = [replying EXCEPT ![h] = {}] /\ live' = live \ {h}
      /\ UNCHANGED <<held, parent, final>>
  BY DEF Sent, Finish
<1>2. /\ task'[h] = "ended" /\ replying'[h] = {}
      /\ \A k \in Helpers \ {h} : task'[k] = task[k] /\ replying'[k] = replying[k]
  BY <1>1 DEF TypeOK
<1>3. InReply' \subseteq InReply /\ InReply' \cap replying[h] = {} /\ replying[h] \subseteq InReply
  BY <1>2 DEF InReply, ReportInv, ToldOnce
<1>4. LiveIsBusy'
  BY <1>1, <1>2 DEF ReportInv, LiveIsBusy, Busy
<1>5. ParentSpeaksFirst'
  BY <1>1, <1>2 DEF ReportInv, ParentSpeaksFirst, LiveIsBusy, LoopActive, Busy
<1>6. ToldOnce'
  <2>1. ASSUME NEW k \in Helpers
        PROVE  told'[k] <= IF k \in held' \cup final' \cup InReply' THEN 0 ELSE 1
    <3>1. CASE k \in replying[h]
      <4>1. told[k] = 0 /\ k \notin held \cup final \cup InReply'
        BY <1>3, <3>1 DEF ReportInv, ToldOnce, TypeOK
      <4> QED
        BY <1>1, <3>1, <4>1
    <3>2. CASE k \notin replying[h]
      BY <1>1, <1>3, <3>2 DEF ReportInv, ToldOnce, TypeOK
    <3> QED
      BY <3>1, <3>2
  <2> QED
    BY <1>1, <1>2, <1>3, <2>1 DEF ReportInv, ToldOnce
<1>7. \A k \in Helpers : task'[k] \in {"none", "working"} => Nowhere(k)'
  BY <1>1, <1>2, <1>3 DEF ReportInv, Nowhere
<1> QED
  BY <1>1, <1>2, <1>4, <1>5, <1>6, <1>7 DEF ReportInv

\* The parent moves reports from the list to its answer, and to the user.
LEMMA ParentKeeps ==
  ASSUME TypeOK, ReportInv, Parent
  PROVE  ReportInv'
<1>1. UNCHANGED <<task, live, replying>> /\ InReply' = InReply
  BY DEF Parent, ParentEnds, ParentLosesModel, ParentTakesReports, ParentAnswers, reports, InReply
<1>2. LiveIsBusy'
  BY <1>1 DEF ReportInv, LiveIsBusy
<1>3. ParentSpeaksFirst'
  BY <1>1 DEF ReportInv, ParentSpeaksFirst, LoopActive, Parent, ParentEnds, ParentLosesModel,
              ParentTakesReports, ParentAnswers
<1>4. CASE ParentEnds \/ ParentLosesModel
  BY <1>1, <1>2, <1>3, <1>4 DEF ParentEnds, ParentLosesModel, reports, ReportInv, ToldOnce, Nowhere
<1>5. CASE ParentTakesReports
  <2>1. final = {} /\ final' = held /\ held' = {} /\ told' = told
    BY <1>5 DEF ParentTakesReports, ReportInv
  <2>2. final' # {} => parent' = "combining"
    BY <1>5 DEF ParentTakesReports
  <2> QED
    BY <1>1, <1>2, <1>3, <2>1, <2>2 DEF ReportInv, ToldOnce, Nowhere
<1>6. CASE ParentAnswers
  <2>1. /\ final' = {} /\ held' = held
        /\ told' = [h \in Helpers |-> IF h \in final THEN told[h] + 1 ELSE told[h]]
    BY <1>6 DEF ParentAnswers
  <2>2. ASSUME NEW h \in Helpers
        PROVE  told'[h] <= IF h \in held' \cup final' \cup InReply' THEN 0 ELSE 1
    BY <1>1, <2>1 DEF ReportInv, ToldOnce, TypeOK
  <2> QED
    BY <1>1, <1>2, <1>3, <2>1, <2>2 DEF ReportInv, ToldOnce, Nowhere
<1> QED
  BY <1>4, <1>5, <1>6 DEF Parent

LEMMA ReportStep == TypeOK /\ ReportInv /\ [Next]_vars => ReportInv'
<1> SUFFICES ASSUME TypeOK, ReportInv, [Next]_vars PROVE ReportInv'
  OBVIOUS
<1>0. ASSUME UNCHANGED <<live, held, parent, final, told, replying>>,
             \A h \in Helpers : task'[h] = task[h]
      PROVE  ReportInv'
  BY <1>0 DEF ReportInv, LiveIsBusy, ParentSpeaksFirst, ToldOnce, Nowhere, InReply, LoopActive
<1>1. ASSUME NEW h \in Helpers, NEW gone \in SUBSET Collectable, Helper(h, gone) PROVE ReportInv'
  <2>0. h \in Agents /\ Helpers \subseteq Agents
    BY DEF Agents
  <2>1. CASE StartAgent(h, gone)
    <3>1. /\ task[h] = "none" /\ parent = "running" /\ live' = live \cup {h}
          /\ task' = [task EXCEPT ![h] = "working"]
          /\ UNCHANGED <<held, parent, final, told, replying>>
      BY <2>1 DEF StartAgent, reports
    <3>2. \A k \in Helpers : task'[k] = IF k = h THEN "working" ELSE task[k]
      BY <3>1, <2>0 DEF TypeOK
    <3> QED
      BY <3>1, <3>2 DEF ReportInv, LiveIsBusy, ParentSpeaksFirst, ToldOnce, Nowhere, InReply,
                        LoopActive, Busy
  <2>2. CASE ReportHeld(h, gone)
    BY <2>2, HeldKeeps
  <2>3. CASE Fail(h, gone)
    <3>1. replying[h] = {}
      BY <2>3 DEF Fail, ReportInv
    <3>2. replying' = [replying EXCEPT ![h] = {}]
      BY <2>3, <3>1 DEF Fail, reports, TypeOK
    <3> QED
      BY <2>3, <3>2, EndsUnreported DEF Fail, Finish, reports, Busy
  <2>4. CASE Sent(h, TRUE, gone)
    BY <2>4, SentKeeps
  <2>5. CASE Sent(h, FALSE, gone)
    BY <2>5, EndsUnreported DEF Sent, Finish, Busy
  <2>6. CASE Interrupt(h, gone)
    <3>1. CASE task[h] \in Busy
      BY <2>6, <3>1, EndsUnreported DEF Interrupt, Finish
    <3>2. CASE task[h] \notin Busy
      BY <2>6, <3>2, <1>0 DEF Interrupt
    <3> QED
      BY <3>1, <3>2
  <2> QED
    BY <1>1, <2>1, <2>2, <2>3, <2>4, <2>5, <2>6 DEF Helper
<1>2. ASSUME NEW h \in Helpers, Deliver(h) PROVE ReportInv'
  BY <1>2, DeliverKeeps
<1>3. ASSUME NEW s \in Scheduled, NEW gone \in SUBSET Collectable, Schedule(s, gone)
      PROVE  ReportInv'
  <2>1. UNCHANGED <<live, held, parent, final, told, replying>>
    BY <1>3 DEF Schedule, StartScheduled, EndScheduled, reports
  <2>2. \A h \in Helpers : task'[h] = task[h]
    BY <1>3 DEF Schedule, StartScheduled, EndScheduled, Finish, TypeOK, Agents
  <2> QED
    BY <2>1, <2>2, <1>0
<1>4. ASSUME NEW a \in Agents, Cancel(a) PROVE ReportInv'
  BY <1>4, <1>0 DEF Cancel, reports
<1>5. ASSUME NEW gone \in SUBSET Collectable, List(gone) PROVE ReportInv'
  BY <1>5, <1>0 DEF List, reports
<1>6. CASE Parent
  BY <1>6, ParentKeeps
<1>7. CASE UNCHANGED vars
  BY <1>7, <1>0 DEF vars
<1> QED
  BY <1>1, <1>2, <1>3, <1>4, <1>5, <1>6, <1>7 DEF Next

LEMMA ReportHolds == Spec => []ReportInv
<1>1. Init => ReportInv
  BY DEF Init, ReportInv, LiveIsBusy, ParentSpeaksFirst, ToldOnce, Nowhere, InReply, Busy, Agents
<1> QED
  BY <1>1, ReportStep, TypeCorrect, PTL DEF Spec

\* _live_helpers names the helpers still going.
THEOREM LiveHelpersAreBusy == Spec => []LiveIsBusy
<1>1. ReportInv => LiveIsBusy
  BY DEF ReportInv
<1> QED
  BY <1>1, ReportHolds, PTL

\* The parent alone speaks while it runs, and one helper at a time after it.
THEOREM OneVoice == Spec => []ParentSpeaksFirst
<1>1. ReportInv => ParentSpeaksFirst
  BY DEF ReportInv
<1> QED
  BY <1>1, ReportHolds, PTL

\* No report reaches the user twice.
THEOREM NothingIsToldTwice == Spec => []ToldOnce
<1>1. ReportInv => ToldOnce
  BY DEF ReportInv
<1> QED
  BY <1>1, ReportHolds, PTL
-----------------------------------------------------------------------------
(***************************************************************************)
(* The refinement of Reports.  Besides ReportInv it takes that a helper in *)
(* its send is one of those it speaks for.                                 *)
(***************************************************************************)
Delivering == \A h \in Helpers : task[h] = "delivering" => h \in replying[h]

VoiceInv == TypeOK /\ ReportInv /\ Delivering

LEMMA DeliveringHolds == Spec => []Delivering
<1>1. Init => Delivering
  BY DEF Init, Delivering, Agents
<1>2. TypeOK /\ ReportInv /\ Delivering /\ [Next]_vars => Delivering'
  <2> SUFFICES ASSUME TypeOK, ReportInv, Delivering, [Next]_vars, NEW k \in Helpers,
                      task'[k] = "delivering"
               PROVE  k \in replying'[k]
    BY DEF Delivering
  <2> Helpers \subseteq Agents
    BY DEF Agents
  <2>1. ASSUME task'[k] = task[k], replying' = replying PROVE k \in replying'[k]
    BY <2>1 DEF Delivering
  <2>2. ASSUME NEW h \in Helpers, NEW gone \in SUBSET Collectable, Helper(h, gone)
        PROVE  k \in replying'[k]
    <3>1. CASE StartAgent(h, gone)
      BY <2>1, <3>1 DEF StartAgent, reports, TypeOK
    <3>2. CASE ReportHeld(h, gone) \/ Fail(h, gone)
      BY <2>1, <3>2 DEF ReportHeld, Fail, Finish, reports, TypeOK
    <3>3. ASSUME NEW arrived \in BOOLEAN, Sent(h, arrived, gone) PROVE k \in replying'[k]
      BY <3>3 DEF Sent, Finish, TypeOK, Delivering
    <3>4. CASE Interrupt(h, gone)
      BY <2>1, <3>4 DEF Interrupt, Finish, TypeOK, Delivering
    <3> QED
      BY <2>2, <3>1, <3>2, <3>3, <3>4 DEF Helper
  <2>3. ASSUME NEW h \in Helpers, Deliver(h) PROVE k \in replying'[k]
    BY <2>3 DEF Deliver, Taken, TypeOK, Delivering
  <2>4. ASSUME NEW s \in Scheduled, NEW gone \in SUBSET Collectable, Schedule(s, gone)
        PROVE  k \in replying'[k]
    BY <2>1, <2>4 DEF Schedule, StartScheduled, EndScheduled, Finish, reports, TypeOK
  <2>5. CASE (\E a \in Agents : Cancel(a)) \/ (\E gone \in SUBSET Collectable : List(gone))
    BY <2>1, <2>5 DEF Cancel, List, reports
  <2>6. CASE Parent \/ UNCHANGED vars
    BY <2>1, <2>6 DEF Parent, ParentEnds, ParentLosesModel, ParentTakesReports, ParentAnswers,
                      reports, vars
  <2> QED
    BY <2>2, <2>3, <2>4, <2>5, <2>6 DEF Next
<1> QED
  BY <1>1, <1>2, TypeCorrect, ReportHolds, PTL DEF Spec

\* The abstract sets are those of the code.
LEMMA WhereReportsAre ==
  ASSUME VoiceInv
  PROVE  /\ Told!Kept = held /\ Told!Spoken = final \cup InReply
         /\ \A h \in Helpers : task[h] \in {"none", "working"} => Report[h] = "due"
<1>1. held \subseteq Helpers /\ final \subseteq Helpers /\ InReply \subseteq Helpers
  BY DEF VoiceInv, TypeOK, InReply
<1>2. held \cap final = {} /\ (held \cup final) \cap InReply = {}
  BY DEF VoiceInv, ReportInv, ToldOnce
<1>3. Told!Kept = held
  BY <1>1 DEF Told!Kept, Report
<1>4. Told!Spoken = final \cup InReply
  BY <1>1, <1>2 DEF Told!Spoken, Report
<1> QED
  BY <1>3, <1>4 DEF Report, VoiceInv, ReportInv, Nowhere

\* While the parent runs, no helper sends anything; when one does, it is the only one and
\* the parent has nothing left to say.
LEMMA OneSpeaks ==
  ASSUME VoiceInv
  PROVE  /\ LoopActive => InReply = {} /\ \A h \in Helpers : task[h] # "delivering"
         /\ \A h \in Helpers : task[h] = "delivering" =>
              /\ ~LoopActive /\ final = {} /\ InReply = replying[h] /\ h \in replying[h]
              /\ \A k \in Helpers \ {h} : task[k] \notin Busy
<1>1. ASSUME LoopActive PROVE InReply = {} /\ \A h \in Helpers : task[h] # "delivering"
  BY <1>1 DEF VoiceInv, ReportInv, ParentSpeaksFirst, InReply
<1>2. ASSUME NEW h \in Helpers, task[h] = "delivering"
      PROVE  /\ ~LoopActive /\ final = {} /\ InReply = replying[h] /\ h \in replying[h]
             /\ \A k \in Helpers \ {h} : task[k] \notin Busy
  <2>1. ~LoopActive /\ live = {h} /\ final = {} /\ h \in replying[h]
    BY <1>2 DEF VoiceInv, ReportInv, ParentSpeaksFirst, LoopActive, Delivering
  <2>2. \A k \in Helpers \ {h} : task[k] \notin Busy /\ replying[k] = {}
    BY <2>1 DEF VoiceInv, ReportInv, LiveIsBusy, Busy
  <2> QED
    BY <2>1, <2>2 DEF InReply
<1> QED
  BY <1>1, <1>2

\* What neither the reports nor the tasks of the helpers show is no step of Reports.
LEMMA SilentStep ==
  ASSUME VoiceInv, UNCHANGED <<held, final, replying, told, live>>,
         LoopActive' = LoopActive,
         \A h \in Helpers : task'[h] = task[h]
  PROVE  UNCHANGED Told!vars
BY DEF Told!vars, Report, Voice, InReply

\* A helper that was only working leaves: its report is lost.
LEMMA WorkerLeaves ==
  ASSUME VoiceInv, NEW h \in Helpers, task[h] = "working", task' = [task EXCEPT ![h] = "ended"],
         InReply' = InReply, UNCHANGED <<held, parent, final, told>>
  PROVE  Told!Lose(h)
<1>1. task'[h] = "ended" /\ \A k \in Helpers \ {h} : task'[k] = task[k]
  BY DEF VoiceInv, TypeOK, Agents
<1>2. Report[h] = "due" /\ h \notin held \cup final \cup InReply
  BY WhereReportsAre DEF VoiceInv, ReportInv, Nowhere
<1>3. Report' = [Report EXCEPT ![h] = "over"]
  BY <1>1, <1>2 DEF Report
<1>4. Voice' = Voice
  BY <1>1 DEF Voice, LoopActive
<1> QED
  BY <1>2, <1>3, <1>4 DEF Told!Lose

\* A helper that was sending leaves: all it spoke for is over, told or not.
LEMMA SpeakerLeaves ==
  ASSUME VoiceInv, NEW h \in Helpers, task[h] = "delivering",
         task' = [task EXCEPT ![h] = "ended"], replying' = [replying EXCEPT ![h] = {}],
         UNCHANGED <<held, parent, final>>, NEW arrived \in BOOLEAN,
         told' = IF arrived
                 THEN [k \in Helpers |-> IF k \in replying[h] THEN told[k] + 1 ELSE told[k]]
                 ELSE told
  PROVE  Told!Finish(arrived)
<1>1. /\ task'[h] = "ended" /\ replying'[h] = {}
      /\ \A k \in Helpers \ {h} : task'[k] = task[k] /\ replying'[k] = replying[k]
  BY DEF VoiceInv, TypeOK, Agents
<1>2. /\ ~LoopActive /\ final = {} /\ InReply = replying[h] /\ h \in replying[h]
      /\ \A k \in Helpers \ {h} : task[k] \notin Busy
  BY OneSpeaks
<1>3. Told!Spoken = replying[h]
  BY <1>2, WhereReportsAre
<1>4. Voice = "helper" /\ Voice' = "nobody"
  BY <1>1, <1>2 DEF Voice, LoopActive, Busy
<1>5. InReply' = {}
  <2>1. ASSUME NEW k \in Helpers PROVE replying'[k] = {}
    BY <1>1, <1>2 DEF VoiceInv, ReportInv, Busy
  <2> QED
    BY <2>1 DEF InReply
<1>6. ASSUME NEW k \in Helpers
      PROVE  Report'[k] = IF k \in replying[h] THEN "over" ELSE Report[k]
  <2>1. CASE k \in replying[h]
    <3>1. k \notin held
      BY <1>2, <2>1 DEF VoiceInv, ReportInv, ToldOnce
    <3>2. task[k] \notin {"none", "working"}
      BY <1>2, <2>1 DEF VoiceInv, ReportInv, Nowhere
    <3>3. task[k] \in {"none", "working", "delivering", "ended"}
      BY DEF VoiceInv, TypeOK, Agents
    <3>4. task'[k] = "ended"
      BY <1>1, <1>2, <3>2, <3>3 DEF Busy
    <3> QED
      BY <1>2, <1>5, <2>1, <3>1, <3>4 DEF Report
  <2>2. CASE k \notin replying[h]
    BY <1>1, <1>2, <1>5, <2>2 DEF Report
  <2> QED
    BY <2>1, <2>2
<1>7. Report' = [k \in Helpers |-> IF k \in Told!Spoken THEN "over" ELSE Report[k]]
  <2>1. Report' = [k \in Helpers |-> Report'[k]]
    BY DEF Report
  <2> QED
    BY <1>3, <1>6, <2>1
<1>8. told' = [k \in Helpers |-> IF arrived /\ k \in Told!Spoken THEN told[k] + 1 ELSE told[k]]
  <2>1. told = [k \in Helpers |-> told[k]]
    BY DEF VoiceInv, TypeOK
  <2> QED
    BY <1>3, <2>1
<1> QED
  BY <1>4, <1>7, <1>8 DEF Told!Finish

LEMMA HelperRefines ==
  ASSUME VoiceInv, NEW h \in Helpers, NEW gone \in SUBSET Collectable, Helper(h, gone)
  PROVE  [Told!Next]_(Told!vars)
<1> h \in Agents /\ Helpers \subseteq Agents
  BY DEF Agents
<1>1. CASE StartAgent(h, gone)
  <2>1. /\ \A k \in Helpers : task'[k] = IF k = h THEN "working" ELSE task[k]
        /\ task[h] = "none" /\ UNCHANGED <<held, final, replying, told, parent>>
    BY <1>1 DEF StartAgent, reports, VoiceInv, TypeOK
  <2>2. Voice' = Voice /\ Report' = Report
    BY <2>1 DEF Voice, Report, LoopActive, InReply
  <2> QED
    BY <2>1, <2>2 DEF Told!vars
<1>2. CASE ReportHeld(h, gone)
  <2>1. /\ task[h] = "working" /\ task' = [task EXCEPT ![h] = "ended"]
        /\ held' = held \cup {h} /\ UNCHANGED <<replying, parent, final, told>>
    BY <1>2 DEF ReportHeld, Finish
  <2>2. task'[h] = "ended" /\ \A k \in Helpers \ {h} : task'[k] = task[k]
    BY <2>1 DEF VoiceInv, TypeOK
  <2>3. Report[h] = "due" /\ InReply' = InReply
    BY <2>1, WhereReportsAre DEF InReply
  <2>4. Report' = [Report EXCEPT ![h] = "kept"]
    BY <2>1, <2>2, <2>3 DEF Report
  <2>5. Voice' = Voice
    BY <2>1, <2>2 DEF Voice, LoopActive
  <2>6. Told!Keep(h)
    BY <2>1, <2>3, <2>4, <2>5 DEF Told!Keep
  <2> QED
    BY <2>6 DEF Told!Next
<1>3. CASE Fail(h, gone)
  <2>1. Told!Lose(h)
    BY <1>3, WorkerLeaves DEF Fail, Finish, reports, InReply
  <2> QED
    BY <2>1 DEF Told!Next
<1>4. ASSUME NEW arrived \in BOOLEAN, Sent(h, arrived, gone) PROVE Told!Next
  <2>1. Told!Finish(arrived)
    BY <1>4, SpeakerLeaves DEF Sent, Finish
  <2> QED
    BY <2>1 DEF Told!Next
<1>5. CASE Interrupt(h, gone)
  <2>1. CASE task[h] = "working"
    <3>1. replying[h] = {} /\ replying' = [replying EXCEPT ![h] = {}]
      BY <1>5, <2>1 DEF Interrupt, Busy, VoiceInv, ReportInv
    <3>2. replying' = replying
      BY <3>1 DEF VoiceInv, TypeOK
    <3>3. Told!Lose(h)
      BY <1>5, <2>1, <3>2, WorkerLeaves DEF Interrupt, Finish, Busy, InReply
    <3> QED
      BY <3>3 DEF Told!Next
  <2>2. CASE task[h] = "delivering"
    <3>1. Told!Finish(FALSE)
      BY <1>5, <2>2, SpeakerLeaves DEF Interrupt, Finish, Busy
    <3> QED
      BY <3>1 DEF Told!Next
  <2>3. CASE task[h] \notin Busy
    <3>1. UNCHANGED Told!vars
      BY <1>5, <2>3, SilentStep DEF Interrupt, LoopActive
    <3> QED
      BY <3>1
  <2> QED
    BY <2>1, <2>2, <2>3 DEF Busy
<1> QED
  BY <1>1, <1>2, <1>3, <1>4, <1>5 DEF Helper

LEMMA DeliverRefines ==
  ASSUME VoiceInv, NEW h \in Helpers, Deliver(h)
  PROVE  Told!HelperSpeaks(h)
<1> h \in Agents /\ Helpers \subseteq Agents
  BY DEF Agents
<1>1. /\ task[h] = "working" /\ task' = [task EXCEPT ![h] = "delivering"]
      /\ held' = {} /\ replying' = [replying EXCEPT ![h] = held \cup {h}]
      /\ parent = "ended" /\ LastAfterEnd
      /\ UNCHANGED <<parent, final, told>>
  BY DEF Deliver, Taken, LastAfterEnd, LoopActive
<1>2. /\ task'[h] = "delivering" /\ replying'[h] = held \cup {h}
      /\ \A k \in Helpers \ {h} : task'[k] = task[k] /\ replying'[k] = replying[k]
  BY <1>1 DEF VoiceInv, TypeOK
<1>3. live = {h}
  BY <1>1, LastIsAlone DEF VoiceInv, ReportInv, Busy
<1>4. \A k \in Helpers : task[k] # "delivering" /\ replying[k] = {}
  BY <1>1, <1>3 DEF VoiceInv, ReportInv, LiveIsBusy, Busy
<1>5. InReply = {} /\ InReply' = held \cup {h} /\ final = {}
  <2>1. InReply = {}
    BY <1>4 DEF InReply
  <2>2. \A k \in Helpers \ {h} : replying'[k] = {}
    BY <1>2, <1>4
  <2>3. InReply' = held \cup {h}
    BY <1>2, <2>2 DEF InReply
  <2> QED
    BY <1>1, <2>1, <2>3 DEF VoiceInv, ReportInv
<1>6. Report[h] = "due" /\ Told!Kept = held
  BY <1>1, WhereReportsAre
<1>7. Voice = "nobody" /\ Voice' = "helper"
  BY <1>1, <1>2, <1>4 DEF Voice, LoopActive
<1>8. Report' = [k \in Helpers |-> IF k \in held \cup {h} THEN "spoken" ELSE Report[k]]
  BY <1>1, <1>2, <1>5 DEF Report
<1> QED
  BY <1>1, <1>6, <1>7, <1>8 DEF Told!HelperSpeaks, Told!Speaks

LEMMA ParentRefines ==
  ASSUME VoiceInv, Parent
  PROVE  [Told!Next]_(Told!vars)
<1>0. UNCHANGED <<task, live, replying>> /\ InReply' = InReply
  BY DEF Parent, ParentEnds, ParentLosesModel, ParentTakesReports, ParentAnswers, reports, InReply
<1>1. /\ LoopActive /\ InReply = {} /\ Voice = "parent"
      /\ \A h \in Helpers : task[h] # "delivering"
  <2>1. LoopActive
    BY DEF Parent, ParentEnds, ParentLosesModel, ParentTakesReports, ParentAnswers, LoopActive
  <2> QED
    BY <2>1, OneSpeaks DEF Voice
<1>2. Told!Kept = held /\ Told!Spoken = final
  BY <1>1, WhereReportsAre
<1>3. ASSUME parent' = "ended" PROVE Voice' = "nobody"
  BY <1>0, <1>1, <1>3 DEF Voice, LoopActive
\* The parent's end: what it had in hand is told.
<1>4. ASSUME parent' = "ended", held' = held, final' = {},
             told' = [h \in Helpers |-> IF h \in final THEN told[h] + 1 ELSE told[h]]
      PROVE  Told!Next
  <2>1. ASSUME NEW k \in Helpers
        PROVE  Report'[k] = IF k \in final THEN "over" ELSE Report[k]
    <3>1. CASE k \in final
      <4>1. k \notin held
        BY <3>1 DEF VoiceInv, ReportInv, ToldOnce
      <4>2. task[k] \notin {"none", "working"}
        BY <3>1 DEF VoiceInv, ReportInv, Nowhere
      <4>3. task[k] = "ended"
        BY <1>1, <4>2 DEF VoiceInv, TypeOK, Agents
      <4> QED
        BY <1>0, <1>1, <1>4, <3>1, <4>1, <4>3 DEF Report
    <3>2. CASE k \notin final
      BY <1>0, <1>1, <1>4, <3>2 DEF Report
    <3> QED
      BY <3>1, <3>2
  <2>2. Report' = [k \in Helpers |-> Report'[k]]
    BY DEF Report
  <2>3. Told!Finish(TRUE)
    BY <1>1, <1>2, <1>3, <1>4, <2>1, <2>2 DEF Told!Finish
  <2> QED
    BY <2>3 DEF Told!Next
<1>5. CASE ParentEnds
  <2>1. final = {}
    BY <1>5 DEF ParentEnds, VoiceInv, ReportInv
  <2>2. told = [h \in Helpers |-> told[h]]
    BY DEF VoiceInv, TypeOK
  <2> QED
    BY <1>4, <1>5, <2>1, <2>2 DEF ParentEnds, reports
<1>6. CASE ParentLosesModel
  <2>1. UNCHANGED Told!vars
    BY <1>0, <1>6, SilentStep DEF ParentLosesModel, reports, LoopActive
  <2> QED
    BY <2>1
<1>7. CASE ParentTakesReports
  <2>1. final = {} /\ final' = held /\ held' = {} /\ told' = told
    BY <1>7 DEF ParentTakesReports, VoiceInv, ReportInv
  <2>2. CASE held = {}
    <3>1. told = [h \in Helpers |-> told[h]] /\ parent' = "ended"
      BY <1>7, <2>2 DEF VoiceInv, TypeOK, ParentTakesReports
    <3> QED
      BY <1>4, <2>1, <2>2, <3>1
  <2>3. CASE held # {}
    <3>1. Voice' = "parent"
      BY <1>7, <2>3 DEF ParentTakesReports, Voice, LoopActive
    <3>2. Report' = [k \in Helpers |-> IF k \in held THEN "spoken" ELSE Report[k]]
      BY <1>0, <1>1, <2>1 DEF Report
    <3>3. Told!ParentSpeaks
      BY <1>1, <1>2, <2>1, <3>1, <3>2 DEF Told!ParentSpeaks, Told!Speaks
    <3> QED
      BY <3>3 DEF Told!Next
  <2> QED
    BY <2>2, <2>3
<1>8. CASE ParentAnswers
  BY <1>4, <1>8 DEF ParentAnswers
<1> QED
  BY <1>5, <1>6, <1>7, <1>8 DEF Parent

\* Helpers and parent implement Reports, for any number of helpers and any limit: one
\* voice at a time, and every report told once, or lost with the one who spoke for it.
THEOREM Refinement == Spec => RefinesReports
<1>1. Init => Told!Init
  BY DEF Init, Told!Init, Report, Voice, LoopActive, InReply, Agents
<1>2. VoiceInv /\ [Next]_vars => [Told!Next]_(Told!vars)
  <2> SUFFICES ASSUME VoiceInv, [Next]_vars PROVE [Told!Next]_(Told!vars)
    OBVIOUS
  <2>1. ASSUME NEW h \in Helpers, Deliver(h) PROVE Told!Next
    <3>1. Told!HelperSpeaks(h)
      BY <2>1, DeliverRefines
    <3> QED
      BY <3>1 DEF Told!Next
  <2>2. ASSUME NEW s \in Scheduled, NEW gone \in SUBSET Collectable, Schedule(s, gone)
        PROVE  UNCHANGED Told!vars
    <3>1. UNCHANGED <<held, final, replying, told, live, parent>>
      BY <2>2 DEF Schedule, StartScheduled, EndScheduled, reports
    <3>2. \A h \in Helpers : task'[h] = task[h]
      BY <2>2 DEF Schedule, StartScheduled, EndScheduled, Finish, VoiceInv, TypeOK, Agents
    <3> QED
      BY <3>1, <3>2, SilentStep DEF LoopActive
  <2>3. ASSUME NEW a \in Agents, Cancel(a) PROVE UNCHANGED Told!vars
    BY <2>3, SilentStep DEF Cancel, reports, LoopActive
  <2>4. ASSUME NEW gone \in SUBSET Collectable, List(gone) PROVE UNCHANGED Told!vars
    BY <2>4, SilentStep DEF List, reports, LoopActive
  <2>5. CASE UNCHANGED vars
    <3>1. UNCHANGED Told!vars
      BY <2>5, SilentStep DEF vars, LoopActive
    <3> QED
      BY <3>1
  <2> QED
    BY <2>1, <2>2, <2>3, <2>4, <2>5, HelperRefines, ParentRefines DEF Next
<1>3. TypeOK /\ ReportInv /\ Delivering => VoiceInv
  BY DEF VoiceInv
<1> QED
  BY <1>1, <1>2, <1>3, TypeCorrect, ReportHolds, DeliveringHolds, PTL
     DEF Spec, RefinesReports, Told!Spec
=============================================================================
