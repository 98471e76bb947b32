--------------------------- MODULE ApprovalProofs ---------------------------
(***************************************************************************)
(* Theorems of Approval, for any number of runs, chats, calls and          *)
(* questions: types; what a question lets through; and how long it stays.  *)
(***************************************************************************)
EXTENDS Approval, TLAPS

(***************************************************************************)
(* Types.                                                                  *)
(***************************************************************************)
LEMMA RunFields ==
  ASSUME TypeOK, NEW r \in Runs
  PROVE  /\ run[r].task \in Runs /\ run[r].by \subseteq Ids
         /\ run[r].stage \in {"asking", "judging"} => run[r].call \in Calls
         /\ run[r].stage # "judging" => run[r].by = {}
         /\ run[r].stage \in Idling => run[r].call = None
BY DEF TypeOK, Run, Idling

LEMMA SetRun ==
  ASSUME TypeOK, NEW r \in Runs, NEW new \in Run, run' = [run EXCEPT ![r] = new]
  PROVE  run' \in [Runs -> Run]
BY DEF TypeOK

LEMMA BecomesType ==
  ASSUME TypeOK, NEW r \in Runs, NEW stage, NEW c, NEW ids, Becomes(r, stage, c, ids),
         \/ stage \in Idling /\ c = None /\ ids = {}
         \/ stage = "asking" /\ c \in Calls /\ ids = {}
         \/ stage = "judging" /\ c \in Calls /\ ids \subseteq Ids
  PROVE  run' \in [Runs -> Run]
<1> DEFINE new == [stage |-> stage, task |-> run[r].task, call |-> c, by |-> ids]
<1>1. run' = [run EXCEPT ![r] = new]
  BY DEF Becomes
<1>2. new \in Run
  BY RunFields DEF Run
<1> QED
  BY <1>1, <1>2, SetRun

LEMMA ToType ==
  ASSUME TypeOK, NEW r \in Runs, NEW stage \in Idling, To(r, stage)
  PROVE  run' \in [Runs -> Run]
BY BecomesType DEF To

\* Only open questions are ever dropped.
LEMMA DropType ==
  ASSUME TypeOK, NEW ids \in SUBSET Open, Drop(ids)
  PROVE  pending' \in [Ids -> Question]
<1> SUFFICES ASSUME NEW i \in Ids PROVE pending'[i] \in Question
  BY DEF Drop
<1>1. CASE i \in ids
  <2>1. pending'[i] = [pending[i] EXCEPT !.state = "past"]
    BY <1>1 DEF Drop
  <2>2. pending[i] \in Question /\ pending[i] # Unasked
    BY <1>1 DEF TypeOK, Open, Unasked
  <2> QED
    BY <2>1, <2>2 DEF Question
<1>2. CASE i \notin ids
  BY <1>2 DEF Drop, TypeOK
<1> QED
  BY <1>1, <1>2

LEMMA AnswerableOpen == \A r \in Runs : Answerable(r) \subseteq Open
BY DEF Answerable, Open

LEMMA TypeStep == TypeOK /\ [Next]_vars => TypeOK'
<1> SUFFICES ASSUME TypeOK, [Next]_vars PROVE TypeOK'
  OBVIOUS
<1>1. ASSUME NEW r \in Runs, Begin(r) \/ Answered(r) PROVE TypeOK'
  BY <1>1, ToType DEF Begin, Answered, Idling, TypeOK
<1>2. ASSUME NEW r \in Runs, NEW old \in Runs, Resume(r, old) PROVE TypeOK'
  <2>1. [stage |-> "live", task |-> run[old].task, call |-> None, by |-> {}] \in Run
    BY RunFields DEF Run, Idling
  <2> QED
    BY <1>2, <2>1, SetRun DEF Resume, TypeOK
<1>3. ASSUME NEW r \in Runs, Consume(r) PROVE TypeOK'
  <2>1. ASSUME NEW c \in Calls, ConsumeMatching(r, c) PROVE TypeOK'
    <3> DEFINE ids == {i \in Answerable(r) : Fits(c, pending[i].call)}
    <3>1. ids \in SUBSET Open /\ ids \subseteq Ids
      BY AnswerableOpen DEF Open
    <3>2. Drop(ids) /\ UNCHANGED <<acted, cancelled>>
          /\ Becomes(r, "judging", c, ids)
      BY <2>1 DEF ConsumeMatching
    <3>3. pending' \in [Ids -> Question]
      BY <3>1, <3>2, DropType
    <3>4. run' \in [Runs -> Run]
      BY <3>1, <3>2, BecomesType
    <3> QED
      BY <3>2, <3>3, <3>4 DEF TypeOK
  <2>2. ASSUME NEW i \in Ids, Confirm(r, i) PROVE TypeOK'
    <3>1. {i} \in SUBSET Open /\ {i} \in SUBSET Ids /\ pending[i].call \in Calls
      BY <2>2, AnswerableOpen DEF Confirm, TypeOK, Question, Unasked, Open
    <3>2. pending' \in [Ids -> Question]
      BY <2>2, <3>1, DropType DEF Confirm
    <3>3. run' \in [Runs -> Run]
      BY <2>2, <3>1, BecomesType DEF Confirm
    <3> QED
      BY <2>2, <3>2, <3>3 DEF Confirm, TypeOK
  <2>3. ASSUME NEW i \in Ids, Cancel(r, i) PROVE TypeOK'
    <3>1. {i} \in SUBSET Open
      BY <2>3, AnswerableOpen DEF Cancel
    <3>2. pending' \in [Ids -> Question]
      BY <2>3, <3>1, DropType DEF Cancel
    <3> QED
      BY <2>3, <3>2 DEF Cancel, TypeOK
  <2>4. ASSUME NEW holds \in BOOLEAN, Judge(r, holds) PROVE TypeOK'
    <3>1. run' \in [Runs -> Run]
      BY <2>4, ToType DEF Judge, Idling
    <3>2. [run |-> r, call |-> run[r].call, by |-> run[r].by] \in Action
      BY <2>4, RunFields DEF Judge, Action
    <3>3. acted' \subseteq Action
      BY <2>4, <3>2 DEF Judge, TypeOK
    <3> QED
      BY <2>4, <3>1, <3>3 DEF Judge, TypeOK
  <2> QED
    BY <1>3, <2>1, <2>2, <2>3, <2>4 DEF Consume
<1>4. ASSUME NEW r \in Runs, NEW c \in Calls, Unanswered(r, c) PROVE TypeOK'
  BY <1>4, BecomesType DEF Unanswered, TypeOK
<1>5. ASSUME NEW r \in Runs, NEW i \in Ids, AskAgain(r, i) \/ Ask(r, i) PROVE TypeOK'
  <2>1. run' \in [Runs -> Run]
    BY <1>5, ToType DEF AskAgain, Ask, Idling
  <2>2. run[r].call \in Calls /\ run[r].task \in Runs /\ Begun \subseteq Runs
    BY <1>5, RunFields DEF AskAgain, Ask, Begun
  <2>3. pending'[i] \in Question /\ \A k \in Ids \ {i} : pending'[k] = pending[k]
    <3>1. CASE AskAgain(r, i)
      <4>1. pending[i] \in Question \ {Unasked}
        BY <3>1 DEF AskAgain, Twins, Open, Unasked, TypeOK
      <4> QED
        BY <3>1, <2>2, <4>1 DEF AskAgain, Question, TypeOK
    <3>2. CASE Ask(r, i)
      BY <3>2, <2>2, ApprovalAssumption DEF Ask, Question, TypeOK
    <3> QED
      BY <1>5, <3>1, <3>2
  <2>4. pending' = [k \in Ids |-> pending'[k]]
    BY <1>5 DEF AskAgain, Ask, TypeOK
  <2> QED
    BY <1>5, <2>1, <2>3, <2>4 DEF AskAgain, Ask, TypeOK
<1>6. ASSUME NEW r \in Runs, End(r) PROVE TypeOK'
  <2>1. run' \in [Runs -> Run]
    BY <1>6, ToType DEF End, Idling
  <2>2. pending' \in [Ids -> Question]
    BY <1>6, DropType DEF End, TypeOK
  <2> QED
    BY <1>6, <2>1, <2>2 DEF End, TypeOK
<1>7. ASSUME NEW i \in Ids, Expire(i) PROVE TypeOK'
  BY <1>7, DropType DEF Expire, TypeOK
<1>8. CASE UNCHANGED vars
  BY <1>8 DEF vars, TypeOK
<1> QED
  BY <1>1, <1>2, <1>3, <1>4, <1>5, <1>6, <1>7, <1>8 DEF Next, Request

\* Types: a run that judges has a call and the questions it used, any other none;
\* an open question has a call, a chat and the task that asked it.
THEOREM TypeCorrect == Spec => []TypeOK
<1>1. Init => TypeOK
  BY DEF Init, TypeOK, Run, Idling, Question
<1> QED
  BY <1>1, TypeStep, PTL DEF Spec
-----------------------------------------------------------------------------
(***************************************************************************)
(* What a question lets through.  The invariant adds to the properties:    *)
(* what holds of an action held when its run took the question up; what    *)
(* is used or cancelled is past, and past questions do not change; and a   *)
(* run that asked something is about to end, so that it takes nothing up.  *)
(***************************************************************************)
\* Question i is rightly in use by run r with call c.
Rightly(r, c, i) ==
  /\ pending[i].state = "past"
  /\ pending[i].scope = ScopeOf[r]
  /\ Fits(c, pending[i].call)
  /\ r \notin pending[i].askers
  /\ i \notin cancelled

JudgedRightly == \A r \in Runs : \A i \in run[r].by : Rightly(r, run[r].call, i)

ActedRightly == \A a \in acted : \A i \in a.by : Rightly(a.run, a.call, i)

CancelledArePast == \A i \in cancelled : pending[i].state = "past"

AskersEnd == \A i \in Ids : \A r \in pending[i].askers : run[r].stage \in {"ending", "over"}

UseInv == OneShot /\ JudgedRightly /\ ActedRightly /\ CancelledArePast /\ AskersEnd

\* A step that leaves what is past as it is leaves what is used, and by whom.
LEMMA UsedStay ==
  ASSUME TypeOK, UseInv,
         \A i \in Ids : pending[i].state = "past" => pending'[i] = pending[i]
  PROVE  /\ \A r \in Runs : \A i \in run[r].by : i \in Ids /\ pending'[i] = pending[i]
         /\ \A a \in acted : \A i \in a.by : i \in Ids /\ pending'[i] = pending[i]
         /\ \A i \in cancelled : pending'[i].state = "past"
<1>1. ASSUME NEW r \in Runs, NEW i \in run[r].by PROVE i \in Ids /\ pending'[i] = pending[i]
  <2>1. i \in Ids
    BY <1>1, RunFields
  <2>2. Rightly(r, run[r].call, i)
    BY <1>1 DEF UseInv, JudgedRightly
  <2> QED
    BY <2>1, <2>2 DEF Rightly
<1>2. ASSUME NEW a \in acted, NEW i \in a.by PROVE i \in Ids /\ pending'[i] = pending[i]
  <2>1. i \in Ids
    BY <1>2 DEF TypeOK, Action
  <2>2. Rightly(a.run, a.call, i)
    BY <1>2 DEF UseInv, ActedRightly
  <2> QED
    BY <2>1, <2>2 DEF Rightly
<1>3. \A i \in cancelled : pending'[i].state = "past"
  BY DEF UseInv, CancelledArePast, TypeOK
<1> QED
  BY <1>1, <1>2, <1>3

\* A step that puts no question in use and asks none: some runs go on, with the
\* questions they had or none, and some questions are dropped.
LEMMA QuietStep ==
  ASSUME TypeOK, UseInv, acted' = acted, cancelled' = cancelled,
         \A i \in Ids : \/ pending'[i] = pending[i]
                        \/ /\ pending[i].state = "open" /\ pending'[i].state = "past"
                           /\ pending'[i].askers = pending[i].askers,
         \A r \in Runs : /\ \/ run'[r].by = {}
                            \/ run'[r].by = run[r].by /\ run'[r].call = run[r].call
                         /\ run[r].stage \in {"ending", "over"} => run'[r].stage \in {"ending", "over"}
  PROVE  UseInv'
<1>1. \A i \in Ids : pending[i].state = "past" => pending'[i] = pending[i]
  OBVIOUS
<1>2. /\ \A r \in Runs : \A i \in run[r].by : i \in Ids /\ pending'[i] = pending[i]
      /\ \A a \in acted : \A i \in a.by : i \in Ids /\ pending'[i] = pending[i]
      /\ \A i \in cancelled : pending'[i].state = "past"
  BY <1>1, UsedStay
<1>3. JudgedRightly'
  <2> SUFFICES ASSUME NEW r \in Runs, NEW i \in run'[r].by PROVE Rightly(r, run[r].call, i)'
    BY DEF JudgedRightly
  <2>1. i \in run[r].by /\ run'[r].call = run[r].call
    OBVIOUS
  <2>2. Rightly(r, run[r].call, i)
    BY <2>1 DEF UseInv, JudgedRightly
  <2> QED
    BY <1>2, <2>1, <2>2 DEF Rightly
<1>4. ActedRightly'
  <2> SUFFICES ASSUME NEW a \in acted, NEW i \in a.by PROVE Rightly(a.run, a.call, i)'
    BY DEF ActedRightly
  <2>1. Rightly(a.run, a.call, i)
    BY DEF UseInv, ActedRightly
  <2> QED
    BY <1>2, <2>1 DEF Rightly
<1>5. OneShot'
  <2>1. ASSUME NEW r \in Runs, NEW i \in run'[r].by
        PROVE  /\ pending'[i].state = "past"
               /\ \A q \in Runs \ {r} : i \notin run'[q].by
               /\ \A a \in acted' : i \notin a.by
    <3>1. i \in run[r].by
      BY <2>1
    <3>2. /\ pending[i].state = "past"
          /\ \A q \in Runs \ {r} : i \notin run[q].by
          /\ \A a \in acted : i \notin a.by
      BY <3>1 DEF UseInv, OneShot
    <3>3. i \in Ids
      BY <3>1, RunFields
    <3> QED
      BY <1>1, <3>2, <3>3
  <2> QED
    BY <2>1 DEF UseInv, OneShot
<1>6. AskersEnd'
  <2> SUFFICES ASSUME NEW i \in Ids, NEW r \in pending'[i].askers
               PROVE  run'[r].stage \in {"ending", "over"}
    BY DEF AskersEnd
  <2>1. r \in pending[i].askers
    OBVIOUS
  <2>2. pending[i].askers \subseteq Runs
    BY DEF TypeOK, Question, Unasked
  <2> QED
    BY <2>1, <2>2 DEF UseInv, AskersEnd
<1> QED
  BY <1>2, <1>3, <1>4, <1>5, <1>6 DEF UseInv, CancelledArePast

\* A run takes open questions of other tasks up.
LEMMA TakeStep ==
  ASSUME TypeOK, UseInv, acted' = acted, cancelled' = cancelled,
         NEW r \in Runs, NEW c \in Calls, NEW ids \in SUBSET Answerable(r),
         \A i \in ids : Fits(c, pending[i].call),
         run[r].stage = "live", Drop(ids), Becomes(r, "judging", c, ids)
  PROVE  UseInv'
<1>1. \A i \in Ids : pending[i].state = "past" => pending'[i] = pending[i]
  BY DEF Drop, Answerable, TypeOK
<1>2. /\ \A q \in Runs : \A i \in run[q].by : i \in Ids /\ pending'[i] = pending[i]
      /\ \A a \in acted : \A i \in a.by : i \in Ids /\ pending'[i] = pending[i]
      /\ \A i \in cancelled : pending'[i].state = "past"
  BY <1>1, UsedStay
<1>3. /\ run'[r] = [stage |-> "judging", task |-> run[r].task, call |-> c, by |-> ids]
      /\ \A q \in Runs \ {r} : run'[q] = run[q]
  BY DEF Becomes, TypeOK
<1>4. ASSUME NEW i \in ids
      PROVE  /\ i \in Ids /\ pending[i].state = "open"
             /\ pending'[i].state = "past" /\ pending'[i].scope = ScopeOf[r]
             /\ pending'[i].call = pending[i].call /\ pending'[i].askers = pending[i].askers
             /\ r \notin pending[i].askers
             /\ i \notin cancelled
             /\ \A q \in Runs : i \notin run[q].by
             /\ \A a \in acted : i \notin a.by
  <2>1. i \in Ids /\ pending[i].state = "open" /\ pending[i].scope = ScopeOf[r]
    BY <1>4 DEF Answerable
  <2>2. pending'[i] = [pending[i] EXCEPT !.state = "past"]
    BY <1>4, <2>1 DEF Drop
  <2>3. pending[i] \in Question
    BY <2>1 DEF TypeOK
  <2>4. /\ pending'[i].state = "past" /\ pending'[i].scope = pending[i].scope
        /\ pending'[i].call = pending[i].call /\ pending'[i].askers = pending[i].askers
    BY <2>2, <2>3 DEF Question, Unasked
  <2>5. r \notin pending[i].askers
    BY <2>1 DEF UseInv, AskersEnd
  <2>6. i \notin cancelled
    BY <2>1 DEF UseInv, CancelledArePast
  <2>7. /\ \A q \in Runs : i \notin run[q].by
        /\ \A a \in acted : i \notin a.by
    BY <2>1 DEF UseInv, OneShot, ActedRightly, Rightly
  <2> QED
    BY <2>1, <2>4, <2>5, <2>6, <2>7
<1>5. JudgedRightly'
  <2> SUFFICES ASSUME NEW q \in Runs, NEW i \in run'[q].by PROVE Rightly(q, run[q].call, i)'
    BY DEF JudgedRightly
  <2>1. CASE q = r
    BY <1>3, <1>4, <2>1 DEF Rightly
  <2>2. CASE q # r
    <3>1. Rightly(q, run[q].call, i)
      BY <1>3, <2>2 DEF UseInv, JudgedRightly
    <3> QED
      BY <1>2, <1>3, <2>2, <3>1 DEF Rightly
  <2> QED
    BY <2>1, <2>2
<1>6. ActedRightly'
  <2> SUFFICES ASSUME NEW a \in acted, NEW i \in a.by PROVE Rightly(a.run, a.call, i)'
    BY DEF ActedRightly
  <2>1. Rightly(a.run, a.call, i)
    BY DEF UseInv, ActedRightly
  <2> QED
    BY <1>2, <2>1 DEF Rightly
<1>7. OneShot'
  <2>1. ASSUME NEW q \in Runs, NEW i \in run'[q].by
        PROVE  /\ pending'[i].state = "past"
               /\ \A p \in Runs \ {q} : i \notin run'[p].by
               /\ \A a \in acted' : i \notin a.by
    <3>1. CASE q = r
      BY <1>3, <1>4, <2>1, <3>1
    <3>2. CASE q # r
      <4>1. i \in run[q].by /\ i \notin ids
        BY <1>3, <1>4, <2>1, <3>2
      <4> QED
        BY <1>2, <1>3, <3>2, <4>1 DEF UseInv, OneShot
    <3> QED
      BY <3>1, <3>2
  <2> QED
    BY <2>1 DEF UseInv, OneShot
<1>8. AskersEnd'
  <2> SUFFICES ASSUME NEW i \in Ids, NEW q \in pending'[i].askers
               PROVE  run'[q].stage \in {"ending", "over"}
    BY DEF AskersEnd
  <2>1. pending'[i].askers = pending[i].askers
    BY <1>4 DEF Drop
  <2>2. q \in Runs /\ run[q].stage \in {"ending", "over"}
    BY <2>1 DEF UseInv, AskersEnd, TypeOK, Question, Unasked
  <2> QED
    BY <1>3, <2>2
<1> QED
  BY <1>2, <1>5, <1>6, <1>7, <1>8 DEF UseInv, CancelledArePast

\* A run acts on the questions it took up, or is refused under taint.
LEMMA JudgeStep ==
  ASSUME TypeOK, UseInv, NEW r \in Runs, NEW holds \in BOOLEAN, Judge(r, holds)
  PROVE  UseInv'
<1>1. /\ pending' = pending /\ cancelled' = cancelled
      /\ run[r].stage = "judging" /\ run'[r].stage = "live" /\ run'[r].by = {}
      /\ \A q \in Runs \ {r} : run'[q] = run[q]
  BY DEF Judge, To, Becomes, TypeOK
<1> DEFINE new == [run |-> r, call |-> run[r].call, by |-> run[r].by]
<1>2. acted' = acted \/ acted' = acted \cup {new}
  BY DEF Judge
<1>3. JudgedRightly'
  BY <1>1 DEF UseInv, JudgedRightly, Rightly
<1>4. ActedRightly'
  <2> SUFFICES ASSUME NEW a \in acted', NEW i \in a.by PROVE Rightly(a.run, a.call, i)
    BY <1>1 DEF ActedRightly, Rightly
  <2>1. CASE a \in acted
    BY <2>1 DEF UseInv, ActedRightly
  <2>2. CASE a = new
    BY <2>2 DEF UseInv, JudgedRightly
  <2> QED
    BY <1>2, <2>1, <2>2
<1>5. OneShot'
  <2>1. ASSUME NEW q \in Runs, NEW i \in run'[q].by
        PROVE  /\ pending'[i].state = "past"
               /\ \A p \in Runs \ {q} : i \notin run'[p].by
               /\ \A a \in acted' : i \notin a.by
    <3>1. q # r /\ i \in run[q].by
      BY <1>1, <2>1
    <3>2. /\ pending[i].state = "past"
          /\ \A p \in Runs \ {q} : i \notin run[p].by
          /\ \A a \in acted : i \notin a.by
      BY <3>1 DEF UseInv, OneShot
    <3> QED
      BY <1>1, <1>2, <3>1, <3>2
  <2>2. ASSUME NEW a \in acted', NEW b \in acted', a # b PROVE a.by \cap b.by = {}
    <3>1. \A x \in acted : x.by \cap new.by = {}
      BY DEF UseInv, OneShot
    <3>2. CASE a \in acted /\ b \in acted
      BY <2>2, <3>2 DEF UseInv, OneShot
    <3>3. CASE a = new \/ b = new
      BY <1>2, <2>2, <3>1, <3>3
    <3> QED
      BY <1>2, <3>2, <3>3
  <2> QED
    BY <2>1, <2>2 DEF OneShot
<1>6. AskersEnd'
  <2> SUFFICES ASSUME NEW i \in Ids, NEW q \in pending[i].askers
               PROVE  run'[q].stage \in {"ending", "over"}
    BY <1>1 DEF AskersEnd
  <2>1. q \in Runs /\ run[q].stage \in {"ending", "over"}
    BY DEF UseInv, AskersEnd, TypeOK, Question, Unasked
  <2> QED
    BY <1>1, <2>1
<1> QED
  BY <1>1, <1>3, <1>4, <1>5, <1>6 DEF UseInv, CancelledArePast

\* A cancelled question was open: nobody had used it.
LEMMA CancelStep ==
  ASSUME TypeOK, UseInv, NEW r \in Runs, NEW i \in Ids, Cancel(r, i)
  PROVE  UseInv'
<1>1. /\ run' = run /\ acted' = acted /\ cancelled' = cancelled \cup {i}
      /\ pending[i].state = "open" /\ Drop({i})
  BY DEF Cancel, Answerable
<1>2. \A k \in Ids : pending[k].state = "past" => pending'[k] = pending[k]
  BY <1>1 DEF Drop
<1>3. /\ \A q \in Runs : \A k \in run[q].by : k \in Ids /\ pending'[k] = pending[k]
      /\ \A a \in acted : \A k \in a.by : k \in Ids /\ pending'[k] = pending[k]
      /\ \A k \in cancelled : pending'[k].state = "past"
  BY <1>2, UsedStay
<1>4. /\ pending'[i].state = "past"
      /\ \A k \in Ids : pending'[k].askers = pending[k].askers
  BY <1>1 DEF Drop, TypeOK, Question, Unasked
<1>5. JudgedRightly'
  <2> SUFFICES ASSUME NEW q \in Runs, NEW k \in run[q].by PROVE Rightly(q, run[q].call, k)'
    BY <1>1 DEF JudgedRightly
  <2>1. Rightly(q, run[q].call, k)
    BY DEF UseInv, JudgedRightly
  <2> QED
    BY <1>1, <1>3, <2>1 DEF Rightly
<1>6. ActedRightly'
  <2> SUFFICES ASSUME NEW a \in acted, NEW k \in a.by PROVE Rightly(a.run, a.call, k)'
    BY <1>1 DEF ActedRightly
  <2>1. Rightly(a.run, a.call, k)
    BY DEF UseInv, ActedRightly
  <2> QED
    BY <1>1, <1>3, <2>1 DEF Rightly
<1>7. OneShot'
  BY <1>1, <1>3 DEF UseInv, OneShot
<1>8. CancelledArePast'
  BY <1>1, <1>3, <1>4 DEF CancelledArePast
<1>9. AskersEnd'
  BY <1>1, <1>4 DEF UseInv, AskersEnd
<1> QED
  BY <1>5, <1>6, <1>7, <1>8, <1>9 DEF UseInv

\* A run asks, or asks again, and ends with that.
LEMMA AskStep ==
  ASSUME TypeOK, UseInv, NEW r \in Runs, NEW i \in Ids, AskAgain(r, i) \/ Ask(r, i)
  PROVE  UseInv'
<1>1. /\ acted' = acted /\ cancelled' = cancelled
      /\ run[r].stage = "asking" /\ run'[r].stage = "ending" /\ run'[r].by = {}
      /\ \A q \in Runs \ {r} : run'[q] = run[q]
  BY DEF AskAgain, Ask, To, Becomes, TypeOK
<1>2. pending[i].state # "past" /\ \A k \in Ids \ {i} : pending'[k] = pending[k]
  BY DEF AskAgain, Ask, Twins, Open, Unasked, TypeOK
<1>3. pending'[i].askers \subseteq pending[i].askers \cup {r}
  <2>1. CASE AskAgain(r, i)
    <3>1. pending[i] \in Question \ {Unasked}
      BY <2>1 DEF AskAgain, Twins, Open, Unasked, TypeOK
    <3> QED
      BY <2>1, <3>1 DEF AskAgain, TypeOK, Question
  <2>2. CASE Ask(r, i)
    BY <2>2 DEF Ask, TypeOK
  <2> QED
    BY <2>1, <2>2
<1>4. /\ \A q \in Runs : \A k \in run[q].by : k \in Ids /\ pending'[k] = pending[k]
      /\ \A a \in acted : \A k \in a.by : k \in Ids /\ pending'[k] = pending[k]
      /\ \A k \in cancelled : pending'[k].state = "past"
  BY <1>2, UsedStay
<1>5. JudgedRightly'
  <2> SUFFICES ASSUME NEW q \in Runs, NEW k \in run'[q].by PROVE Rightly(q, run[q].call, k)'
    BY DEF JudgedRightly
  <2>1. run'[q] = run[q]
    BY <1>1
  <2>2. Rightly(q, run[q].call, k)
    BY <2>1 DEF UseInv, JudgedRightly
  <2> QED
    BY <1>1, <1>4, <2>1, <2>2 DEF Rightly
<1>6. ActedRightly'
  <2> SUFFICES ASSUME NEW a \in acted, NEW k \in a.by PROVE Rightly(a.run, a.call, k)'
    BY <1>1 DEF ActedRightly
  <2>1. Rightly(a.run, a.call, k)
    BY DEF UseInv, ActedRightly
  <2> QED
    BY <1>1, <1>4, <2>1 DEF Rightly
<1>7. OneShot'
  <2>1. ASSUME NEW q \in Runs, NEW k \in run'[q].by
        PROVE  /\ pending'[k].state = "past"
               /\ \A p \in Runs \ {q} : k \notin run'[p].by
               /\ \A a \in acted' : k \notin a.by
    <3>1. k \in run[q].by
      BY <1>1, <2>1
    <3>2. /\ pending[k].state = "past"
          /\ \A p \in Runs \ {q} : k \notin run[p].by
          /\ \A a \in acted : k \notin a.by
      BY <3>1 DEF UseInv, OneShot
    <3> QED
      BY <1>1, <1>4, <3>1, <3>2
  <2> QED
    BY <1>1, <2>1 DEF UseInv, OneShot
<1>8. AskersEnd'
  <2> SUFFICES ASSUME NEW k \in Ids, NEW q \in pending'[k].askers
               PROVE  run'[q].stage \in {"ending", "over"}
    BY DEF AskersEnd
  <2>1. q = r \/ q \in pending[k].askers
    BY <1>2, <1>3
  <2>2. CASE q = r
    BY <1>1, <2>2
  <2>3. CASE q # r
    <3>1. q \in Runs /\ run[q].stage \in {"ending", "over"}
      BY <2>1, <2>3 DEF UseInv, AskersEnd, TypeOK, Question, Unasked
    <3> QED
      BY <1>1, <2>3, <3>1
  <2> QED
    BY <2>2, <2>3
<1> QED
  BY <1>1, <1>4, <1>5, <1>6, <1>7, <1>8 DEF UseInv, CancelledArePast

LEMMA UseStep == TypeOK /\ UseInv /\ [Next]_vars => UseInv'
<1> SUFFICES ASSUME TypeOK, UseInv, [Next]_vars PROVE UseInv'
  OBVIOUS
<1>1. ASSUME NEW r \in Runs, Begin(r) \/ Answered(r) PROVE UseInv'
  BY <1>1, QuietStep DEF Begin, Answered, To, Becomes, TypeOK
<1>2. ASSUME NEW r \in Runs, NEW old \in Runs, Resume(r, old) PROVE UseInv'
  BY <1>2, QuietStep DEF Resume, TypeOK
<1>3. ASSUME NEW r \in Runs, Consume(r) PROVE UseInv'
  <2>1. ASSUME NEW c \in Calls, ConsumeMatching(r, c) PROVE UseInv'
    <3> DEFINE ids == {i \in Answerable(r) : Fits(c, pending[i].call)}
    <3>1. /\ acted' = acted /\ cancelled' = cancelled /\ ids \in SUBSET Answerable(r)
          /\ \A i \in ids : Fits(c, pending[i].call)
          /\ run[r].stage = "live" /\ Drop(ids) /\ Becomes(r, "judging", c, ids)
      BY <2>1 DEF ConsumeMatching
    <3> QED
      BY <3>1, TakeStep
  <2>2. ASSUME NEW i \in Ids, Confirm(r, i) PROVE UseInv'
    <3>1. /\ acted' = acted /\ cancelled' = cancelled /\ {i} \in SUBSET Answerable(r)
          /\ pending[i].call \in Calls /\ Fits(pending[i].call, pending[i].call)
          /\ run[r].stage = "live" /\ Drop({i}) /\ Becomes(r, "judging", pending[i].call, {i})
      BY <2>2 DEF Confirm, Answerable, Fits, TypeOK, Question, Unasked
    <3> QED
      BY <3>1, TakeStep
  <2>3. ASSUME NEW i \in Ids, Cancel(r, i) PROVE UseInv'
    BY <2>3, CancelStep
  <2>4. ASSUME NEW holds \in BOOLEAN, Judge(r, holds) PROVE UseInv'
    BY <2>4, JudgeStep
  <2> QED
    BY <1>3, <2>1, <2>2, <2>3, <2>4 DEF Consume
<1>4. ASSUME NEW r \in Runs, NEW c \in Calls, Unanswered(r, c) PROVE UseInv'
  BY <1>4, QuietStep DEF Unanswered, Becomes, TypeOK
<1>5. ASSUME NEW r \in Runs, NEW i \in Ids, AskAgain(r, i) \/ Ask(r, i) PROVE UseInv'
  BY <1>5, AskStep
<1>6. ASSUME NEW r \in Runs, End(r) PROVE UseInv'
  <2>1. \A i \in Ids : \/ pending'[i] = pending[i]
                       \/ /\ pending[i].state = "open" /\ pending'[i].state = "past"
                          /\ pending'[i].askers = pending[i].askers
    BY <1>6 DEF End, Drop, Open, TypeOK, Question, Unasked
  <2>2. /\ run'[r].by = {} /\ run'[r].stage = "over" /\ \A q \in Runs \ {r} : run'[q] = run[q]
        /\ acted' = acted /\ cancelled' = cancelled
    BY <1>6 DEF End, To, Becomes, TypeOK
  <2> QED
    BY <2>1, <2>2, QuietStep
<1>7. ASSUME NEW i \in Ids, Expire(i) PROVE UseInv'
  <2>1. \A k \in Ids : \/ pending'[k] = pending[k]
                       \/ /\ pending[k].state = "open" /\ pending'[k].state = "past"
                          /\ pending'[k].askers = pending[k].askers
    BY <1>7 DEF Expire, Drop, Open, TypeOK, Question, Unasked
  <2> QED
    BY <1>7, <2>1, QuietStep DEF Expire
<1>8. CASE UNCHANGED vars
  BY <1>8, QuietStep DEF vars
<1> QED
  BY <1>1, <1>2, <1>3, <1>4, <1>5, <1>6, <1>7, <1>8 DEF Next, Request

LEMMA UseHolds == Spec => []UseInv
<1>1. Init => UseInv
  BY DEF Init, UseInv, OneShot, JudgedRightly, ActedRightly, CancelledArePast, AskersEnd, Unasked
<1> QED
  BY <1>1, UseStep, TypeCorrect, PTL DEF Spec

\* One answer lets one action through.
THEOREM OneUse == Spec => []OneShot
<1>1. UseInv => OneShot
  BY DEF UseInv
<1> QED
  BY <1>1, UseHolds, PTL

\* It lets through only the action it is an answer to, in the chat of the question.
THEOREM NoOtherQuestion == Spec => []AnswersItsQuestion
<1>1. UseInv => AnswersItsQuestion
  BY DEF UseInv, ActedRightly, Rightly, AnswersItsQuestion
<1> QED
  BY <1>1, UseHolds, PTL

\* The run that asked does not use it.
THEOREM NobodyAnswersItself == Spec => []NeverItsOwnAnswer
<1>1. UseInv => NeverItsOwnAnswer
  BY DEF UseInv, ActedRightly, Rightly, NeverItsOwnAnswer
<1> QED
  BY <1>1, UseHolds, PTL

\* A cancelled question lets nothing through.
THEOREM CancellationIsFinal == Spec => []CancelIsFinal
<1>1. UseInv => CancelIsFinal
  BY DEF UseInv, ActedRightly, Rightly, CancelIsFinal
<1> QED
  BY <1>1, UseHolds, PTL
-----------------------------------------------------------------------------
(***************************************************************************)
(* How long a question stays open.                                         *)
(***************************************************************************)
LEMMA TurnStep == TypeOK /\ OneTurnOnly /\ [Next]_vars => OneTurnOnly'
<1> SUFFICES ASSUME TypeOK, OneTurnOnly, [Next]_vars,
                    NEW i \in Ids, pending'[i].state = "open",
                    NEW r \in Runs \ Helpers, run'[r].stage = "over",
                    ScopeOf[r] = pending'[i].scope
             PROVE  r \in pending'[i].heard
  BY DEF OneTurnOnly, Open
<1>1. ASSUME pending'[i] = pending[i], run[r].stage = "over" PROVE r \in pending'[i].heard
  BY <1>1 DEF OneTurnOnly, Open
<1>2. ASSUME NEW ids, Drop(ids) PROVE pending'[i] = pending[i]
  BY <1>2 DEF Drop, TypeOK, Question, Unasked
<1>0. ASSUME NEW q \in Runs, NEW stage, stage # "over", NEW c, NEW ids, Becomes(q, stage, c, ids)
      PROVE  run[r].stage = "over"
  BY <1>0 DEF Becomes, TypeOK
<1>3. ASSUME NEW q \in Runs, Begin(q) \/ Answered(q) PROVE r \in pending'[i].heard
  BY <1>1, <1>3 DEF Begin, Answered, To, Becomes, TypeOK
<1>4. ASSUME NEW q \in Runs, NEW old \in Runs, Resume(q, old) PROVE r \in pending'[i].heard
  BY <1>1, <1>4 DEF Resume, TypeOK
<1>5. ASSUME NEW q \in Runs, Consume(q) PROVE r \in pending'[i].heard
  <2>1. pending'[i] = pending[i]
    BY <1>2, <1>5 DEF Consume, ConsumeMatching, Confirm, Cancel, Judge
  <2>2. run[r].stage = "over"
    <3>1. CASE \E c \in Calls : ConsumeMatching(q, c)
      BY <1>0, <3>1 DEF ConsumeMatching
    <3>2. CASE \E k \in Ids : Confirm(q, k)
      BY <1>0, <3>2 DEF Confirm
    <3>3. CASE \E k \in Ids : Cancel(q, k)
      BY <3>3 DEF Cancel
    <3>4. CASE \E holds \in BOOLEAN : Judge(q, holds)
      BY <1>0, <3>4 DEF Judge, To
    <3> QED
      BY <1>5, <3>1, <3>2, <3>3, <3>4 DEF Consume
  <2> QED
    BY <1>1, <2>1, <2>2
<1>6. ASSUME NEW q \in Runs, NEW c \in Calls, Unanswered(q, c) PROVE r \in pending'[i].heard
  BY <1>1, <1>6 DEF Unanswered, Becomes, TypeOK
<1>7. ASSUME NEW q \in Runs, NEW k \in Ids, AskAgain(q, k) \/ Ask(q, k)
      PROVE  r \in pending'[i].heard
  <2>1. run[r].stage = "over" /\ r \in Begun
    <3>1. run[r].stage = "over"
      BY <1>0, <1>7 DEF AskAgain, Ask, To
    <3> QED
      BY <3>1 DEF Begun
  <2>2. CASE k = i
    <3>1. pending[i] \in Question \ {Unasked} \/ Ask(q, i)
      BY <1>7, <2>2 DEF AskAgain, Twins, Open, Unasked, TypeOK
    <3>2. pending'[i].heard = Begun
      BY <1>7, <2>2, <3>1 DEF AskAgain, Ask, TypeOK, Question
    <3> QED
      BY <2>1, <3>2
  <2>3. CASE k # i
    BY <1>1, <1>7, <2>1, <2>3 DEF AskAgain, Ask, TypeOK
  <2> QED
    BY <2>2, <2>3
<1>8. ASSUME NEW q \in Runs, End(q) PROVE r \in pending'[i].heard
  <2>1. pending'[i] = pending[i]
    BY <1>2, <1>8 DEF End
  <2>2. CASE q = r
    BY <1>8, <2>1, <2>2 DEF End, Drop, Open, TypeOK, Question, Unasked
  <2>3. CASE q # r
    BY <1>1, <1>8, <2>1, <2>3 DEF End, To, Becomes, TypeOK
  <2> QED
    BY <2>2, <2>3
<1>9. ASSUME NEW k \in Ids, Expire(k) PROVE r \in pending'[i].heard
  BY <1>1, <1>2, <1>9 DEF Expire
<1>10. CASE UNCHANGED vars
  BY <1>1, <1>10 DEF vars
<1> QED
  BY <1>3, <1>4, <1>5, <1>6, <1>7, <1>8, <1>9, <1>10 DEF Next, Request

\* A question outlives no turn of its chat that began after it was asked.
THEOREM QuestionsEnd == Spec => []OneTurnOnly
<1>1. Init => OneTurnOnly
  BY DEF Init, OneTurnOnly, Open, Unasked
<1> QED
  BY <1>1, TurnStep, TypeCorrect, PTL DEF Spec
-----------------------------------------------------------------------------
(***************************************************************************)
(* What Confirmation sees of a step.                                       *)
(***************************************************************************)
LEMMA QuestionFields ==
  ASSUME TypeOK, NEW i \in Ids
  PROVE  /\ pending[i].state = "unused" => Asked[i] = Rule!Unasked /\ pending[i] = Unasked
         /\ pending[i].state # "unused" => pending[i].call \in Calls
<1>1. pending[i] \in Question
  BY DEF TypeOK
<1>2. pending[i].state = "unused" => pending[i] = Unasked
  BY <1>1 DEF Question
<1>3. pending[i] = Unasked => Asked[i] = Rule!Unasked
  BY DEF Unasked, Asked, Rule!Unasked
<1>4. pending[i].state # "unused" => pending[i].call \in Calls
  BY <1>1 DEF Question, Unasked
<1> QED
  BY <1>2, <1>3, <1>4

\* Questions are closed.
LEMMA DropCloses ==
  ASSUME TypeOK, NEW ids \in SUBSET Open, Drop(ids)
  PROVE  /\ Rule!Closed(ids)
         /\ ids = {i \in Ids : Asked'[i] # Asked[i]}
         /\ ids \subseteq Rule!Open
<1>1. ids \subseteq Ids /\ \A i \in ids : pending[i].state = "open" /\ pending[i] \in Question
  BY DEF Open, TypeOK
<1>2. ASSUME NEW i \in ids
      PROVE  /\ Asked'[i] = [Asked[i] EXCEPT !.state = "past"]
             /\ Asked[i].state = "open" /\ Asked'[i].state = "past"
  <2>1. /\ pending'[i] = [pending[i] EXCEPT !.state = "past"]
        /\ pending[i].state = "open" /\ pending[i] \in Question
    BY <1>1, <1>2 DEF Drop
  <2>2. /\ pending'[i].state = "past" /\ pending'[i].call = pending[i].call
        /\ pending'[i].scope = pending[i].scope /\ pending'[i].askers = pending[i].askers
    BY <2>1 DEF Question, Unasked
  <2>3. i \in Ids /\ Asked[i].state = "open" /\ Asked'[i].state = "past"
    BY <1>1, <1>2, <2>1, <2>2 DEF Asked
  <2>4. Asked'[i] = [state |-> "past", call |-> pending[i].call, scope |-> pending[i].scope,
                     askers |-> pending[i].askers]
    BY <2>2, <2>3 DEF Asked
  <2>5. Asked[i] = [state |-> "open", call |-> pending[i].call, scope |-> pending[i].scope,
                    askers |-> pending[i].askers]
    BY <2>1, <2>3 DEF Asked
  <2> QED
    BY <2>3, <2>4, <2>5
<1>3. \A i \in Ids \ ids : Asked'[i] = Asked[i]
  BY DEF Drop, Asked
<1>4. Asked' = [i \in Ids |-> IF i \in ids THEN [Asked[i] EXCEPT !.state = "past"] ELSE Asked[i]]
  <2>1. Asked' = [i \in Ids |-> Asked'[i]]
    BY DEF Asked
  <2> QED
    BY <1>2, <1>3, <2>1
<1>5. ids = {i \in Ids : Asked'[i] # Asked[i]}
  BY <1>1, <1>2, <1>3
<1>6. ids \subseteq Rule!Open
  BY <1>1, <1>2 DEF Rule!Open
<1> QED
  BY <1>4, <1>5, <1>6 DEF Rule!Closed

\* A run that was idle and still is.
LEMMA StaysIdle ==
  ASSUME TypeOK, NEW r \in Runs, run[r].stage # "judging", run'[r].stage # "judging",
         \A q \in Runs \ {r} : run'[q] = run[q]
  PROVE  Using' = Using
BY DEF Using

LEMMA IsIdle ==
  ASSUME NEW r \in Runs, run[r].stage # "judging"
  PROVE  Using[r] = Rule!Idle
BY DEF Using, Rule!Idle

\* A run that judges is about to act.
LEMMA IsAbout ==
  ASSUME TypeOK, NEW r \in Runs, run[r].stage = "judging"
  PROVE  Using[r] = [call |-> run[r].call, by |-> run[r].by] /\ Using[r] # Rule!Idle
<1>1. run[r].call \in Calls
  BY RunFields
<1> QED
  BY <1>1, ApprovalAssumption DEF Using, Rule!Idle

LEMMA TakesUp ==
  ASSUME TypeOK, UseInv, NEW r \in Runs, NEW c \in Calls, NEW ids \in SUBSET Answerable(r),
         \A i \in ids : Fits(c, pending[i].call), ids # {}, UNCHANGED acted,
         run[r].stage = "live", Drop(ids), Becomes(r, "judging", c, ids)
  PROVE  Rule!Use(r)
<1>1. Using[r] = Rule!Idle
  BY IsIdle
<1>2. /\ run'[r] = [stage |-> "judging", task |-> run[r].task, call |-> c, by |-> ids]
      /\ \A q \in Runs \ {r} : run'[q] = run[q]
  BY DEF Becomes, TypeOK
<1>3. Using'[r] = [call |-> c, by |-> ids] /\ \A q \in Runs \ {r} : Using'[q] = Using[q]
  BY <1>2 DEF Using
<1>4. Using' = [Using EXCEPT ![r] = [call |-> c, by |-> ids]]
  BY <1>3 DEF Using
<1>5. Using'[r] # Rule!Idle
  BY <1>3, ApprovalAssumption DEF Rule!Idle
<1>6. ids \subseteq Open
  BY AnswerableOpen
<1>7. Rule!Closed(ids) /\ ids \subseteq Rule!Open
  BY <1>6, DropCloses
<1>8. ASSUME NEW i \in ids
      PROVE  /\ Asked[i].scope = ScopeOf[r] /\ r \notin Asked[i].askers
             /\ c = Asked[i].call \/ <<c, Asked[i].call>> \in Extends
  <2>1. i \in Ids /\ pending[i].scope = ScopeOf[r] /\ Fits(c, pending[i].call)
    BY <1>8 DEF Answerable
  <2>2. r \notin pending[i].askers
    BY <2>1 DEF UseInv, AskersEnd
  <2> QED
    BY <2>1, <2>2 DEF Asked, Fits
<1>9. Using'[r].call = c /\ Using'[r].by = ids
  BY <1>3
<1> QED
  BY <1>1, <1>4, <1>5, <1>7, <1>8, <1>9 DEF Rule!Use

LEMMA RuleStep == TypeOK /\ UseInv /\ [Next]_vars => [Rule!Next]_(Rule!vars)
<1> SUFFICES ASSUME TypeOK, UseInv, [Next]_vars, ~UNCHANGED <<Asked, Using, acted>>
             PROVE  Rule!Next
  BY DEF Rule!vars
<1>0. run \in [Runs -> Run] /\ pending \in [Ids -> Question]
  BY DEF TypeOK
\* Steps that only move an idle run.
<1>1. ASSUME NEW r \in Runs, NEW new, run[r].stage # "judging", new.stage # "judging",
             run' = [run EXCEPT ![r] = new], UNCHANGED <<pending, acted>>
      PROVE  FALSE
  <2>1. Using' = Using
    BY <1>0, <1>1, StaysIdle
  <2> QED
    BY <1>1, <2>1 DEF Asked
<1>2. ASSUME NEW r \in Runs, Begin(r) \/ Answered(r) PROVE FALSE
  BY <1>1, <1>2 DEF Begin, Answered, To, Becomes
<1>3. ASSUME NEW r \in Runs, NEW old \in Runs, Resume(r, old) PROVE FALSE
  BY <1>1, <1>3 DEF Resume
<1>4. ASSUME NEW r \in Runs, NEW c \in Calls, Unanswered(r, c) PROVE FALSE
  BY <1>1, <1>4 DEF Unanswered, Becomes
<1>5. ASSUME NEW r \in Runs, NEW c \in Calls, ConsumeMatching(r, c) PROVE Rule!Next
  <2>1. Rule!Use(r)
    BY <1>5, TakesUp DEF ConsumeMatching
  <2> QED
    BY <2>1 DEF Rule!Next
<1>6. ASSUME NEW r \in Runs, NEW i \in Ids, Confirm(r, i) PROVE Rule!Next
  <2>1. i \in Answerable(r) /\ pending[i].call \in Calls
    BY <1>6, QuestionFields DEF Confirm, Answerable
  <2>2. PICK c \in Calls : c = pending[i].call
    BY <2>1
  <2>3. Rule!Use(r)
    BY <1>6, <2>1, <2>2, TakesUp DEF Confirm, Fits
  <2> QED
    BY <2>3 DEF Rule!Next
\* Steps that only close questions, of an idle run or none.
<1>7. ASSUME NEW ids \in SUBSET Open, Drop(ids), UNCHANGED <<Using, acted>> PROVE Rule!Next
  BY <1>7, DropCloses DEF Rule!Next, Rule!Close
<1>8. ASSUME NEW r \in Runs, NEW i \in Ids, Cancel(r, i) PROVE Rule!Next
  BY <1>7, <1>8, AnswerableOpen DEF Cancel, Using
<1>9. ASSUME NEW r \in Runs, NEW holds \in BOOLEAN, Judge(r, holds) PROVE Rule!Next
  <2>1. /\ Using[r] = [call |-> run[r].call, by |-> run[r].by] /\ Using[r] # Rule!Idle
        /\ Asked' = Asked
    BY <1>9, IsAbout DEF Judge, Asked
  <2>2. Using' = [Using EXCEPT ![r] = Rule!Idle]
    BY <1>0, <1>9 DEF Judge, To, Becomes, Using, Rule!Idle
  <2>3. CASE holds
    <3>1. Rule!Act(r)
      BY <1>9, <2>1, <2>2, <2>3 DEF Judge, Rule!Act
    <3> QED
      BY <3>1 DEF Rule!Next
  <2>4. CASE ~holds
    <3>1. Rule!Refrain(r)
      BY <1>9, <2>1, <2>2, <2>4 DEF Judge, Rule!Refrain
    <3> QED
      BY <3>1 DEF Rule!Next
  <2> QED
    BY <2>3, <2>4
<1>10. ASSUME NEW r \in Runs, NEW i \in Ids, AskAgain(r, i) PROVE Rule!Next
  <2>1. Using' = Using /\ Using[r] = Rule!Idle
    BY <1>0, <1>10, StaysIdle, IsIdle DEF AskAgain, To, Becomes
  <2>2. pending[i].state = "open" /\ pending[i].scope = ScopeOf[r]
    BY <1>10 DEF AskAgain, Twins, Open
  <2>3. i \in Rule!Open /\ Asked[i].scope = ScopeOf[r]
    BY <2>2 DEF Rule!Open, Asked
  <2>4. Asked' = [Asked EXCEPT ![i].askers = @ \cup {r}]
    <3>1. \A k \in Ids \ {i} : Asked'[k] = Asked[k]
      BY <1>0, <1>10 DEF AskAgain, Asked
    <3>2. /\ pending'[i].askers = pending[i].askers \cup {r}
          /\ pending'[i].state = pending[i].state /\ pending'[i].call = pending[i].call
          /\ pending'[i].scope = pending[i].scope
      BY <1>0, <1>10, <2>2 DEF AskAgain, Question, Unasked
    <3>3. Asked'[i] = [Asked[i] EXCEPT !.askers = @ \cup {r}]
      BY <3>2 DEF Asked
    <3>4. Asked' = [k \in Ids |-> Asked'[k]] /\ Asked = [k \in Ids |-> Asked[k]]
      BY DEF Asked
    <3> QED
      BY <3>1, <3>3, <3>4
  <2>5. Rule!AskAgain(r, i)
    BY <1>10, <2>1, <2>3, <2>4 DEF AskAgain, Rule!AskAgain
  <2> QED
    BY <2>5 DEF Rule!Next
<1>11. ASSUME NEW r \in Runs, NEW i \in Ids, Ask(r, i) PROVE Rule!Next
  <2>1. Using' = Using /\ Using[r] = Rule!Idle
    BY <1>0, <1>11, StaysIdle, IsIdle DEF Ask, To, Becomes
  <2>2. PICK c \in Calls : c = run[r].call
    BY <1>11, RunFields DEF Ask
  <2>3. Asked[i] = Rule!Unasked
    BY <1>11, QuestionFields DEF Ask, Unasked
  <2>4. Asked' = [Asked EXCEPT ![i] =
          [state |-> "open", call |-> c, scope |-> ScopeOf[r], askers |-> {r}]]
    <3>1. \A k \in Ids \ {i} : Asked'[k] = Asked[k]
      BY <1>0, <1>11 DEF Ask, Asked
    <3>2. Asked'[i] = [state |-> "open", call |-> c, scope |-> ScopeOf[r], askers |-> {r}]
      BY <1>0, <1>11, <2>2 DEF Ask, Asked
    <3> QED
      BY <3>1, <3>2 DEF Asked
  <2>5. Rule!Ask(r, i, c)
    BY <1>11, <2>1, <2>3, <2>4 DEF Ask, Rule!Ask
  <2> QED
    BY <2>5 DEF Rule!Next
<1>12. ASSUME NEW r \in Runs, End(r) PROVE Rule!Next
  <2>1. Using' = Using
    BY <1>0, <1>12, StaysIdle DEF End, To, Becomes
  <2>2. CASE UNCHANGED pending
    BY <1>12, <2>1, <2>2 DEF End, Asked
  <2>3. CASE Drop({i \in Open : pending[i].scope = ScopeOf[r] /\ r \notin pending[i].heard})
    BY <1>7, <1>12, <2>1, <2>3 DEF End
  <2> QED
    BY <1>12, <2>2, <2>3 DEF End
<1>13. ASSUME NEW i \in Ids, Expire(i) PROVE Rule!Next
  BY <1>7, <1>13 DEF Expire, Using
<1>14. CASE UNCHANGED vars
  BY <1>14 DEF vars, Asked, Using
<1> QED
  BY <1>2, <1>3, <1>4, <1>5, <1>6, <1>8, <1>9, <1>10, <1>11, <1>12, <1>13, <1>14
     DEF Next, Consume, Request

\* The store and the runs implement Confirmation, for any number of runs, chats, calls
\* and questions: used once, by one run, within what was asked, or closed for good.
THEOREM Refinement == Spec => RefinesConfirmation
<1>1. Init => Rule!Init
  BY DEF Init, Rule!Init, Rule!Idle, Rule!Unasked, Asked, Using, Unasked
<1> QED
  BY <1>1, TypeCorrect, UseHolds, RuleStep, PTL DEF Spec, RefinesConfirmation, Rule!Spec
=============================================================================
