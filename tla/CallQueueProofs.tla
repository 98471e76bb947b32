--------------------------- MODULE CallQueueProofs ---------------------------
(***************************************************************************)
(* Theorems of CallQueue, for any calls, owners, limits and restarts: who  *)
(* holds the lock, where a queued call is, and who wakes the pump.         *)
(***************************************************************************)
EXTENDS CallQueue, FiniteSetTheorems, TLAPS

(***************************************************************************)
(* The inductive invariant.                                                *)
(***************************************************************************)
\* One holder of the lock: a make_call or the pump.
Lock ==
  /\ \A c, d \in Calls : req[c] \in HoldingReq /\ req[d] \in HoldingReq => c = d
  /\ pump \in HoldingPump => \A c \in Calls : req[c] \notin HoldingReq

\* What a pass of the pump carries, by its stage.
Carried ==
  /\ hand \in Calls <=> pump = "dialing"
  /\ pump \in {"none", "waiting"} => deferred = {}
  /\ pump = "restoring" => deferred # {}
  /\ deferred # {} => excused
  /\ rows \cap Held = {} /\ hand \notin deferred

\* Where a call is decides what became of it, and the other way round.
Unqueued == {"none", "waiting", "counting", "inserting", "dialing"}
Accounting ==
  \A c \in Calls :
    /\ c \in rows \cup Held =>
         dials[c] = 0 /\ fate[c] = "none" /\ req[c] \in {"announcing", "queued", "cut"}
    /\ req[c] \in Unqueued => dials[c] = 0 /\ fate[c] = "none"
    /\ req[c] \in {"announcing", "queued"} /\ fate[c] = "none" => c \in rows \cup Held
    /\ dials[c] <= 1
    /\ fate[c] = "removed" => dials[c] = 0

IInv == TypeOK /\ Lock /\ Carried /\ Accounting /\ JumpsNoQueue /\ WakeupComing

(***************************************************************************)
(* Types.                                                                  *)
(***************************************************************************)
LEMMA NowNat == Now \in Nat
<1>1. IsFiniteSet({d \in Calls : at[d] > 0})
  BY CallQueueAssumption, FS_Subset
<1> QED
  BY <1>1, FS_CardinalityType DEF Now

LEMMA LoopHeadStages ==
  ASSUME NEW st, NEW def
  PROVE  /\ LoopHead(st, def) \in {"none", "restoring", "popping"}
         /\ LoopHead(st, def) = "restoring" => def # {}
         /\ LoopHead(st, def) = "none" => def = {} /\ (paused \/ Full(st))
BY DEF LoopHead, Rest

LEMMA StartType ==
  ASSUME TypeOK, NEW c \in Calls, Start(c)
  PROVE  /\ ledger' \subseteq Calls /\ active' \subseteq Calls
         /\ call' \in [Calls -> {"none", "running", "teardown", "settled", "done"}]
         /\ status' \in [Calls -> {"none", "live", "over"}]
         /\ dials' \in [Calls -> Nat]
BY DEF TypeOK, Start

LEMMA TypeStep == TypeOK /\ [Next]_vars => TypeOK'
<1> SUFFICES ASSUME TypeOK, [Next]_vars PROVE TypeOK'
  OBVIOUS
<1> USE DEF store, calls, pumping, setting
<1>1. ASSUME NEW c \in Calls, Ask(c) PROVE TypeOK'
  <2>1. PICK k \in Asks[c] : key' = [key EXCEPT ![c] = k]
    BY <1>1 DEF Ask
  <2>2. k \in Keys
    BY CallQueueAssumption
  <2> QED
    BY <1>1, <2>1, <2>2 DEF Ask, TypeOK
<1>2. ASSUME NEW c \in Calls, MakeCall(c) PROVE TypeOK'
  <2>1. CASE Enter(c) \/ Count(c)
    BY <2>1 DEF Enter, Count, TypeOK, HoldingReq, Answered
  <2>2. CASE Insert(c)
    BY <2>2, NowNat DEF Insert, TypeOK, HoldingReq, Answered
  <2>3. CASE AnswerQueued(c)
    BY <2>3 DEF AnswerQueued, Schedule, Scheduled, TypeOK, Answered
  <2>4. CASE DialNow(c)
    <3>1. req' \in [Calls -> {"none", "waiting"} \cup HoldingReq \cup Answered]
      BY <2>4 DEF DialNow, TypeOK, Answered
    <3>2. CASE Start(c)
      BY <2>4, <3>1, <3>2, StartType DEF DialNow, TypeOK
    <3>3. CASE UNCHANGED calls
      BY <2>4, <3>1, <3>3 DEF DialNow, TypeOK
    <3> QED
      BY <2>4, <3>2, <3>3 DEF DialNow
  <2> QED
    BY <1>2, <2>1, <2>2, <2>3, <2>4 DEF MakeCall
<1>3. ASSUME NEW c \in Calls, Remove(c) \/ GoStale(c) PROVE TypeOK'
  BY <1>3 DEF Remove, GoStale, TypeOK
<1>4. ASSUME NEW c \in Calls, HangUp(c) PROVE TypeOK'
  BY <1>4 DEF HangUp, Schedule, Scheduled, TypeOK
<1>5. ASSUME NEW c \in Calls, StatusEnds(c) \/ EndBody(c) \/ Settle(c) PROVE TypeOK'
  BY <1>5 DEF StatusEnds, EndBody, Settle, TypeOK
<1>6. ASSUME NEW c \in Calls, Close(c) PROVE TypeOK'
  BY <1>6 DEF Close, Schedule, Scheduled, TypeOK
<1>7. CASE Pump
  <2>1. CASE PumpEnter
    BY <2>1, LoopHeadStages DEF PumpEnter, TypeOK, HoldingPump
  <2>2. CASE PopNone
    BY <2>2 DEF PopNone, Rest, TypeOK, HoldingPump
  <2>3. ASSUME NEW c \in Calls, Pop(c) PROVE TypeOK'
    BY <2>3, LoopHeadStages DEF Pop, TypeOK, HoldingPump
  <2>4. ASSUME NEW c \in Calls, PumpDial(c) PROVE TypeOK'
    <3>1. /\ pump' \in {"none", "waiting"} \cup HoldingPump
          /\ fate' \in [Calls -> {"none", "removed", "past"}]
      BY <2>4, LoopHeadStages DEF PumpDial, TypeOK, HoldingPump
    <3>2. CASE Start(c)
      BY <2>4, <3>1, <3>2, StartType DEF PumpDial, TypeOK
    <3>3. CASE UNCHANGED calls
      BY <2>4, <3>1, <3>3 DEF PumpDial, TypeOK
    <3> QED
      BY <2>4, <3>2, <3>3 DEF PumpDial
  <2>5. ASSUME NEW c \in Calls, Restore(c) PROVE TypeOK'
    BY <2>5 DEF Restore, Rest, TypeOK, HoldingPump
  <2> QED
    BY <1>7, <2>1, <2>2, <2>3, <2>4, <2>5 DEF Pump
<1>8. CASE Pause \/ Resume
  <2>1. paused' \in BOOLEAN /\ excused' \in BOOLEAN
    BY <1>8, Zenon DEF Pause, Resume, TypeOK
  <2> QED
    BY <1>8, <2>1 DEF Pause, Resume, TypeOK
<1>9. CASE Restart
  <2>1. paused' \in BOOLEAN /\ excused' \in BOOLEAN
    BY <1>9, Zenon DEF Restart
  <2> QED
    BY <1>9, <2>1 DEF Restart, TypeOK, Answered
<1>10. CASE UNCHANGED vars
  BY <1>10 DEF vars, TypeOK
<1> QED
  BY <1>1, <1>2, <1>3, <1>4, <1>5, <1>6, <1>7, <1>8, <1>9, <1>10 DEF Next, RunCall

LEMMA TypeInit == Init => TypeOK
<1> SUFFICES ASSUME Init PROVE TypeOK
  OBVIOUS
<1>1. paused \in BOOLEAN /\ excused \in BOOLEAN
  BY Zenon DEF Init
<1> QED
  BY <1>1 DEF Init, TypeOK

\* Types: records, tasks and queue only ever name calls that were asked for, and
\* queued_at is a number (call_manager.py:4202-4264, call_queue.py:218).
THEOREM TypeCorrect == Spec => []TypeOK
BY TypeInit, TypeStep, PTL DEF Spec

(***************************************************************************)
(* The lock and the pump's hands.                                          *)
(***************************************************************************)
LEMMA FreeMeans ==
  LockFree <=> pump \notin HoldingPump /\ \A c \in Calls : req[c] \notin HoldingReq
BY DEF LockFree

LEMMA LockStep == TypeOK /\ Lock /\ [Next]_vars => Lock'
<1> SUFFICES ASSUME TypeOK, Lock, [Next]_vars PROVE Lock'
  OBVIOUS
<1> USE DEF pumping
<1>1. ASSUME NEW c \in Calls, Ask(c) PROVE Lock'
  BY <1>1 DEF Ask, Lock, TypeOK, HoldingReq
<1>2. ASSUME NEW c \in Calls, MakeCall(c) PROVE Lock'
  <2>1. CASE Enter(c)
    BY <2>1, FreeMeans DEF Enter, Lock, TypeOK
  <2>2. CASE Count(c) \/ Insert(c)
    BY <2>2 DEF Count, Insert, Lock, TypeOK, HoldingReq
  <2>3. CASE AnswerQueued(c)
    BY <2>3 DEF AnswerQueued, Schedule, Scheduled, Lock, TypeOK, HoldingReq, HoldingPump
  <2>4. CASE DialNow(c)
    BY <2>4 DEF DialNow, Lock, TypeOK, HoldingReq
  <2> QED
    BY <1>2, <2>1, <2>2, <2>3, <2>4 DEF MakeCall
<1>3. ASSUME NEW c \in Calls,
             \/ Remove(c) \/ GoStale(c) \/ StatusEnds(c) \/ EndBody(c) \/ Settle(c)
             \/ HangUp(c) \/ Close(c)
      PROVE  Lock'
  BY <1>3 DEF Remove, GoStale, StatusEnds, EndBody, Settle, HangUp, Close, Schedule,
              Scheduled, Lock, HoldingPump
<1>4. CASE Pump
  <2>1. CASE PumpEnter
    BY <2>1, FreeMeans DEF PumpEnter, Lock, HoldingPump
  <2>2. ASSUME NEW c \in Calls, Pop(c) \/ PumpDial(c) \/ Restore(c) PROVE Lock'
    BY <2>2 DEF Pop, PumpDial, Restore, Lock, HoldingPump
  <2>3. CASE PopNone
    BY <2>3 DEF PopNone, Lock, HoldingPump
  <2> QED
    BY <1>4, <2>1, <2>2, <2>3 DEF Pump
<1>5. CASE Pause \/ Resume
  BY <1>5 DEF Pause, Resume, Lock, HoldingPump
<1>6. CASE Restart
  BY <1>6 DEF Restart, Lock, HoldingReq, HoldingPump
<1>7. CASE UNCHANGED vars
  BY <1>7 DEF vars, Lock
<1> QED
  BY <1>1, <1>2, <1>3, <1>4, <1>5, <1>6, <1>7 DEF Next, RunCall

LEMMA CarriedStep ==
  TypeOK /\ Lock /\ Carried /\ Accounting /\ [Next]_vars => Carried'
<1> SUFFICES ASSUME TypeOK, Lock, Carried, Accounting, [Next]_vars PROVE Carried'
  OBVIOUS
<1> USE CallQueueAssumption DEF pumping, store, Held
<1>1. ASSUME NEW c \in Calls, Ask(c) \/ Enter(c) \/ Count(c) \/ DialNow(c) PROVE Carried'
  BY <1>1 DEF Ask, Enter, Count, DialNow, Carried
<1>2. ASSUME NEW c \in Calls, Insert(c) PROVE Carried'
  BY <1>2 DEF Insert, Carried, Accounting, Unqueued, HoldingReq
<1>3. ASSUME NEW c \in Calls, AnswerQueued(c) PROVE Carried'
  BY <1>3 DEF AnswerQueued, Schedule, Scheduled, Carried
<1>4. ASSUME NEW c \in Calls,
             \/ Remove(c) \/ GoStale(c) \/ StatusEnds(c) \/ EndBody(c) \/ Settle(c)
      PROVE  Carried'
  BY <1>4 DEF Remove, GoStale, StatusEnds, EndBody, Settle, Carried
<1>5. ASSUME NEW c \in Calls, HangUp(c) \/ Close(c) PROVE Carried'
  BY <1>5 DEF HangUp, Close, Schedule, Scheduled, Carried
<1>6. CASE PumpEnter
  BY <1>6, LoopHeadStages DEF PumpEnter, Carried
<1>7. CASE PopNone
  BY <1>7 DEF PopNone, Rest, Carried
<1>8. ASSUME NEW c \in Calls, Pop(c) PROVE Carried'
  <2>1. CASE HasCapacity(c)
    BY <1>8, <2>1 DEF Pop, Carried, TypeOK
  <2>2. CASE ~HasCapacity(c)
    BY <1>8, <2>2, LoopHeadStages DEF Pop, Carried, TypeOK
  <2> QED
    BY <2>1, <2>2
<1>9. ASSUME NEW c \in Calls, PumpDial(c) PROVE Carried'
  BY <1>9, LoopHeadStages DEF PumpDial, Carried, TypeOK
<1>10. ASSUME NEW c \in Calls, Restore(c) PROVE Carried'
  BY <1>10 DEF Restore, Rest, Carried, TypeOK
<1>11. CASE Pause \/ Resume
  BY <1>11 DEF Pause, Resume, Carried
<1>12. CASE Restart
  BY <1>12 DEF Restart, Carried
<1>13. CASE UNCHANGED vars
  BY <1>13 DEF vars, Carried
<1> QED
  BY <1>1, <1>2, <1>3, <1>4, <1>5, <1>6, <1>7, <1>8, <1>9, <1>10, <1>11, <1>12, <1>13
     DEF Next, MakeCall, RunCall, Pump

(***************************************************************************)
(* Where a call is, and what became of it.                                 *)
(***************************************************************************)
LEMMA AccountingStep ==
  TypeOK /\ Lock /\ Carried /\ Accounting /\ [Next]_vars => Accounting'
<1> SUFFICES ASSUME TypeOK, Lock, Carried, Accounting, [Next]_vars PROVE Accounting'
  OBVIOUS
<1> USE CallQueueAssumption DEF pumping, store, Held
<1>1. ASSUME NEW c \in Calls, Ask(c) \/ Enter(c) \/ Count(c) PROVE Accounting'
  BY <1>1 DEF Ask, Enter, Count, calls, Accounting, Unqueued, TypeOK
<1>2. ASSUME NEW c \in Calls, Insert(c) PROVE Accounting'
  BY <1>2 DEF Insert, calls, Accounting, Unqueued, TypeOK
<1>3. ASSUME NEW c \in Calls, AnswerQueued(c) PROVE Accounting'
  BY <1>3 DEF AnswerQueued, Schedule, calls, Accounting, Unqueued, TypeOK
<1>4. ASSUME NEW c \in Calls, DialNow(c) PROVE Accounting'
  <2>1. CASE Start(c)
    BY <1>4, <2>1 DEF DialNow, Start, Accounting, Unqueued, TypeOK
  <2>2. CASE UNCHANGED calls
    BY <1>4, <2>2 DEF DialNow, calls, Accounting, Unqueued, TypeOK
  <2> QED
    BY <1>4, <2>1, <2>2 DEF DialNow
<1>5. ASSUME NEW c \in Calls, Remove(c) PROVE Accounting'
  BY <1>5 DEF Remove, calls, Carried, Accounting, Unqueued, TypeOK
<1>6. ASSUME NEW c \in Calls,
             GoStale(c) \/ StatusEnds(c) \/ EndBody(c) \/ Settle(c) \/ Close(c) \/ HangUp(c)
      PROVE  Accounting'
  BY <1>6 DEF GoStale, StatusEnds, EndBody, Settle, Close, HangUp, Schedule, Accounting
<1>7. CASE PumpEnter \/ PopNone
  BY <1>7 DEF PumpEnter, PopNone, calls, Accounting
<1>8. ASSUME NEW c \in Calls, Pop(c) PROVE Accounting'
  <2>1. rows' \cup Held' = rows \cup Held
    <3>1. CASE HasCapacity(c)
      BY <1>8, <3>1 DEF Pop, Carried, TypeOK
    <3>2. CASE ~HasCapacity(c)
      BY <1>8, <3>2 DEF Pop, Carried, TypeOK
    <3> QED
      BY <3>1, <3>2
  <2> QED
    BY <1>8, <2>1 DEF Pop, calls, Accounting
<1>9. ASSUME NEW c \in Calls, PumpDial(c) PROVE Accounting'
  <2>1. c \in Held /\ rows' \cup Held' = (rows \cup Held) \ {c}
    BY <1>9 DEF PumpDial, Carried, TypeOK
  <2>2. CASE Start(c)
    BY <1>9, <2>1, <2>2 DEF PumpDial, Start, Accounting, Unqueued, TypeOK
  <2>3. CASE UNCHANGED calls
    BY <1>9, <2>1, <2>3 DEF PumpDial, calls, Accounting, Unqueued, TypeOK
  <2> QED
    BY <1>9, <2>2, <2>3 DEF PumpDial
<1>10. ASSUME NEW c \in Calls, Restore(c) PROVE Accounting'
  BY <1>10 DEF Restore, calls, Carried, Accounting, Unqueued, TypeOK
<1>11. CASE Pause \/ Resume
  BY <1>11 DEF Pause, Resume, calls, Accounting
<1>12. CASE Restart
  BY <1>12 DEF Restart, Carried, Accounting, Unqueued, HoldingReq, TypeOK
<1>13. CASE UNCHANGED vars
  BY <1>13 DEF vars, Accounting
<1> QED
  BY <1>1, <1>2, <1>3, <1>4, <1>5, <1>6, <1>7, <1>8, <1>9, <1>10, <1>11, <1>12, <1>13
     DEF Next, MakeCall, RunCall, Pump

\* Nothing is queued behind a make_call that has found the queue empty: it has the lock.
LEMMA JumpsStep ==
  TypeOK /\ Lock /\ Carried /\ JumpsNoQueue /\ [Next]_vars => JumpsNoQueue'
<1> SUFFICES ASSUME TypeOK, Lock, Carried, JumpsNoQueue, [Next]_vars PROVE JumpsNoQueue'
  OBVIOUS
<1> USE CallQueueAssumption DEF pumping, store, Held, JumpsNoQueue
<1>1. ASSUME NEW c \in Calls, Ask(c) \/ Enter(c) PROVE JumpsNoQueue'
  BY <1>1 DEF Ask, Enter, TypeOK
<1>2. ASSUME NEW c \in Calls, Count(c) PROVE JumpsNoQueue'
  <2>1. Held = {}
    BY <1>2 DEF Count, Lock, Carried, TypeOK, HoldingReq, HoldingPump
  <2> QED
    BY <1>2, <2>1 DEF Count, TypeOK
<1>3. ASSUME NEW c \in Calls, Insert(c) PROVE JumpsNoQueue'
  BY <1>3 DEF Insert, Lock, TypeOK, HoldingReq
<1>4. ASSUME NEW c \in Calls, AnswerQueued(c) \/ DialNow(c) PROVE JumpsNoQueue'
  BY <1>4 DEF AnswerQueued, Schedule, DialNow, TypeOK
<1>5. ASSUME NEW c \in Calls,
             \/ Remove(c) \/ GoStale(c) \/ StatusEnds(c) \/ EndBody(c) \/ Settle(c)
             \/ Close(c) \/ HangUp(c)
      PROVE  JumpsNoQueue'
  BY <1>5 DEF Remove, GoStale, StatusEnds, EndBody, Settle, Close, HangUp, Schedule
<1>6. CASE PumpEnter \/ PopNone
  BY <1>6 DEF PumpEnter, PopNone
<1>7. ASSUME NEW c \in Calls, Pop(c) \/ PumpDial(c) \/ Restore(c) PROVE JumpsNoQueue'
  <2>1. \A d \in Calls : req[d] # "dialing"
    BY <1>7 DEF Pop, PumpDial, Restore, Lock, HoldingPump, HoldingReq
  <2> QED
    BY <1>7, <2>1 DEF Pop, PumpDial, Restore
<1>8. CASE Pause \/ Resume
  BY <1>8 DEF Pause, Resume
<1>9. CASE Restart
  BY <1>9 DEF Restart, HoldingReq
<1>10. CASE UNCHANGED vars
  BY <1>10 DEF vars
<1> QED
  BY <1>1, <1>2, <1>3, <1>4, <1>5, <1>6, <1>7, <1>8, <1>9, <1>10
     DEF Next, MakeCall, RunCall, Pump

(***************************************************************************)
(* Who wakes the pump.                                                     *)
(***************************************************************************)
Waker(c) ==
  \/ req[c] = "announcing"
  \/ status[c] = "over" /\ call[c] \in {"running", "teardown", "settled"}

Waiting == rows # {} /\ ~Full(status) /\ pump = "none" /\ ~paused /\ ~excused

LEMMA WakeupMeans == WakeupComing <=> (Waiting => \E c \in Calls : Waker(c))
BY DEF WakeupComing, Waiting, Waker

\* A step that neither queues, nor ends a record, nor touches the pump.
LEMMA WaitingStays ==
  ASSUME Waiting', rows' \subseteq rows,
         UNCHANGED <<status, cap, pump, paused, excused>>
  PROVE  Waiting
BY DEF Waiting, Full, LiveIn

LEMMA ScheduledMeans == ~paused => Scheduled # "none"
BY DEF Scheduled

LEMMA WakeupStep ==
  TypeOK /\ Lock /\ Carried /\ JumpsNoQueue /\ WakeupComing /\ [Next]_vars => WakeupComing'
<1> SUFFICES ASSUME TypeOK, Lock, Carried, JumpsNoQueue, WakeupComing, [Next]_vars, Waiting'
             PROVE  \E d \in Calls : Waker(d)'
  BY WakeupMeans DEF WakeupComing, Waiting, Waker
<1> USE DEF pumping, store, setting
<1>0. rows' # {} /\ ~Full(status)' /\ pump' = "none" /\ ~paused' /\ ~excused'
  BY DEF Waiting
<1>1. ASSUME NEW c \in Calls, Ask(c) \/ Enter(c) \/ Count(c) PROVE \E d \in Calls : Waker(d)'
  <2>1. PICK d \in Calls : Waker(d)
    BY <1>1, WaitingStays, WakeupMeans DEF Ask, Enter, Count, calls
  <2> QED
    BY <1>1, <2>1 DEF Ask, Enter, Count, calls, Waker, TypeOK
<1>2. ASSUME NEW c \in Calls, Insert(c) PROVE \E d \in Calls : Waker(d)'
  <2>1. CASE req' = [req EXCEPT ![c] = "announcing"]
    BY <2>1 DEF Waker, TypeOK
  <2>2. CASE UNCHANGED store /\ req' = [req EXCEPT ![c] = "refused"]
    <3>1. PICK d \in Calls : Waker(d)
      BY <1>2, <2>2, WaitingStays, WakeupMeans DEF Insert, calls
    <3> QED
      BY <1>2, <2>2, <3>1 DEF Insert, calls, Waker, TypeOK
  <2> QED
    BY <1>2, <2>1, <2>2 DEF Insert
<1>3. ASSUME NEW c \in Calls, AnswerQueued(c) PROVE FALSE
  BY <1>0, <1>3, ScheduledMeans DEF AnswerQueued, Schedule
<1>4. ASSUME NEW c \in Calls, DialNow(c) PROVE \E d \in Calls : Waker(d)'
  \* The queue was empty: see JumpsNoQueue.
  BY <1>0, <1>4 DEF DialNow, JumpsNoQueue
<1>5. ASSUME NEW c \in Calls, Remove(c) \/ GoStale(c) PROVE \E d \in Calls : Waker(d)'
  <2>1. PICK d \in Calls : Waker(d)
    BY <1>5, WaitingStays, WakeupMeans DEF Remove, GoStale, calls
  <2> QED
    BY <1>5, <2>1 DEF Remove, GoStale, calls, Waker
<1>6. ASSUME NEW c \in Calls, StatusEnds(c) PROVE \E d \in Calls : Waker(d)'
  BY <1>6 DEF StatusEnds, Waker, TypeOK
<1>7. ASSUME NEW c \in Calls, EndBody(c) \/ Settle(c) PROVE \E d \in Calls : Waker(d)'
  <2>1. PICK d \in Calls : Waker(d)
    BY <1>7, WaitingStays, WakeupMeans DEF EndBody, Settle
  <2> QED
    BY <1>7, <2>1 DEF EndBody, Settle, Waker, TypeOK
<1>8. ASSUME NEW c \in Calls, Close(c) PROVE \E d \in Calls : Waker(d)'
  <2>1. CASE status[c] = "over"
    BY <1>0, <1>8, <2>1, ScheduledMeans DEF Close, Schedule
  <2>2. CASE status[c] # "over"
    <3>1. PICK d \in Calls : Waker(d)
      BY <1>8, <2>2, WaitingStays, WakeupMeans DEF Close
    <3> QED
      BY <1>8, <2>2, <3>1 DEF Close, Waker, TypeOK
  <2> QED
    BY <2>1, <2>2
<1>9. ASSUME NEW c \in Calls, HangUp(c) PROVE \E d \in Calls : Waker(d)'
  <2>1. CASE call[c] = "done"
    BY <1>0, <1>9, <2>1, ScheduledMeans DEF HangUp, Schedule
  <2>2. CASE call[c] # "done"
    BY <1>0, <1>9, <2>2 DEF HangUp, Waker, TypeOK
  <2> QED
    BY <2>1, <2>2
\* No pass of the pump ends with a row and a free line, but for the excused ones.
<1>10. CASE PumpEnter
  <2>1. ~paused
    BY <1>0, <1>10 DEF PumpEnter
  <2>2. ~Full(status)
    BY <1>0, <1>10 DEF PumpEnter, calls, Full, LiveIn
  <2> QED
    BY <1>0, <1>10, <2>1, <2>2 DEF PumpEnter, LoopHead
<1>11. CASE PopNone
  BY <1>0, <1>11 DEF PopNone
<1>12. ASSUME NEW c \in Calls, Pop(c) PROVE FALSE
  BY <1>0, <1>12 DEF Pop
<1>13. ASSUME NEW c \in Calls, PumpDial(c) PROVE FALSE
  BY <1>0, <1>13 DEF PumpDial, LoopHead, Rest, Full, LiveIn
<1>14. ASSUME NEW c \in Calls, Restore(c) PROVE FALSE
  BY <1>0, <1>14 DEF Restore, Carried
<1>15. CASE Pause \/ Resume \/ Restart
  BY <1>0, <1>15 DEF Pause, Resume, Restart
<1>16. CASE UNCHANGED vars
  <2>1. PICK d \in Calls : Waker(d)
    BY <1>16, WaitingStays, WakeupMeans DEF vars
  <2> QED
    BY <1>16, <2>1 DEF vars, Waker
<1> QED
  BY <1>1, <1>2, <1>3, <1>4, <1>5, <1>6, <1>7, <1>8, <1>9, <1>10, <1>11, <1>12, <1>13,
     <1>14, <1>15, <1>16 DEF Next, MakeCall, RunCall, Pump

(***************************************************************************)
(* The theorems.                                                           *)
(***************************************************************************)
LEMMA IInit == Init => IInv
<1> SUFFICES ASSUME Init PROVE IInv
  OBVIOUS
<1>1. TypeOK
  BY TypeInit
<1>2. Lock /\ Carried /\ Accounting /\ JumpsNoQueue /\ WakeupComing
  BY CallQueueAssumption
     DEF Init, Lock, Carried, Accounting, JumpsNoQueue, WakeupComing, Held, Unqueued,
         HoldingReq, HoldingPump
<1> QED
  BY <1>1, <1>2 DEF IInv

LEMMA IStep == IInv /\ [Next]_vars => IInv'
BY TypeStep, LockStep, CarriedStep, AccountingStep, JumpsStep, WakeupStep DEF IInv

LEMMA Inductive == Spec => []IInv
BY IInit, IStep, PTL DEF Spec

\* No call is dialed twice or after its owner removed it, whatever the pump retries and
\* whenever the process restarts (call_manager.py:5328-5396, call_queue.py:282).
THEOREM DialedOnceAlways == Spec => []DialedOnce
<1>1. IInv => DialedOnce
  BY DEF IInv, Accounting, DialedOnce, TypeOK
<1> QED
  BY <1>1, Inductive, PTL

\* A queued call is in the rows or in the pump's hands until its one end
\* (call_manager.py:5328-5396).
THEOREM NothingVanishesAlways == Spec => []NothingVanishes
<1>1. IInv => NothingVanishes
  BY CallQueueAssumption
     DEF IInv, Carried, Accounting, NothingVanishes, Held, TypeOK
<1> QED
  BY <1>1, Inductive, PTL

\* The lock makes the count of the rows the whole queue: no call is dialed past one that
\* waits (call_manager.py:5073-5126).
THEOREM JumpsNoQueueAlways == Spec => []JumpsNoQueue
BY Inductive, PTL DEF IInv

\* Outside the named exceptions, a row that waits beside a free line has somebody who
\* will wake the pump (call_manager.py:4337-4350, 7658-7686).
THEOREM WakeupComingAlways == Spec => []WakeupComing
BY Inductive, PTL DEF IInv

(***************************************************************************)
(* CallQueue implements CallBook.  The order of the waiting calls is that  *)
(* of their ranks, which are distinct; the pump has the oldest in hand.    *)
(***************************************************************************)
Ranked == {d \in Calls : at[d] > 0}

RankInv ==
  /\ \A c \in Calls : req[c] \in Unqueued => at[c] = 0
  /\ \A c \in Calls : at[c] <= Cardinality(Ranked)
  /\ \A c, d \in rows \cup Held : at[c] = at[d] => c = d
  /\ \A c \in Calls : hand = c => \A d \in rows : at[c] < at[d]

LEMMA RankedCount ==
  IsFiniteSet(Ranked) /\ Cardinality(Ranked) \in Nat /\ Now = Cardinality(Ranked) + 1
<1>1. IsFiniteSet(Ranked)
  BY CallQueueAssumption, FS_Subset DEF Ranked
<1> QED
  BY <1>1, FS_CardinalityType DEF Now, Ranked

\* A step that inserts nothing, and gives the pump nothing to dial.
LEMMA RankFrame ==
  ASSUME RankInv, at' = at, rows' \cup Held' \subseteq rows \cup Held,
         \A c \in Calls : req'[c] \in Unqueued => req[c] \in Unqueued,
         \A c \in Calls : hand' = c => hand = c /\ rows' \subseteq rows
  PROVE  RankInv'
BY DEF RankInv, Ranked

LEMMA RankStep == IInv /\ RankInv /\ [Next]_vars => RankInv'
<1> SUFFICES ASSUME IInv, RankInv, [Next]_vars PROVE RankInv'
  OBVIOUS
<1> USE CallQueueAssumption DEF IInv, pumping, store, Held
<1>1. ASSUME NEW c \in Calls, Ask(c) \/ Enter(c) \/ Count(c) \/ DialNow(c) PROVE RankInv'
  BY <1>1, RankFrame DEF Ask, Enter, Count, DialNow, Unqueued, TypeOK
<1>2. ASSUME NEW c \in Calls, Insert(c) PROVE RankInv'
  <2>1. CASE UNCHANGED store /\ req' = [req EXCEPT ![c] = "refused"]
    BY <1>2, <2>1, RankFrame DEF Insert, Unqueued, TypeOK
  <2>2. CASE /\ rows' = rows \cup {c} /\ at' = [at EXCEPT ![c] = Now]
             /\ req' = [req EXCEPT ![c] = "announcing"]
    <3>1. /\ at[c] = 0 /\ pump \notin HoldingPump /\ hand \notin Calls /\ UNCHANGED <<hand, deferred>>
      BY <1>2 DEF Insert, RankInv, Unqueued, Lock, HoldingReq, Carried, HoldingPump
    <3>2. Cardinality(Ranked) \in Nat /\ Now = Cardinality(Ranked) + 1
      BY RankedCount
    <3>3. at' \in [Calls -> Nat] /\ at'[c] = Now /\ \A d \in Calls \ {c} : at'[d] = at[d]
      BY <2>2, <3>2 DEF TypeOK
    <3>4. Cardinality(Ranked') = Cardinality(Ranked) + 1
      <4>1. Ranked' = Ranked \cup {c} /\ c \notin Ranked
        BY <3>1, <3>2, <3>3 DEF Ranked, TypeOK
      <4> QED
        BY <4>1, RankedCount, FS_AddElement
    <3>5. \A d \in Calls \ {c} : at[d] < Now
      BY <3>2 DEF RankInv, TypeOK
    <3>6. \A d \in Calls : at'[d] <= Cardinality(Ranked')
      BY <3>2, <3>3, <3>4, <3>5 DEF TypeOK
    <3>7. \A d \in Calls : req'[d] \in Unqueued => at'[d] = 0
      BY <2>2, <3>3 DEF RankInv, Unqueued, TypeOK
    <3>8. \A d, e \in rows' \cup Held' : at'[d] = at'[e] => d = e
      BY <2>2, <3>1, <3>2, <3>3, <3>5 DEF RankInv, TypeOK
    <3> QED
      BY <3>1, <3>6, <3>7, <3>8 DEF RankInv
  <2> QED
    BY <1>2, <2>1, <2>2 DEF Insert
<1>3. ASSUME NEW c \in Calls, AnswerQueued(c) \/ Remove(c) PROVE RankInv'
  BY <1>3, RankFrame DEF AnswerQueued, Schedule, Remove, Unqueued, TypeOK
<1>4. ASSUME NEW c \in Calls,
             GoStale(c) \/ StatusEnds(c) \/ EndBody(c) \/ Settle(c) \/ Close(c) \/ HangUp(c)
      PROVE  RankInv'
  BY <1>4, RankFrame DEF GoStale, StatusEnds, EndBody, Settle, Close, HangUp, Schedule
<1>5. CASE PumpEnter \/ PopNone
  BY <1>5, RankFrame DEF PumpEnter, PopNone
<1>6. ASSUME NEW c \in Calls, Pop(c) PROVE RankInv'
  <2>1. CASE ~HasCapacity(c)
    BY <1>6, <2>1, RankFrame DEF Pop, Carried, HoldingPump, TypeOK
  <2>2. CASE HasCapacity(c)
    <3>1. /\ rows' = rows \ {c} /\ hand' = c /\ UNCHANGED <<at, req, deferred>>
          /\ c \in rows /\ \A d \in rows : at[c] <= at[d]
      BY <1>6, <2>2 DEF Pop
    <3>2. \A d \in rows' : at[c] < at[d]
      BY <3>1 DEF RankInv, TypeOK
    <3>3. rows' \cup Held' = rows \cup deferred /\ rows \cup deferred \subseteq rows \cup Held
      BY <3>1
    <3> QED
      BY <3>1, <3>2, <3>3 DEF RankInv, Ranked
  <2> QED
    BY <2>1, <2>2
<1>7. ASSUME NEW c \in Calls, PumpDial(c) PROVE RankInv'
  BY <1>7, RankFrame DEF PumpDial
<1>8. ASSUME NEW c \in Calls, Restore(c) PROVE RankInv'
  <2>1. hand \notin Calls /\ hand' = hand
    BY <1>8 DEF Restore, Carried
  <2> QED
    BY <1>8, <2>1, RankFrame DEF Restore, TypeOK
<1>9. CASE Pause \/ Resume
  BY <1>9, RankFrame DEF Pause, Resume
<1>10. CASE Restart
  BY <1>10, RankFrame DEF Restart, Unqueued
<1>11. CASE UNCHANGED vars
  BY <1>11, RankFrame DEF vars
<1> QED
  BY <1>1, <1>2, <1>3, <1>4, <1>5, <1>6, <1>7, <1>8, <1>9, <1>10, <1>11
     DEF Next, MakeCall, RunCall, Pump

\* What CallBook sees of a step that moves one call.
LEMMA BookMoves ==
  ASSUME NEW c \in Calls, \A d \in Calls \ {c} : Book'[d] = Book[d]
  PROVE  Book' = [Book EXCEPT ![c] = Book'[c]]
BY DEF Book

\* Where a call is, by what became of it and how it was answered.
LEMMA PlaceOf ==
  ASSUME IInv, NEW c \in Calls
  PROVE  /\ Book[c] = "waiting" <=> c \in rows \cup Held
         /\ req[c] \in Unqueued => Book[c] = "open"
         /\ c \notin rows \cup Held /\ fate[c] # "none" =>
              Book[c] = (IF dials[c] > 0 THEN "dialed" ELSE "gone")
BY DEF IInv, Accounting, Unqueued, Book, TypeOK

\* The book counts as the queue does.
LEMMA SameCount == \A S : Promise!Cardinality(S) = Cardinality(S)
BY Zenon DEF Cardinality, Promise!Cardinality

LEMMA WaitingIs == Promise!Waiting = (rows \cup Held) \cap Calls
BY DEF Promise!Waiting, Book

\* A call that is refused, removed, skipped or lost.
LEMMA GivesUp ==
  ASSUME NEW c \in Calls, Book[c] \in {"open", "waiting"}, Book'[c] = "gone",
         \A d \in Calls \ {c} : Book'[d] = Book[d],
         deferred' = deferred \ {c}, UNCHANGED <<key, at, Live, cap>>
  PROVE  Promise!GiveUp(c)
<1>1. Book' = [d \in Calls |-> IF d \in {c} THEN "gone" ELSE Book[d]]
  BY DEF Book
<1> QED
  BY <1>1 DEF Promise!GiveUp, Promise!Gone

LEMMA Dials ==
  ASSUME IInv, NEW c \in Calls, Start(c), Book'[c] = "dialed",
         \A d \in Calls \ {c} : Book'[d] = Book[d], UNCHANGED <<key, at, deferred, cap>>
  PROVE  Promise!Dial(c)
<1>1. Live' = Live \cup {c}
  BY DEF IInv, TypeOK, Start, Live, LiveIn
<1>2. Cardinality(Live) < cap
  <2>1. Cardinality(Live) \in Nat /\ cap \in Nat
    <3>1. IsFiniteSet(Live)
      BY CallQueueAssumption, FS_Subset DEF Live, LiveIn
    <3> QED
      BY <3>1, CallQueueAssumption, FS_CardinalityType DEF IInv, TypeOK
  <2>2. ~(Cardinality(Live) >= cap)
    BY DEF Start, Crowded, Full, Live
  <2> QED
    BY <2>1, <2>2
<1>3. Book' = [Book EXCEPT ![c] = "dialed"]
  BY BookMoves
<1> QED
  BY <1>1, <1>2, <1>3, SameCount DEF Promise!Dial

\* A step that leaves the queue and the answers alone.
LEMMA BookFrame ==
  ASSUME UNCHANGED <<rows, hand, deferred, dials, fate, req>>
  PROVE  Book' = Book
<1>1. Held' = Held
  BY DEF Held
<1> QED
  BY <1>1 DEF Book

LEMMA BookStep ==
  IInv /\ RankInv /\ [Next]_vars => [Promise!Next]_(Promise!vars)
<1> SUFFICES ASSUME IInv, RankInv, [Next]_vars,
                    ~UNCHANGED <<key, Book, at, deferred, Live, cap>>
             PROVE  Promise!Next
  BY DEF Promise!vars
<1>0. TypeOK /\ Accounting /\ Carried
  BY DEF IInv
<1> USE CallQueueAssumption DEF pumping, store, setting, Unqueued
<1>1. ASSUME NEW c \in Calls, Ask(c) PROVE Promise!Ask(c)
  <2>1. Book[c] = "open"
    BY <1>1, PlaceOf DEF Ask
  <2>2. Book' = Book
    <3>1. Held' = Held
      BY <1>1 DEF Ask, Held
    <3> QED
      BY <1>0, <1>1, <3>1 DEF Ask, calls, Book, TypeOK
  <2>3. \E k \in Keys : key' = [key EXCEPT ![c] = k]
    BY <1>1 DEF Ask
  <2>4. UNCHANGED <<at, deferred, Live, cap>>
    BY <1>1 DEF Ask, calls, Live, LiveIn
  <2> QED
    BY <2>1, <2>2, <2>3, <2>4 DEF Promise!Ask
\* An answer that refuses, given to a call that has not been queued.
<1>2. ASSUME NEW c \in Calls, req[c] \in Unqueued, NEW answer \in {"duplicate", "refused"},
             req' = [req EXCEPT ![c] = answer], UNCHANGED <<calls, key, store, pumping, cap, fate>>
      PROVE  Promise!GiveUp(c)
  <2>1. Held' = Held /\ deferred' = deferred \ {c} /\ Live' = Live
    BY <1>0, <1>2 DEF Held, calls, Live, LiveIn, Accounting
  <2>2. Book[c] = "open"
    BY <1>2, PlaceOf
  <2>3. Book'[c] = "gone"
    BY <1>0, <1>2, <2>1, <2>2 DEF Book, calls, TypeOK
  <2>4. \A d \in Calls \ {c} : Book'[d] = Book[d]
    BY <1>0, <1>2, <2>1 DEF Book, calls, TypeOK
  <2> QED
    BY <1>2, <2>1, <2>2, <2>3, <2>4, GivesUp
<1>3. ASSUME NEW c \in Calls, Enter(c) \/ Count(c) PROVE Promise!GiveUp(c)
  <2>1. CASE req' = [req EXCEPT ![c] = "duplicate"] /\ Enter(c)
    BY <1>2, <2>1 DEF Enter
  <2>2. CASE \E r \in Unqueued \ {"none"} : req' = [req EXCEPT ![c] = r]
    <3>1. UNCHANGED <<Held, Live, key, at, deferred, cap>>
      BY <1>3 DEF Enter, Count, calls, Held, Live, LiveIn
    <3>2. Book' = Book
      BY <1>0, <1>3, <2>2, <3>1 DEF Enter, Count, calls, Book, TypeOK
    <3> QED
      BY <3>1, <3>2
  <2> QED
    BY <1>3, <2>1, <2>2 DEF Enter, Count
<1>4. ASSUME NEW c \in Calls, Insert(c) PROVE Promise!GiveUp(c) \/ Promise!Wait(c)
  <2>1. CASE UNCHANGED store /\ req' = [req EXCEPT ![c] = "refused"]
    BY <1>2, <1>4, <2>1 DEF Insert
  <2>2. CASE /\ rows' = rows \cup {c} /\ at' = [at EXCEPT ![c] = Now]
             /\ req' = [req EXCEPT ![c] = "announcing"]
    <3>1. UNCHANGED <<Held, Live, key, deferred, cap, dials, fate>>
      BY <1>4 DEF Insert, calls, Held, Live, LiveIn
    <3>2. Book[c] = "open"
      BY <1>4, PlaceOf DEF Insert
    <3>3. Book'[c] = "waiting" /\ \A d \in Calls \ {c} : Book'[d] = Book[d]
      BY <1>0, <2>2, <3>1 DEF Book, TypeOK
    <3>4. Book' = [Book EXCEPT ![c] = "waiting"]
      BY <3>3, BookMoves
    <3>5. at'[c] = Now /\ at' = [at EXCEPT ![c] = at'[c]]
      BY <1>0, <2>2 DEF TypeOK
    <3>6. \A d \in Calls : at[d] < Now
      BY <1>0, RankedCount DEF RankInv, TypeOK
    <3>7. \A d \in Promise!Waiting : at[d] < at'[c]
      BY <3>5, <3>6, WaitingIs
    <3> QED
      BY <3>1, <3>2, <3>4, <3>5, <3>7 DEF Promise!Wait
  <2> QED
    BY <1>4, <2>1, <2>2 DEF Insert
<1>5. ASSUME NEW c \in Calls, AnswerQueued(c) PROVE FALSE
  <2>1. UNCHANGED <<rows, Held, Live, key, at, deferred, cap, dials, fate>>
    BY <1>5 DEF AnswerQueued, Schedule, calls, Held, Live, LiveIn
  <2>2. Book' = Book
    BY <1>0, <1>5, <2>1 DEF AnswerQueued, Book, TypeOK
  <2> QED
    BY <2>1, <2>2
<1>6. ASSUME NEW c \in Calls, DialNow(c) PROVE Promise!GiveUp(c) \/ Promise!DialNow(c)
  <2>1. CASE Start(c) /\ req' = [req EXCEPT ![c] = "started"]
    <3>1. UNCHANGED <<rows, Held, key, at, deferred, cap, fate>>
      BY <1>6 DEF DialNow, Held
    <3>2. Book[c] = "open" /\ c \notin rows \cup Held
      BY <1>6, PlaceOf DEF DialNow
    <3>3. dials'[c] > 0 /\ \A d \in Calls \ {c} : dials'[d] = dials[d]
      BY <1>0, <2>1 DEF Start, TypeOK
    <3>4. Book'[c] = "dialed" /\ \A d \in Calls \ {c} : Book'[d] = Book[d]
      BY <1>0, <2>1, <3>1, <3>2, <3>3 DEF Book, TypeOK
    <3>5. Promise!Dial(c)
      BY <2>1, <3>1, <3>4, Dials
    <3>6. Promise!Waiting = {}
      BY <1>6, WaitingIs DEF DialNow, IInv, JumpsNoQueue
    <3> QED
      BY <3>2, <3>5, <3>6 DEF Promise!DialNow
  <2>2. CASE UNCHANGED calls /\ \E r \in {"duplicate", "refused"} : req' = [req EXCEPT ![c] = r]
    BY <1>2, <1>6, <2>2 DEF DialNow
  <2> QED
    BY <1>6, <2>1, <2>2 DEF DialNow
<1>7. ASSUME NEW c \in Calls, Remove(c) PROVE Promise!GiveUp(c)
  <2>1. c \notin Held /\ Held' = Held /\ Live' = Live /\ UNCHANGED <<key, at, cap, dials, req>>
    BY <1>0, <1>7 DEF Remove, Carried, Held, calls, Live, LiveIn
  <2>2. deferred' = deferred \ {c}
    BY <1>7, <2>1 DEF Remove, Held
  <2>3. dials[c] = 0 /\ Book[c] = "waiting"
    BY <1>0, <1>7, PlaceOf DEF Remove, Accounting
  <2>4. Book'[c] = "gone" /\ \A d \in Calls \ {c} : Book'[d] = Book[d]
    BY <1>0, <1>7, <2>1, <2>3 DEF Remove, Book, TypeOK
  <2> QED
    BY <2>1, <2>2, <2>3, <2>4, GivesUp
<1>8. ASSUME NEW c \in Calls, c \in Live, Live' = Live \ {c},
             UNCHANGED <<store, hand, deferred, dials, req, key, cap, fate>>
      PROVE  Promise!HangUp(c)
  BY <1>8, BookFrame DEF Promise!HangUp
<1>9. ASSUME NEW c \in Calls, StatusEnds(c) \/ HangUp(c) PROVE Promise!HangUp(c)
  <2>1. /\ status' = [status EXCEPT ![c] = "over"]
        /\ UNCHANGED <<store, hand, deferred, dials, req, key, cap, fate>>
    BY <1>9 DEF StatusEnds, HangUp, Schedule
  <2>2. Live' = Live \ {c}
    BY <1>0, <2>1 DEF Live, LiveIn, TypeOK
  <2>3. CASE c \in Live
    BY <1>8, <2>1, <2>2, <2>3
  <2>4. CASE c \notin Live
    BY <2>1, <2>2, <2>4, BookFrame
  <2> QED
    BY <2>3, <2>4
<1>10. ASSUME NEW c \in Calls, EndBody(c) \/ Settle(c) \/ Close(c) \/ GoStale(c) PROVE FALSE
  <2>1. UNCHANGED <<store, hand, deferred, status, dials, req, key, cap, fate>>
    BY <1>10 DEF EndBody, Settle, Close, GoStale, Schedule
  <2> QED
    BY <2>1, BookFrame DEF Live, LiveIn
<1>11. CASE PumpEnter \/ PopNone \/ Pause \/ Resume \/ UNCHANGED vars
  <2>1. UNCHANGED <<store, hand, deferred, status, dials, req, key, cap, fate>>
    BY <1>11 DEF PumpEnter, PopNone, Pause, Resume, vars, calls
  <2> QED
    BY <2>1, BookFrame DEF Live, LiveIn
<1>12. ASSUME NEW c \in Calls, Pop(c) PROVE Promise!SetAside(c)
  <2>1. /\ c \in rows /\ hand \notin Calls /\ \A d \in rows : at[c] <= at[d]
        /\ rows' = rows \ {c}
        /\ UNCHANGED <<at, status, dials, req, key, cap, fate>>
    BY <1>0, <1>12 DEF Pop, Carried, calls
  <2>2. rows' \cup Held' = rows \cup Held /\ Held = deferred
    BY <1>12, <2>1 DEF Pop, Held
  <2>3. Book' = Book /\ Live' = Live
    BY <2>1, <2>2 DEF Book, Live, LiveIn
  <2>4. CASE HasCapacity(c)
    BY <1>12, <2>1, <2>3, <2>4 DEF Pop
  <2>5. CASE ~HasCapacity(c)
    <3>1. Promise!Waiting \ deferred = rows
      BY <1>0, <2>2, WaitingIs DEF Carried, TypeOK, Held
    <3>2. \A d \in rows : d # c => at[c] < at[d]
      BY <1>0, <2>1 DEF RankInv, TypeOK
    <3>3. Promise!AtLimit(c)
      <4>1. ~(Cardinality(OwnersOwn(Live, c)) < Limit[OwnerOf(c)])
        BY <2>5 DEF HasCapacity
      <4>2. OwnersOwn(Live, c) = {d \in Live : Owner[key[d]] = Owner[key[c]]}
        BY DEF OwnersOwn, OwnerOf
      <4> QED
        BY <4>1, <4>2, SameCount DEF OwnerOf, Promise!AtLimit
    <3>4. deferred' = deferred \cup {c}
      BY <1>12, <2>5 DEF Pop
    <3> QED
      BY <2>1, <2>3, <3>1, <3>2, <3>3, <3>4 DEF Promise!SetAside
  <2> QED
    BY <2>4, <2>5
<1>13. ASSUME NEW c \in Calls, PumpDial(c) PROVE Promise!GiveUp(c) \/ Promise!DialNext(c)
  <2>1. /\ hand = c /\ c \in Held /\ c \notin rows /\ c \notin deferred
        /\ rows' \cup Held' = (rows \cup Held) \ {c}
        /\ UNCHANGED <<rows, deferred, at, req, key, cap>>
    BY <1>0, <1>13 DEF PumpDial, Carried, Held
  <2>2. dials[c] = 0 /\ Book[c] = "waiting"
    BY <1>0, <2>1, PlaceOf DEF Accounting
  <2>3. fate'[c] = "past" /\ \A d \in Calls \ {c} : fate'[d] = fate[d]
    BY <1>0, <1>13 DEF PumpDial, TypeOK
  <2>4. CASE Start(c)
    <3>1. dials'[c] > 0 /\ \A d \in Calls \ {c} : dials'[d] = dials[d]
      BY <1>0, <2>4 DEF Start, TypeOK
    <3>2. Book'[c] = "dialed" /\ \A d \in Calls \ {c} : Book'[d] = Book[d]
      BY <2>1, <2>3, <3>1 DEF Book
    <3>3. Promise!Dial(c)
      BY <2>1, <2>4, <3>2, Dials
    <3>4. \A d \in Promise!Waiting \ deferred : d # c => at[c] < at[d]
      <4>1. ASSUME NEW d \in Promise!Waiting \ deferred, d # c PROVE d \in rows
        BY <2>1, <4>1, WaitingIs DEF Held
      <4> QED
        BY <2>1, <4>1 DEF RankInv
    <3>5. c \in Promise!Waiting \ deferred
      BY <2>1, WaitingIs
    <3> QED
      BY <3>3, <3>4, <3>5 DEF Promise!DialNext
  <2>5. CASE UNCHANGED calls
    <3>1. Book'[c] = "gone" /\ \A d \in Calls \ {c} : Book'[d] = Book[d]
      BY <2>1, <2>2, <2>3, <2>5 DEF Book, calls
    <3>2. deferred' = deferred \ {c} /\ Live' = Live
      BY <2>1, <2>5 DEF calls, Live, LiveIn
    <3> QED
      BY <2>1, <2>2, <3>1, <3>2, GivesUp
  <2> QED
    BY <1>13, <2>4, <2>5 DEF PumpDial
<1>14. ASSUME NEW c \in Calls, Restore(c) PROVE Promise!GiveUp(c) \/ Promise!TakeBack(c)
  <2>1. /\ c \in deferred /\ c \notin rows /\ hand \notin Calls /\ deferred' = deferred \ {c}
        /\ Held = deferred /\ Held' = deferred \ {c} /\ Live' = Live
        /\ UNCHANGED <<at, req, key, cap, dials>>
    BY <1>0, <1>14 DEF Restore, Carried, Held, calls, Live, LiveIn
  <2>2. dials[c] = 0 /\ Book[c] = "waiting"
    BY <1>0, <2>1, PlaceOf DEF Accounting
  <2>3. CASE rows' = rows \cup {c} /\ UNCHANGED fate
    <3>1. rows' \cup Held' = rows \cup Held
      BY <2>1, <2>3
    <3>2. Book' = Book
      BY <2>1, <2>3, <3>1 DEF Book
    <3> QED
      BY <2>1, <3>2 DEF Promise!TakeBack
  <2>4. CASE fate' = [fate EXCEPT ![c] = "past"] /\ UNCHANGED rows
    <3>1. Book'[c] = "gone" /\ \A d \in Calls \ {c} : Book'[d] = Book[d]
      BY <1>0, <2>1, <2>2, <2>4 DEF Book, TypeOK
    <3> QED
      BY <2>1, <2>2, <3>1, GivesUp
  <2> QED
    BY <1>14, <2>3, <2>4 DEF Restore
<1>15. CASE Restart
  <2> DEFINE S == Held \cup {c \in Calls : Book[c] = "open" /\ req'[c] = "cut"}
  <2>1. /\ Held' = {} /\ deferred' = {} /\ Live' = {} /\ Held \subseteq Calls
        /\ deferred \subseteq Held
        /\ UNCHANGED <<rows, at, dials, key>> /\ cap' \in Nat \ {0}
    BY <1>0, <1>15 DEF Restart, Held, Live, LiveIn, TypeOK
  <2>2. \A c \in S : Book[c] \in {"open", "waiting"}
    BY PlaceOf, <2>1
  <2>3. ASSUME NEW c \in Calls PROVE Book'[c] = IF c \in S THEN "gone" ELSE Book[c]
    <3>1. CASE c \in Held
      <4>1. c \notin rows /\ dials[c] = 0 /\ fate'[c] = "past"
        BY <1>0, <1>15, <3>1 DEF Restart, Carried, Accounting
      <4> QED
        BY <2>1, <3>1, <4>1 DEF Book
    <3>2. CASE c \notin Held
      <4>1. fate'[c] = fate[c] /\ (req'[c] = "cut" \/ req'[c] = req[c])
        BY <1>15, <3>2 DEF Restart
      <4>2. (c \in rows' \cup Held') <=> (c \in rows \cup Held)
        BY <2>1, <3>2
      <4>3. CASE Book[c] = "open"
        <5>1. c \notin rows \cup Held /\ dials[c] = 0 /\ ~(dials[c] > 0) /\ fate[c] = "none"
          BY <1>0, <4>3 DEF Book, TypeOK
        <5> QED
          BY <2>1, <3>2, <4>1, <4>2, <4>3, <5>1 DEF Book
      <4>4. CASE Book[c] # "open"
        BY <2>1, <3>2, <4>1, <4>2, <4>4 DEF Book
      <4> QED
        BY <4>3, <4>4
    <3> QED
      BY <3>1, <3>2
  <2> HIDE DEF S
  <2>4. Book' = [c \in Calls |-> IF c \in S THEN "gone" ELSE Book[c]]
    BY <2>3 DEF Book
  <2>5. deferred \subseteq S /\ S \subseteq Calls
    BY <2>1 DEF S
  <2>6. Promise!Gone(S)
    BY <2>1, <2>2, <2>4, <2>5 DEF Promise!Gone
  <2> QED
    BY <2>1, <2>5, <2>6 DEF Promise!Restart, Promise!Next
<1> QED
  BY <1>1, <1>3, <1>4, <1>5, <1>6, <1>7, <1>9, <1>10, <1>11, <1>12, <1>13, <1>14, <1>15
     DEF Next, MakeCall, RunCall, Pump, Promise!Next

\* The queue, its pump, the lock, the store and the restarts are one way to keep the
\* promises of CallBook (call_manager.py:5073-5126, 5316-5396; call_queue.py).
THEOREM Refinement == Spec => RefinesCallBook
<1>1. Init => Promise!Init
  BY CallQueueAssumption DEF Init, Book, Held, Live, LiveIn, Promise!Init
<1>2. Init => RankInv
  <2> SUFFICES ASSUME Init PROVE RankInv
    OBVIOUS
  <2>1. Cardinality(Ranked) \in Nat
    BY RankedCount
  <2> QED
    BY <2>1, CallQueueAssumption DEF Init, RankInv, Held
<1>3. IInv /\ RankInv /\ [Next]_vars => RankInv'
  BY RankStep
<1>4. IInv /\ RankInv /\ [Next]_vars => [Promise!Next]_(Promise!vars)
  BY BookStep
<1> QED
  BY <1>1, <1>2, <1>3, <1>4, Inductive, PTL DEF Spec, RefinesCallBook, Promise!Spec
=============================================================================
