----------------------------- MODULE PoolProofs -----------------------------
(***************************************************************************)
(* Theorems of DatabasePool, for any number of callers, connections, pools *)
(* and cancellations.                                                      *)
(***************************************************************************)
EXTENDS DatabasePool, FiniteSetTheorems, TLAPS

\* Where a caller is says what it is, what it holds and who has the lock.
Places ==
    \A r \in Callers :
        /\ stage[r] \in Holding \cup {"acquire", "call"} => uses[r] \in Pools
        /\ stage[r] \in Holding \cup {"acquire"} => r \in Scoped
        /\ stage[r] \in {"close", "closing", "call"} => r \in Direct
        /\ stage[r] \in Locking <=> lock = r
        /\ stage[r] = "closing" => shared # 0
        /\ stage[r] = "creating" => shared = 0

Placed == TypeOK /\ Places

LEMMA PlacedInit == Init => Placed
BY KindsAssumption, BoundsAssumption
   DEF Init, Placed, TypeOK, Places, Callers, Pools, Holding, Cleanup, Locking, Stages, Errors

\* Lemmas on the assignments the actions share.
LEMMA GoesType ==
  ASSUME TypeOK, NEW r \in Callers, NEW s \in Stages, Goes(r, s)
  PROVE  stage' \in [Callers -> Stages]
BY DEF TypeOK, Goes

LEMMA EndsType ==
  ASSUME TypeOK, NEW r \in Callers, NEW e \in Errors, Ends(r, e)
  PROVE  /\ stage' \in [Callers -> Stages] /\ error' \in [Callers -> Errors]
         /\ uses' \in [Callers -> 0..MaxPools] /\ attempt' \in [Callers -> 1..2]
<1>1. "ended" \in Stages
  BY DEF Stages
<1> QED
  BY <1>1, GoesType, BoundsAssumption DEF TypeOK, Ends

LEMMA ServedType ==
  ASSUME TypeOK, NEW r \in Callers, NEW p \in Pools, Served(r, p)
  PROVE  /\ stage' \in [Callers -> Stages] /\ uses' \in [Callers -> 0..MaxPools]
         /\ UNCHANGED <<attempt, body, committed>>
BY GoesType, BoundsAssumption DEF TypeOK, Served, Stages, Pools, work

LEMMA AgainType ==
  ASSUME TypeOK, NEW r \in Callers, NEW e \in Errors, Again(r, e)
  PROVE  /\ stage' \in [Callers -> Stages] /\ error' \in [Callers -> Errors]
         /\ uses' \in [Callers -> 0..MaxPools] /\ attempt' \in [Callers -> 1..2]
<1>1. "acquire" \in Stages /\ "none" \in Errors
  BY DEF Stages, Errors
<1>2. CASE Ends(r, e)
  BY <1>2, EndsType
<1>3. CASE Goes(r, "acquire") /\ UNCHANGED uses /\ error' = [error EXCEPT ![r] = "none"]
           /\ attempt' = [attempt EXCEPT ![r] = 2]
  BY <1>1, <1>3, GoesType DEF TypeOK
<1> QED
  BY <1>2, <1>3 DEF Again

LEMMA AfterCloseType ==
  ASSUME TypeOK, NEW r \in Callers, AfterClose(r)
  PROVE  /\ stage' \in [Callers -> Stages] /\ error' \in [Callers -> Errors]
         /\ uses' \in [Callers -> 0..MaxPools] /\ attempt' \in [Callers -> 1..2]
<1>1. "get" \in Stages /\ "none" \in Errors
  BY DEF Stages, Errors
<1> QED
  BY <1>1, EndsType, GoesType DEF AfterClose, TypeOK

LEMMA ErrorType ==
  ASSUME TypeOK, NEW r \in Callers, NEW e \in Errors, error' = [error EXCEPT ![r] = e]
  PROVE  error' \in [Callers -> Errors]
BY DEF TypeOK

LEMMA TypeStep == Placed /\ [Next]_vars => TypeOK'
<1> USE DEF globals, work, mine
<1> SUFFICES ASSUME Placed, [Next]_vars PROVE TypeOK'
  OBVIOUS
<1>1. ASSUME NEW r \in Callers, GetPool(r) PROVE TypeOK'
  <2>1. CASE Served(r, shared) /\ shared # 0
    BY <1>1, <2>1, ServedType DEF GetPool, TypeOK, Placed, Pools
  <2>2. CASE Goes(r, "get") /\ UNCHANGED mine
    BY <1>1, <2>2, GoesType DEF GetPool, TypeOK, Placed, Stages
  <2> QED
    BY <1>1, <2>1, <2>2 DEF GetPool
<1>2. ASSUME NEW r \in Callers, ClosePool(r) PROVE TypeOK'
  BY <1>2, GoesType DEF ClosePool, Placed, TypeOK, Stages
<1>3. ASSUME NEW r \in Callers, GetLocked(r) PROVE TypeOK'
  <2>1. CASE Served(r, shared) /\ shared # 0 /\ UNCHANGED lock
    BY <1>3, <2>1, ServedType DEF GetLocked, TypeOK, Placed, Pools
  <2>2. CASE Goes(r, "creating") /\ lock' = r /\ UNCHANGED mine
    BY <1>3, <2>2, GoesType DEF GetLocked, TypeOK, Placed, Stages, Locking
  <2> QED
    BY <1>3, <2>1, <2>2 DEF GetLocked
<1>4. ASSUME NEW r \in Callers, Created(r) PROVE TypeOK'
  BY <1>4, ServedType, BoundsAssumption DEF Created, Placed, TypeOK, Pools
<1>5. ASSUME NEW r \in Callers, CreateFails(r) PROVE TypeOK'
  BY <1>5, EndsType DEF CreateFails, Placed, TypeOK, Errors
<1>6. ASSUME NEW r \in Callers, CloseLocked(r) PROVE TypeOK'
  <2>1. CASE AfterClose(r) /\ UNCHANGED <<lock, status>>
    BY <1>6, <2>1, AfterCloseType DEF CloseLocked, TypeOK, Placed
  <2>2. CASE /\ Goes(r, "closing") /\ lock' = r /\ UNCHANGED <<error, uses, attempt>>
             /\ status' = [status EXCEPT ![shared] = IF @ = "open" THEN "closing" ELSE @]
    BY <1>6, <2>2, GoesType DEF CloseLocked, TypeOK, Placed, Stages, Locking
  <2> QED
    BY <1>6, <2>1, <2>2 DEF CloseLocked
<1>7. ASSUME NEW r \in Callers, CloseReturns(r) \/ CloseTimesOut(r) PROVE TypeOK'
  BY <1>7, AfterCloseType, BoundsAssumption
     DEF CloseReturns, CloseTimesOut, Discard, Terminated, Placed, TypeOK
<1>8. ASSUME NEW r \in Callers, Acquire(r) PROVE TypeOK'
  <2>1. r \in Scoped /\ uses[r] \in Pools /\ "begin" \in Stages
    BY <1>8 DEF Acquire, Placed, Places, Stages, Holding
  <2> QED
    BY <1>8, <2>1, GoesType DEF Acquire, Placed, TypeOK
<1>9. ASSUME NEW r \in Callers, AcquireFails(r) PROVE TypeOK'
  <2>1. PICK e \in Errors : Again(r, e)
    BY <1>9 DEF AcquireFails, Errors
  <2> QED
    BY <1>9, <2>1, AgainType DEF AcquireFails, Placed, TypeOK
<1>10. ASSUME NEW r \in Callers, Begin(r) PROVE TypeOK'
  BY <1>10, GoesType DEF Begin, Placed, TypeOK, Stages, Holding
<1>11. ASSUME NEW r \in Callers, BeginFails(r) PROVE TypeOK'
  <2>1. PICK e \in Errors : error' = [error EXCEPT ![r] = e]
    BY <1>11 DEF BeginFails, Errors
  <2>2. Undoing(r) \in Stages
    BY DEF Undoing, Stages, Holding, Cleanup
  <2> QED
    BY <1>11, <2>1, <2>2, GoesType, ErrorType DEF BeginFails, Placed, TypeOK
<1>12. ASSUME NEW r \in Callers, BodyEnds(r) PROVE TypeOK'
  <2>1. "finish" \in Stages /\ "failed" \in Errors
    BY DEF Stages, Holding, Cleanup, Errors
  <2>2. stage' \in [Callers -> Stages] /\ error' \in [Callers -> Errors]
    BY <1>12, <2>1, GoesType, ErrorType DEF BodyEnds, Placed, TypeOK
  <2>3. body' \in [Callers -> {"none", "done", "broken"}]
    BY <1>12 DEF BodyEnds, Placed, TypeOK
  <2> QED
    BY <1>12, <2>2, <2>3 DEF BodyEnds, Placed, TypeOK
<1>13. ASSUME NEW r \in Callers, RolledBack(r) PROVE TypeOK'
  <2>1. "undo" \in Stages
    BY DEF Stages, Holding, Cleanup
  <2>2. PICK e \in Errors : error' = [error EXCEPT ![r] = e]
    BY <1>13 DEF RolledBack, Errors, Placed, TypeOK
  <2> QED
    BY <1>13, <2>1, <2>2, GoesType, ErrorType DEF RolledBack, Placed, TypeOK
<1>14. ASSUME NEW r \in Callers, Undone(r) PROVE TypeOK'
  <2>1. error[r] \in Errors /\ uses[r] \in Pools
    BY <1>14 DEF Undone, Placed, Places, TypeOK, Holding, Cleanup
  <2>2. out' \in [Pools -> SUBSET Scoped]
    BY <1>14, <2>1 DEF Undone, GivenBack, Placed, TypeOK
  <2> QED
    BY <1>14, <2>1, <2>2, AgainType DEF Undone, Placed, TypeOK
<1>15. ASSUME NEW r \in Callers, Finished(r) PROVE TypeOK'
  <2>1. "release" \in Stages
    BY DEF Stages, Holding, Cleanup
  <2>2. r \in Scoped
    BY <1>15 DEF Finished, Placed, Places, Holding, Cleanup
  <2> QED
    BY <1>15, <2>1, <2>2, GoesType DEF Finished, Placed, TypeOK
<1>16. ASSUME NEW r \in Callers, FinishFails(r) PROVE TypeOK'
  <2>1. "release" \in Stages /\ "failed" \in Errors
    BY DEF Stages, Holding, Cleanup, Errors
  <2>2. error' \in [Callers -> Errors]
    BY <1>16, <2>1 DEF FinishFails, Placed, TypeOK
  <2>3. committed' \in SUBSET Scoped
    BY <1>16 DEF FinishFails, Placed, Places, TypeOK, Holding, Cleanup
  <2> QED
    BY <1>16, <2>1, <2>2, <2>3, GoesType DEF FinishFails, Placed, TypeOK
<1>17. ASSUME NEW r \in Callers, Released(r) PROVE TypeOK'
  <2>1. uses[r] \in Pools
    BY <1>17 DEF Released, Placed, Places, Holding, Cleanup
  <2>2. out' \in [Pools -> SUBSET Scoped]
    BY <1>17, <2>1 DEF Released, GivenBack, Placed, TypeOK
  <2>3. PICK e \in Errors : Ends(r, e)
    BY <1>17 DEF Released, Placed, TypeOK, Errors
  <2> QED
    BY <1>17, <2>2, <2>3, EndsType DEF Released, Placed, TypeOK
<1>18. ASSUME NEW r \in Callers, CallSteps(r) PROVE TypeOK'
  <2>1. CASE \E e \in Errors : Ends(r, e)
    BY <1>18, <2>1, EndsType DEF CallSteps, CallReturns, CallFails, CallIsLost, Placed, TypeOK
  <2>2. CASE /\ attempt' = [attempt EXCEPT ![r] = 2] /\ uses' = [uses EXCEPT ![r] = 0]
             /\ Goes(r, "close") /\ UNCHANGED <<error, globals, out, work, cancels>>
    BY <2>2, GoesType, BoundsAssumption DEF Placed, TypeOK, Stages
  <2> QED
    BY <1>18, <2>1, <2>2 DEF CallSteps, CallReturns, CallFails, CallIsLost, Errors
<1>19. ASSUME NEW r \in Callers, Cancel(r), CancelOutside(r) PROVE TypeOK'
  <2>1. status' \in [Pools -> {"none", "open", "closing", "closed"}]
        /\ out' \in [Pools -> SUBSET Scoped]
    BY <1>19 DEF CancelOutside, Terminated, Placed, TypeOK
  <2>2. cancels' \in 0..MaxCancels
    BY <1>19, BoundsAssumption DEF Cancel, Placed, TypeOK
  <2>3. "cancelled" \in Errors
    BY DEF Errors
  <2> QED
    BY <1>19, <2>1, <2>2, <2>3, EndsType DEF CancelOutside, Placed, TypeOK
<1>20. ASSUME NEW r \in Callers, Cancel(r), CancelInside(r) \/ CancelCleanup(r) PROVE TypeOK'
  <2>1. cancels' \in 0..MaxCancels
    BY <1>20, BoundsAssumption DEF Cancel, Placed, TypeOK
  <2>2. "finish" \in Stages /\ Undoing(r) \in Stages /\ "cancelled" \in Errors
    BY DEF Undoing, Stages, Holding, Cleanup, Errors
  <2>3. stage' \in [Callers -> Stages] /\ error' \in [Callers -> Errors]
    BY <1>20, <2>2, GoesType, ErrorType DEF CancelInside, CancelCleanup, Placed, TypeOK
  <2>4. body' \in [Callers -> {"none", "done", "broken"}]
    BY <1>20 DEF CancelInside, CancelCleanup, Placed, TypeOK
  <2> QED
    BY <1>20, <2>1, <2>3, <2>4 DEF CancelInside, CancelCleanup, Placed, TypeOK
<1>21. CASE UNCHANGED vars
  BY <1>21 DEF vars, Placed, TypeOK
<1> QED
  BY <1>1, <1>2, <1>3, <1>4, <1>5, <1>6, <1>7, <1>8, <1>9, <1>10, <1>11, <1>12, <1>13, <1>14,
     <1>15, <1>16, <1>17, <1>18, <1>19, <1>20, <1>21
     DEF Next, SharedSteps, SetupSteps, CleanupSteps, Cancel

LEMMA PlacesStep == Placed /\ [Next]_vars => Places'
<1> USE KindsAssumption, BoundsAssumption
    DEF Placed, TypeOK, Places, Callers, Pools, Holding, Cleanup, Locking, Stages, Errors,
        globals, work, mine, Goes, Ends
<1> SUFFICES ASSUME Placed, [Next]_vars PROVE Places'
  OBVIOUS
<1>1. ASSUME NEW r \in Callers, GetPool(r) PROVE Places'
  BY <1>1 DEF GetPool, Served
<1>2. ASSUME NEW r \in Callers, ClosePool(r) PROVE Places'
  BY <1>2 DEF ClosePool
<1>3. ASSUME NEW r \in Callers, GetLocked(r) PROVE Places'
  BY <1>3 DEF GetLocked, Served
<1>4. ASSUME NEW r \in Callers, Created(r) PROVE Places'
  BY <1>4 DEF Created, Served
<1>5. ASSUME NEW r \in Callers, CreateFails(r) PROVE Places'
  BY <1>5 DEF CreateFails
<1>6. ASSUME NEW r \in Callers, CloseLocked(r) PROVE Places'
  BY <1>6 DEF CloseLocked, AfterClose
<1>7. ASSUME NEW r \in Callers, CloseReturns(r) \/ CloseTimesOut(r) PROVE Places'
  BY <1>7 DEF CloseReturns, CloseTimesOut, Discard, Terminated, AfterClose
<1>8. ASSUME NEW r \in Callers, Acquire(r) PROVE Places'
  BY <1>8 DEF Acquire
<1>9. ASSUME NEW r \in Callers, AcquireFails(r) PROVE Places'
  BY <1>9 DEF AcquireFails, Again
<1>10. ASSUME NEW r \in Callers, Begin(r) PROVE Places'
  BY <1>10 DEF Begin
<1>11. ASSUME NEW r \in Callers, BeginFails(r) PROVE Places'
  BY <1>11 DEF BeginFails, Undoing
<1>12. ASSUME NEW r \in Callers, BodyEnds(r) PROVE Places'
  BY <1>12 DEF BodyEnds
<1>13. ASSUME NEW r \in Callers, RolledBack(r) PROVE Places'
  BY <1>13 DEF RolledBack
<1>14. ASSUME NEW r \in Callers, Undone(r) PROVE Places'
  BY <1>14 DEF Undone, GivenBack, Again
<1>15. ASSUME NEW r \in Callers, Finished(r) PROVE Places'
  BY <1>15 DEF Finished
<1>16. ASSUME NEW r \in Callers, FinishFails(r) PROVE Places'
  BY <1>16 DEF FinishFails
<1>17. ASSUME NEW r \in Callers, Released(r) PROVE Places'
  BY <1>17 DEF Released, GivenBack
<1>18. ASSUME NEW r \in Callers, CallSteps(r) PROVE Places'
  BY <1>18 DEF CallSteps, CallReturns, CallFails, CallIsLost
<1>19. ASSUME NEW r \in Callers, Cancel(r), CancelOutside(r) PROVE Places'
  BY <1>19 DEF Cancel, CancelOutside, Terminated
<1>20. ASSUME NEW r \in Callers, Cancel(r), CancelInside(r) \/ CancelCleanup(r) PROVE Places'
  BY <1>20 DEF Cancel, CancelInside, CancelCleanup, Undoing
<1>21. CASE UNCHANGED vars
  BY <1>21 DEF vars
<1> QED
  BY <1>1, <1>2, <1>3, <1>4, <1>5, <1>6, <1>7, <1>8, <1>9, <1>10, <1>11, <1>12, <1>13, <1>14,
     <1>15, <1>16, <1>17, <1>18, <1>19, <1>20, <1>21
     DEF Next, SharedSteps, SetupSteps, CleanupSteps, Cancel

LEMMA AlwaysPlaced == Spec => []Placed
<1>1. Placed /\ [Next]_vars => Placed'
  BY TypeStep, PlacesStep DEF Placed
<1> QED
  BY PlacedInit, <1>1, PTL DEF Spec

(* Types, whatever is cancelled, closed or terminated under its holders.   *)
THEOREM TypeCorrect == Spec => []TypeOK
<1>1. Placed => TypeOK
  BY DEF Placed
<1> QED
  BY AlwaysPlaced, <1>1, PTL

-----------------------------------------------------------------------------
(***************************************************************************)
(* Connections.  A step moves one caller only, and gives or takes the      *)
(* connection of no other.                                                 *)
(***************************************************************************)
\* The connections stay where they are when the caller that moves has none
\* before and after.
LEMMA NothingMoves ==
  ASSUME Placed, NEW r \in Callers, NoHandleLost,
         stage[r] \notin Holding, stage'[r] \notin Holding,
         \A q \in Callers \ {r} : stage'[q] = stage[q] /\ uses'[q] = uses[q],
         \A p \in Pools : status'[p] # "closed" => status[p] # "closed" /\ out'[p] = out[p]
  PROVE  NoHandleLost'
BY DEF NoHandleLost, Callers

\* Or when it has the same one before and after.
LEMMA StillHolds ==
  ASSUME Placed, NEW r \in Callers, NoHandleLost,
         stage[r] \in Holding, stage'[r] \in Holding, uses' = uses,
         \A q \in Callers \ {r} : stage'[q] = stage[q],
         UNCHANGED <<out, status>>
  PROVE  NoHandleLost'
BY DEF NoHandleLost, Callers

\* Or when it gives it back.
LEMMA GivesBack ==
  ASSUME Placed, NEW r \in Callers, NoHandleLost,
         stage[r] \in Holding, stage'[r] \notin Holding, GivenBack(r),
         \A q \in Callers \ {r} : stage'[q] = stage[q] /\ uses'[q] = uses[q],
         UNCHANGED status
  PROVE  NoHandleLost'
<1>1. uses[r] \in Pools /\ out \in [Pools -> SUBSET Scoped]
  BY DEF Placed, Places, TypeOK
<1> SUFFICES ASSUME NEW p \in Pools, status[p] # "closed"
             PROVE  out'[p] = {q \in Scoped : uses'[q] = p /\ stage'[q] \in Holding}
  BY DEF NoHandleLost
<1>2. out[p] = {q \in Scoped : uses[q] = p /\ stage[q] \in Holding}
  BY DEF NoHandleLost
<1>3. out'[p] = IF p = uses[r] THEN out[p] \ {r} ELSE out[p]
  BY <1>1 DEF GivenBack
<1> QED
  BY <1>2, <1>3 DEF Callers

\* Or when it takes one.
LEMMA Takes ==
  ASSUME Placed, NEW r \in Callers, NoHandleLost, Acquire(r)
  PROVE  NoHandleLost'
<1>1. /\ r \in Scoped /\ uses[r] \in Pools /\ out \in [Pools -> SUBSET Scoped]
      /\ stage[r] \notin Holding /\ stage \in [Callers -> Stages]
  BY DEF Acquire, Placed, Places, TypeOK, Holding, Cleanup
<1>2. /\ stage'[r] \in Holding /\ \A q \in Callers \ {r} : stage'[q] = stage[q]
      /\ UNCHANGED <<uses, status>>
      /\ out' = [out EXCEPT ![uses[r]] = @ \cup {r}]
  BY <1>1 DEF Acquire, Goes, Holding, globals, mine
<1> SUFFICES ASSUME NEW p \in Pools, status[p] # "closed"
             PROVE  out'[p] = {q \in Scoped : uses[q] = p /\ stage'[q] \in Holding}
  BY <1>2 DEF NoHandleLost
<1>3. out[p] = {q \in Scoped : uses[q] = p /\ stage[q] \in Holding}
  BY DEF NoHandleLost
<1>4. out'[p] = IF p = uses[r] THEN out[p] \cup {r} ELSE out[p]
  BY <1>1, <1>2
<1> QED
  BY <1>1, <1>2, <1>3, <1>4 DEF Callers

LEMMA HandlesStep == Placed /\ NoHandleLost /\ [Next]_vars => NoHandleLost'
<1> SUFFICES ASSUME Placed, NoHandleLost, [Next]_vars PROVE NoHandleLost'
  OBVIOUS
<1> USE DEF Goes, Ends, globals, work, mine
<1>1. ASSUME NEW r \in Callers, GetPool(r) \/ ClosePool(r) PROVE NoHandleLost'
  BY <1>1, NothingMoves DEF GetPool, ClosePool, Served, Placed, TypeOK, Holding, Cleanup
<1>2. ASSUME NEW r \in Callers, GetLocked(r) PROVE NoHandleLost'
  BY <1>2, NothingMoves DEF GetLocked, Served, Placed, TypeOK, Holding, Cleanup
<1>3. ASSUME NEW r \in Callers, Created(r) PROVE NoHandleLost'
  BY <1>3, NothingMoves DEF Created, Served, Placed, TypeOK, Holding, Cleanup
<1>4. ASSUME NEW r \in Callers, CreateFails(r) PROVE NoHandleLost'
  BY <1>4, NothingMoves DEF CreateFails, Placed, TypeOK, Holding, Cleanup
<1>5. ASSUME NEW r \in Callers, CloseLocked(r) PROVE NoHandleLost'
  BY <1>5, NothingMoves DEF CloseLocked, AfterClose, Placed, TypeOK, Holding, Cleanup
<1>6. ASSUME NEW r \in Callers, CloseReturns(r) \/ CloseTimesOut(r) PROVE NoHandleLost'
  BY <1>6, NothingMoves
     DEF CloseReturns, CloseTimesOut, Discard, Terminated, AfterClose, Placed, TypeOK, Holding, Cleanup
<1>7. ASSUME NEW r \in Callers, Acquire(r) PROVE NoHandleLost'
  BY <1>7, Takes
<1>8. ASSUME NEW r \in Callers, AcquireFails(r) PROVE NoHandleLost'
  BY <1>8, NothingMoves DEF AcquireFails, Again, Placed, TypeOK, Holding, Cleanup
<1>9. ASSUME NEW r \in Callers, Begin(r) \/ BeginFails(r) PROVE NoHandleLost'
  BY <1>9, StillHolds DEF Begin, BeginFails, Undoing, Placed, TypeOK, Holding, Cleanup
<1>10. ASSUME NEW r \in Callers, BodyEnds(r) \/ Finished(r) \/ FinishFails(r) \/ RolledBack(r)
       PROVE  NoHandleLost'
  BY <1>10, StillHolds
     DEF BodyEnds, Finished, FinishFails, RolledBack, Placed, TypeOK, Holding, Cleanup
<1>11. ASSUME NEW r \in Callers, Undone(r) PROVE NoHandleLost'
  BY <1>11, GivesBack DEF Undone, Again, Placed, TypeOK, Holding, Cleanup
<1>12. ASSUME NEW r \in Callers, Released(r) PROVE NoHandleLost'
  BY <1>12, GivesBack DEF Released, Placed, TypeOK, Holding, Cleanup
<1>13. ASSUME NEW r \in Callers, CallSteps(r) PROVE NoHandleLost'
  BY <1>13, NothingMoves
     DEF CallSteps, CallReturns, CallFails, CallIsLost, Placed, TypeOK, Holding, Cleanup
<1>14. ASSUME NEW r \in Callers, CancelOutside(r) PROVE NoHandleLost'
  BY <1>14, NothingMoves DEF CancelOutside, Terminated, Placed, TypeOK, Holding, Cleanup, Locking
<1>15. ASSUME NEW r \in Callers, CancelInside(r) \/ CancelCleanup(r) PROVE NoHandleLost'
  BY <1>15, StillHolds DEF CancelInside, CancelCleanup, Undoing, Placed, TypeOK, Holding, Cleanup
<1>16. CASE UNCHANGED vars
  BY <1>16 DEF vars, NoHandleLost
<1> QED
  BY <1>1, <1>2, <1>3, <1>4, <1>5, <1>6, <1>7, <1>8, <1>9, <1>10, <1>11, <1>12, <1>13, <1>14,
     <1>15, <1>16 DEF Next, SharedSteps, SetupSteps, CleanupSteps, Cancel

(* Handles: for any number of connections and cancellations, what is out   *)
(* of a pool is with the requests that have still to release it.           *)
THEOREM HandlesAreKept == Spec => []NoHandleLost
<1>1. Init => NoHandleLost
  BY DEF Init, NoHandleLost, Holding, Cleanup, Callers
<1> QED
  BY <1>1, AlwaysPlaced, HandlesStep, PTL DEF Spec

(* A pool never has more connections out than it was made with, whatever   *)
(* is cancelled, retried or terminated meanwhile (max_size of create_pool).*)
SlotsBound == \A p \in Pools : IsFiniteSet(out[p]) /\ Cardinality(out[p]) <= Slots

LEMMA SlotsStep == Placed /\ SlotsBound /\ [Next]_vars => SlotsBound'
<1> SUFFICES ASSUME Placed, SlotsBound, [Next]_vars, NEW p \in Pools
             PROVE  IsFiniteSet(out'[p]) /\ Cardinality(out'[p]) <= Slots
  BY DEF SlotsBound
<1>0. /\ out \in [Pools -> SUBSET Scoped]
      /\ IsFiniteSet(out[p]) /\ Cardinality(out[p]) <= Slots
      /\ Cardinality(out[p]) \in Nat /\ Slots \in Nat
  BY BoundsAssumption, FS_CardinalityType DEF Placed, TypeOK, SlotsBound
<1>1. CASE out'[p] \subseteq out[p]
  <2>1. IsFiniteSet(out'[p]) /\ Cardinality(out'[p]) <= Cardinality(out[p])
    BY <1>0, <1>1, FS_Subset
  <2> QED
    BY <1>0, <2>1, FS_CardinalityType
<1>2. ASSUME NEW r \in Callers, Acquire(r), uses[r] = p
      PROVE  IsFiniteSet(out'[p]) /\ Cardinality(out'[p]) <= Slots
  <2>1. out'[p] = out[p] \cup {r} /\ Cardinality(out[p]) < Slots
    BY <1>0, <1>2 DEF Acquire
  <2>2. /\ IsFiniteSet(out[p] \cup {r})
        /\ Cardinality(out[p] \cup {r}) =
             IF r \in out[p] THEN Cardinality(out[p]) ELSE Cardinality(out[p]) + 1
    BY <1>0, FS_AddElement
  <2> QED
    BY <1>0, <2>1, <2>2
<1>3. ASSUME NEW r \in Callers, Acquire(r), uses[r] # p PROVE out'[p] \subseteq out[p]
  BY <1>0, <1>3 DEF Acquire
<1>4. ASSUME NEW r \in Callers, GetPool(r) \/ ClosePool(r) \/ SharedSteps(r) \/ BodyEnds(r)
      PROVE  out'[p] \subseteq out[p]
  BY <1>0, <1>4
     DEF GetPool, ClosePool, Served, SharedSteps, GetLocked, Created, CreateFails, CloseLocked,
         CloseReturns, CloseTimesOut, Discard, AfterClose, Terminated, BodyEnds, Goes, Ends,
         globals, mine
<1>5. ASSUME NEW r \in Callers, SetupSteps(r), ~Acquire(r) PROVE out'[p] \subseteq out[p]
  BY <1>0, <1>5
     DEF SetupSteps, AcquireFails, Again, Begin, BeginFails, Undoing, Goes, Ends, globals, mine
<1>6. ASSUME NEW r \in Callers, CleanupSteps(r) \/ CallSteps(r) PROVE out'[p] \subseteq out[p]
  BY <1>0, <1>6
     DEF CleanupSteps, RolledBack, Undone, Finished, FinishFails, Released, GivenBack, Again,
         CallSteps, CallReturns, CallFails, CallIsLost, Goes, Ends, globals, mine
<1>7. ASSUME NEW r \in Callers, Cancel(r) PROVE out'[p] \subseteq out[p]
  BY <1>0, <1>7
     DEF Cancel, CancelOutside, CancelInside, CancelCleanup, Undoing, Terminated, Goes, Ends,
         globals, mine
<1>8. CASE UNCHANGED vars
  BY <1>0, <1>8 DEF vars
<1> QED
  BY <1>1, <1>2, <1>3, <1>4, <1>5, <1>6, <1>7, <1>8 DEF Next, SetupSteps

\* Slots of the database: no pool hands out more connections than it has.
THEOREM NeverMoreThanSlots == Spec => []SlotsBound
<1>1. Init => SlotsBound
  <2> SUFFICES ASSUME Init PROVE SlotsBound
    OBVIOUS
  <2>1. \A p \in Pools : out[p] = {}
    BY DEF Init
  <2> QED
    BY <2>1, FS_EmptySet, BoundsAssumption DEF SlotsBound
<1> QED
  BY <1>1, AlwaysPlaced, SlotsStep, PTL DEF Spec

-----------------------------------------------------------------------------
(***************************************************************************)
(* Pools.  A pool that is not shared is closed or not yet created.         *)
(***************************************************************************)
OthersAreClosed == \A p \in Pools : status[p] \in {"open", "closing"} => shared = p

LEMMA PoolsStep == Placed /\ OthersAreClosed /\ [Next]_vars => OthersAreClosed'
<1> SUFFICES ASSUME Placed, OthersAreClosed, [Next]_vars PROVE OthersAreClosed'
  OBVIOUS
<1>1. CASE UNCHANGED <<shared, status>>
  BY <1>1 DEF OthersAreClosed
<1>2. ASSUME NEW r \in Callers, Created(r) PROVE OthersAreClosed'
  BY <1>2 DEF Created, OthersAreClosed, Placed, Places, TypeOK, Pools
<1>3. ASSUME NEW r \in Callers, CloseLocked(r) PROVE OthersAreClosed'
  BY <1>3 DEF CloseLocked, OthersAreClosed, Placed, TypeOK, Pools
<1>4. ASSUME NEW r \in Callers, CloseReturns(r) \/ CloseTimesOut(r) PROVE OthersAreClosed'
  BY <1>4 DEF CloseReturns, CloseTimesOut, Discard, Terminated, OthersAreClosed, Placed, TypeOK
<1>5. ASSUME NEW r \in Callers, CancelOutside(r) PROVE OthersAreClosed'
  BY <1>5 DEF CancelOutside, Terminated, OthersAreClosed, Placed, TypeOK
<1> QED
  BY <1>1, <1>2, <1>3, <1>4, <1>5
     DEF Next, SharedSteps, SetupSteps, CleanupSteps, CallSteps, Cancel, CancelInside, CancelCleanup,
         GetPool, ClosePool, GetLocked, CreateFails, Acquire, AcquireFails, Begin, BeginFails,
         BodyEnds, RolledBack, Undone, Finished, FinishFails, Released, CallReturns, CallFails,
         CallIsLost, globals, vars

(* No pool with live connections is ever out of close_pg_pool's reach.     *)
THEOREM NoPoolIsOrphaned == Spec => []OneOpenPool
<1>1. Init => OthersAreClosed
  BY DEF Init, OthersAreClosed
<1>2. OthersAreClosed => OneOpenPool
  BY DEF OthersAreClosed, OneOpenPool
<1> QED
  BY <1>1, <1>2, AlwaysPlaced, PoolsStep, PTL DEF Spec

-----------------------------------------------------------------------------
(***************************************************************************)
(* Answers.  What a request has done follows from where it is.             *)
(***************************************************************************)
Before == {"idle", "get", "creating", "acquire", "begin", "setup", "body"}

Progress(r) ==
    /\ stage[r] \in Before \cup {"rollback", "undo"} => body[r] = "none" /\ r \notin committed
    /\ stage[r] \in Before => error[r] = "none"
    /\ stage[r] \in {"rollback", "undo"} => error[r] # "none"
    /\ stage[r] = "finish" => /\ r \notin committed
                              /\ error[r] = "none" => body[r] = "done"
    /\ stage[r] \in {"release", "ended"} => /\ error[r] = "none" => r \in committed
                                            /\ r \in committed => body[r] = "done"
    /\ stage[r] \notin {"close", "closing", "call"}

LEMMA ProgressStep ==
  ASSUME Placed, NEW r \in Scoped, Progress(r), [Next]_vars
  PROVE  Progress(r)'
<1> USE DEF Goes, Ends, globals, work, mine, Progress, Before
<1>1. /\ r \in Callers /\ r \notin Direct
      /\ stage \in [Callers -> Stages] /\ error \in [Callers -> Errors]
      /\ body \in [Callers -> {"none", "done", "broken"}]
  BY KindsAssumption DEF Placed, TypeOK, Callers
<1>2. CASE UNCHANGED <<stage[r], error[r], body[r], r \in committed>>
  BY <1>2
<1>3. CASE GetPool(r) \/ GetLocked(r) \/ Created(r)
  BY <1>1, <1>3 DEF GetPool, GetLocked, Created, Served
<1>4. CASE CreateFails(r)
  BY <1>1, <1>4 DEF CreateFails
<1>5. CASE Acquire(r) \/ Begin(r)
  BY <1>1, <1>5 DEF Acquire, Begin
<1>6. CASE AcquireFails(r)
  BY <1>1, <1>6 DEF AcquireFails, Again
<1>7. CASE BeginFails(r)
  BY <1>1, <1>7 DEF BeginFails, Undoing
<1>8. CASE RolledBack(r)
  BY <1>1, <1>8 DEF RolledBack
<1>9. CASE Undone(r)
  BY <1>1, <1>9 DEF Undone, Again
<1>10. CASE BodyEnds(r)
  BY <1>1, <1>10 DEF BodyEnds
<1>11. CASE Finished(r)
  <2>1. /\ stage[r] = "finish" /\ stage'[r] = "release" /\ error'[r] = error[r]
        /\ body'[r] = body[r]
    BY <1>1, <1>11 DEF Finished
  <2>2. CASE body[r] = "done"
    <3>1. r \in committed'
      BY <1>11, <2>2 DEF Finished
    <3> QED
      BY <2>1, <2>2, <3>1
  <2>3. CASE body[r] # "done"
    <3>1. r \notin committed'
      BY <1>11, <2>1, <2>3 DEF Finished
    <3> QED
      BY <2>1, <2>3, <3>1
  <2> QED
    BY <2>2, <2>3
<1>12. CASE FinishFails(r)
  <2>1. /\ stage[r] = "finish" /\ stage'[r] = "release" /\ error'[r] # "none"
        /\ body'[r] = body[r]
    BY <1>1, <1>12 DEF FinishFails
  <2>2. r \in committed' => body[r] = "done"
    BY <1>12, <2>1 DEF FinishFails
  <2> QED
    BY <2>1, <2>2
<1>13. CASE Released(r)
  BY <1>1, <1>13 DEF Released
<1>14. CASE Cancel(r)
  <2>1. CASE CancelOutside(r)
    BY <1>1, <2>1 DEF CancelOutside, Locking
  <2>2. CASE CancelInside(r)
    BY <1>1, <2>2 DEF CancelInside, Undoing
  <2>3. CASE CancelCleanup(r)
    BY <1>1, <2>3 DEF CancelCleanup, Cleanup
  <2> QED
    BY <1>14, <2>1, <2>2, <2>3 DEF Cancel
<1>15. ASSUME ClosePool(r) \/ CloseLocked(r) \/ CloseReturns(r) \/ CloseTimesOut(r) \/ CallSteps(r)
       PROVE  FALSE
  BY <1>1, <1>15
     DEF ClosePool, CloseLocked, CloseReturns, CloseTimesOut, CallSteps, CallReturns, CallFails, CallIsLost
<1>16. ASSUME NEW q \in Callers, q # r,
              GetPool(q) \/ ClosePool(q) \/ SharedSteps(q) \/ SetupSteps(q)
       PROVE  UNCHANGED <<stage[r], error[r], body[r], r \in committed>>
  BY <1>1, <1>16
     DEF GetPool, ClosePool, SharedSteps, GetLocked, Created, CreateFails, CloseLocked, CloseReturns,
         CloseTimesOut, Discard, AfterClose, Served, SetupSteps, Acquire, AcquireFails, Again, Begin,
         BeginFails
<1>17. ASSUME NEW q \in Callers, q # r,
              BodyEnds(q) \/ CleanupSteps(q) \/ CallSteps(q) \/ Cancel(q)
       PROVE  UNCHANGED <<stage[r], error[r], body[r], r \in committed>>
  BY <1>1, <1>17
     DEF BodyEnds, CleanupSteps, RolledBack, Undone, Again, Finished, FinishFails, Released, CallSteps,
         CallReturns, CallFails, CallIsLost, Cancel, CancelOutside, CancelInside, CancelCleanup
<1>18. CASE UNCHANGED vars
  BY <1>18 DEF vars
<1> QED
  BY <1>2, <1>3, <1>4, <1>5, <1>6, <1>7, <1>8, <1>9, <1>10, <1>11, <1>12, <1>13, <1>14, <1>15,
     <1>16, <1>17, <1>18 DEF Next, SharedSteps, SetupSteps, CleanupSteps

(* A request that returns has committed, one whose body was broken off has *)
(* not, whatever the driver and the cancellations do.                      *)
THEOREM AnswersHold == Spec => []AnswersAreTrue
<1> DEFINE All == \A r \in Scoped : Progress(r)
<1>1. Init => All
  BY DEF Init, Progress, Before, Callers
<1>2. Placed /\ All /\ [Next]_vars => All'
  BY ProgressStep
<1>3. Placed /\ All => AnswersAreTrue
  <2> SUFFICES ASSUME Placed, All, NEW r \in Scoped
               PROVE  /\ stage[r] = "ended" /\ error[r] = "none" => r \in committed
                      /\ r \in committed => body[r] = "done"
    BY DEF AnswersAreTrue
  <2>1. stage[r] \in Stages
    BY DEF Placed, TypeOK, Callers
  <2>2. Progress(r)
    OBVIOUS
  <2>3. stage[r] = "ended" /\ error[r] = "none" => r \in committed
    BY <2>2 DEF Progress
  <2>4. ASSUME r \in committed PROVE stage[r] \in {"release", "ended"}
    BY <2>1, <2>2, <2>4 DEF Progress, Before, Stages, Locking, Holding, Cleanup
  <2> QED
    BY <2>2, <2>3, <2>4 DEF Progress
<1> HIDE DEF All
<1> QED
  BY <1>1, <1>2, <1>3, AlwaysPlaced, PTL DEF Spec

-----------------------------------------------------------------------------
(***************************************************************************)
(* Cancellations.  A caller that carries one is in its cleanup, or done.   *)
(***************************************************************************)
CancelledPlaces ==
    \A r \in Callers : error[r] = "cancelled" => stage[r] \in Cleanup \cup {"ended"}

Keeps == \A r \in Callers : error[r] = "cancelled" => error'[r] = "cancelled"

LEMMA CancelledStep ==
  ASSUME Placed, CancelledPlaces, [Next]_vars
  PROVE  CancelledPlaces' /\ Keeps
<1> USE DEF Goes, Ends, globals, work, mine, CancelledPlaces, Keeps, Cleanup
<1>1. stage \in [Callers -> Stages] /\ error \in [Callers -> Errors]
  BY DEF Placed, TypeOK
<1>2. ASSUME NEW r \in Callers, GetPool(r) \/ ClosePool(r) \/ SharedSteps(r)
      PROVE  CancelledPlaces' /\ Keeps
  BY <1>1, <1>2
     DEF GetPool, ClosePool, SharedSteps, GetLocked, Created, CreateFails, CloseLocked, CloseReturns,
         CloseTimesOut, Discard, AfterClose, Served
<1>3. ASSUME NEW r \in Callers, SetupSteps(r) PROVE CancelledPlaces' /\ Keeps
  BY <1>1, <1>3 DEF SetupSteps, Acquire, AcquireFails, Again, Begin, BeginFails, Undoing
<1>4. ASSUME NEW r \in Callers, BodyEnds(r) PROVE CancelledPlaces' /\ Keeps
  BY <1>1, <1>4 DEF BodyEnds
<1>5. ASSUME NEW r \in Callers, RolledBack(r) PROVE CancelledPlaces' /\ Keeps
  BY <1>1, <1>5 DEF RolledBack
<1>6. ASSUME NEW r \in Callers, Undone(r) PROVE CancelledPlaces' /\ Keeps
  BY <1>1, <1>6 DEF Undone, Again
<1>7. ASSUME NEW r \in Callers, Finished(r) \/ FinishFails(r) PROVE CancelledPlaces' /\ Keeps
  BY <1>1, <1>7 DEF Finished, FinishFails
<1>8. ASSUME NEW r \in Callers, Released(r) PROVE CancelledPlaces' /\ Keeps
  BY <1>1, <1>8 DEF Released
<1>9. ASSUME NEW r \in Callers, CallSteps(r) PROVE CancelledPlaces' /\ Keeps
  BY <1>1, <1>9 DEF CallSteps, CallReturns, CallFails, CallIsLost
<1>10. ASSUME NEW r \in Callers, Cancel(r) PROVE CancelledPlaces' /\ Keeps
  BY <1>1, <1>10 DEF Cancel, CancelOutside, CancelInside, CancelCleanup, Undoing
<1>11. CASE UNCHANGED vars
  BY <1>11 DEF vars
<1> QED
  BY <1>2, <1>3, <1>4, <1>5, <1>6, <1>7, <1>8, <1>9, <1>10, <1>11 DEF Next, CleanupSteps

(* A cancellation is raised in the end, whatever fails during the cleanup. *)
THEOREM CancellationsReachTheCaller == Spec => CancellationIsKept
<1>1. Init => CancelledPlaces
  BY DEF Init, CancelledPlaces
<1>2. Placed /\ CancelledPlaces /\ [Next]_vars => CancelledPlaces' /\ [Keeps]_vars
  BY CancelledStep
<1> QED
  BY <1>1, <1>2, AlwaysPlaced, PTL DEF Spec, CancellationIsKept, Keeps

-----------------------------------------------------------------------------
(***************************************************************************)
(* Leases.  Only a live pool has connections out, and only one pool lives. *)
(***************************************************************************)
OnlyLive == \A p \in Pools : out[p] # {} => status[p] \in {"open", "closing"}

LEMMA LiveStep == Placed /\ OnlyLive /\ [Next]_vars => OnlyLive'
<1> SUFFICES ASSUME Placed, OnlyLive, [Next]_vars PROVE OnlyLive'
  OBVIOUS
<1> USE DEF globals, OnlyLive, Placed, TypeOK
<1>1. CASE UNCHANGED <<status, out>>
  BY <1>1
<1>2. ASSUME NEW r \in Callers, Created(r) \/ CloseLocked(r) PROVE OnlyLive'
  BY <1>2 DEF Created, CloseLocked
<1>3. ASSUME NEW r \in Callers, CloseReturns(r) \/ CloseTimesOut(r) \/ CancelOutside(r)
      PROVE  OnlyLive'
  BY <1>3 DEF CloseReturns, CloseTimesOut, CancelOutside, Discard, Terminated
<1>4. ASSUME NEW r \in Callers, Acquire(r) PROVE OnlyLive'
  BY <1>4 DEF Acquire
<1>5. ASSUME NEW r \in Callers, Undone(r) \/ Released(r) PROVE OnlyLive'
  BY <1>5 DEF Undone, Released, GivenBack
<1> QED
  BY <1>1, <1>2, <1>3, <1>4, <1>5
     DEF Next, SharedSteps, SetupSteps, CleanupSteps, CallSteps, Cancel, CancelInside, CancelCleanup,
         GetPool, ClosePool, GetLocked, CreateFails, AcquireFails, Begin, BeginFails, BodyEnds,
         RolledBack, Finished, FinishFails, CallReturns, CallFails, CallIsLost, vars

Safe ==
    /\ Placed /\ NoHandleLost /\ OthersAreClosed /\ OnlyLive /\ CancelledPlaces
    /\ \A r \in Scoped : Progress(r)

LEMMA SafeAlways == Spec => []Safe
<1>1. Init => Safe
  BY PlacedInit DEF Init, Safe, NoHandleLost, OthersAreClosed, OnlyLive, CancelledPlaces,
     Progress, Before, Holding, Cleanup, Callers
<1>2. Safe /\ [Next]_vars => Safe'
  BY TypeStep, PlacesStep, HandlesStep, PoolsStep, LiveStep, CancelledStep, ProgressStep
     DEF Safe, Placed
<1> QED
  BY <1>1, <1>2, PTL DEF Spec

\* All leases are of one pool, and there they are counted.
LEMMA OnePool ==
  ASSUME Safe, NEW p \in Pools, status[p] \in {"open", "closing"}
  PROVE  Leased = out[p]
<1>1. \A q \in Pools : out[q] # {} => q = p
  BY DEF Safe, OthersAreClosed, OnlyLive
<1> QED
  BY <1>1 DEF Leased, Safe, Placed, TypeOK

\* Who has a lease is where a connection is used.
LEMMA LeaseHolders ==
  ASSUME Safe, NEW r \in Scoped
  PROVE  r \in Leased <=> /\ stage[r] \in Holding
                          /\ status[uses[r]] # "closed"
<1>1. ASSUME r \in Leased PROVE stage[r] \in Holding /\ status[uses[r]] # "closed"
  BY <1>1 DEF Leased, Safe, OnlyLive, NoHandleLost
<1>2. ASSUME stage[r] \in Holding, status[uses[r]] # "closed" PROVE r \in Leased
  BY <1>2 DEF Leased, Safe, Placed, Places, NoHandleLost, Callers
<1> QED
  BY <1>1, <1>2

\* The connection of a caller that is done with it.
LEMMA LeaseEnds ==
  ASSUME Safe, NEW r \in Scoped, stage[r] \in Holding, GivenBack(r)
  PROVE  Leased' = Leased \ {r}
<1>1. uses[r] \in Pools /\ out \in [Pools -> SUBSET Scoped]
  BY DEF Safe, Placed, Places, TypeOK, Callers
<1>2. \A p \in Pools : out'[p] = IF p = uses[r] THEN out[p] \ {r} ELSE out[p]
  BY <1>1 DEF GivenBack
<1>3. \A p \in Pools : r \in out[p] => p = uses[r]
  BY DEF Safe, NoHandleLost, OnlyLive
<1> QED
  BY <1>1, <1>2, <1>3 DEF Leased

\* The pool that is terminated is the one that had them all.
LEMMA LeasesEnd ==
  ASSUME Safe, NEW r \in Callers, stage[r] = "closing", Terminated
  PROVE  Leased' = {}
<1>1. shared \in Pools /\ out \in [Pools -> SUBSET Scoped]
  BY DEF Safe, Placed, Places, TypeOK, Pools
<1>2. \A p \in Pools : out[p] # {} => p = shared
  BY DEF Safe, OthersAreClosed, OnlyLive
<1> QED
  BY <1>1, <1>2 DEF Leased, Terminated

LEMMA SameCount == \A S : Contract!Cardinality(S) = Cardinality(S)
BY Zenon DEF Cardinality, Contract!Cardinality

\* A step is one caller's, and nobody moves once its call has ended.
Step(r) ==
    \/ GetPool(r) \/ ClosePool(r) \/ SharedSteps(r) \/ SetupSteps(r)
    \/ BodyEnds(r) \/ CleanupSteps(r) \/ CallSteps(r) \/ Cancel(r)

LEMMA OneMoves ==
  ASSUME Safe, NEW r \in Callers, Step(r)
  PROVE  /\ stage[r] # "ended"
         /\ \A q \in Callers \ {r} :
              stage'[q] = stage[q] /\ error'[q] = error[q] /\ body'[q] = body[q]
<1> USE DEF Safe, Placed, TypeOK, Goes, Ends, globals, work, mine
<1>1. CASE GetPool(r) \/ ClosePool(r) \/ SharedSteps(r)
  BY <1>1 DEF GetPool, ClosePool, SharedSteps, GetLocked, Created, CreateFails, CloseLocked,
     CloseReturns, CloseTimesOut, Discard, AfterClose, Served
<1>2. CASE SetupSteps(r)
  BY <1>2 DEF SetupSteps, Acquire, AcquireFails, Again, Begin, BeginFails
<1>3. CASE BodyEnds(r) \/ CleanupSteps(r)
  BY <1>3 DEF BodyEnds, CleanupSteps, RolledBack, Undone, Again, Finished, FinishFails, Released
<1>4. CASE CallSteps(r)
  BY <1>4 DEF CallSteps, CallReturns, CallFails, CallIsLost
<1>5. CASE Cancel(r)
  BY <1>5 DEF Cancel, CancelOutside, CancelInside, CancelCleanup, Cleanup, Locking
<1> QED
  BY <1>1, <1>2, <1>3, <1>4, <1>5 DEF Step

Others(r) ==
  \A q \in Callers \ {r} : stage'[q] = stage[q] /\ error'[q] = error[q] /\ body'[q] = body[q]

\* A step between two awaits of a call answers nobody.
LEMMA NoAnswer ==
  ASSUME Safe, NEW r \in Callers, Others(r), stage[r] # "ended", stage'[r] # "ended"
  PROVE  Answer' = Answer
BY DEF Others, Answer, Callers

LEMMA NoDoom ==
  ASSUME Safe, NEW r \in Callers, Others(r), error'[r] = "cancelled" <=> error[r] = "cancelled"
  PROVE  Doomed' = Doomed
BY DEF Others, Doomed, Callers

LEMMA NoWork ==
  ASSUME NEW r \in Callers, Others(r), body'[r] = body[r]
  PROVE  Outcome' = Outcome
BY DEF Others, Outcome, Callers

\* The end of a request.
LEMMA Answers ==
  ASSUME Safe, NEW r \in Scoped, NEW e \in Errors, Ends(r, e), Others(r), stage[r] # "ended",
         e = "none" => r \in committed, error[r] = "cancelled" => e = "cancelled",
         body' = body, committed' = committed, Leased' = Leased \ {r}
  PROVE  Contract!Next
<1>1. r \in Callers /\ stage'[r] = "ended" /\ error'[r] = e
  BY DEF Ends, Goes, Callers, Safe, Placed, TypeOK
<1>2. Answer[r] = "open" /\ Answer' = [Answer EXCEPT ![r] = e]
  BY <1>1 DEF Answer, Others, Callers
<1>3. Doomed' = IF e = "cancelled" THEN Doomed \cup {r} ELSE Doomed
  BY <1>1 DEF Doomed, Others, Callers
<1>4. r \in Doomed => e = "cancelled"
  BY DEF Doomed
<1>5. Outcome' = Outcome
  BY DEF Outcome
<1>6. Contract!Answer(r, e)
  BY <1>2, <1>3, <1>4, <1>5 DEF Contract!Answer
<1> QED
  BY <1>6 DEF Contract!Next, Errors

\* A caller without a user holds nothing; it may close the pool.
LEMMA DirectStep ==
  ASSUME Safe, NEW r \in Direct, Step(r)
  PROVE  [Contract!Next]_(Contract!vars)
<1>1. r \in Callers /\ r \notin Scoped
  BY KindsAssumption DEF Callers
<1>2. Answer' = Answer /\ Doomed' = Doomed /\ Outcome' = Outcome
  BY <1>1, OneMoves DEF Answer, Doomed, Outcome, Callers
<1>3. stage[r] \notin Holding \cup {"acquire"}
  BY <1>1 DEF Safe, Placed, Places
<1>4. committed' = committed /\ (out' = out \/ (stage[r] = "closing" /\ Terminated))
  <2> USE DEF globals, work, mine
  <2>1. CASE GetPool(r) \/ ClosePool(r) \/ SharedSteps(r)
    BY <2>1 DEF GetPool, ClosePool, SharedSteps, GetLocked, Created, CreateFails, CloseLocked,
       CloseReturns, CloseTimesOut, Discard, Served
  <2>2. CASE SetupSteps(r) \/ BodyEnds(r) \/ CleanupSteps(r)
    BY <1>3, <2>2 DEF SetupSteps, Acquire, AcquireFails, Begin, BeginFails, BodyEnds,
       CleanupSteps, RolledBack, Undone, Finished, FinishFails, Released, Holding, Cleanup
  <2>3. CASE CallSteps(r)
    BY <2>3 DEF CallSteps, CallReturns, CallFails, CallIsLost
  <2>4. CASE Cancel(r)
    BY <2>4 DEF Cancel, CancelOutside, CancelInside, CancelCleanup
  <2> QED
    BY <2>1, <2>2, <2>3, <2>4 DEF Step
<1>5. CASE out' = out
  BY <1>2, <1>4, <1>5 DEF Contract!vars, Leased
<1>6. CASE stage[r] = "closing" /\ Terminated
  BY <1>1, <1>2, <1>4, <1>6, LeasesEnd DEF Contract!Next, Contract!Terminate
<1> QED
  BY <1>4, <1>5, <1>6

\* A request that has not begun its work.
LEMMA FreshRequest ==
  ASSUME Safe, NEW r \in Scoped,
         stage[r] \in Before \/ (stage[r] \in {"rollback", "undo"} /\ error[r] # "cancelled")
  PROVE  Contract!Untouched(r)
<1>1. Progress(r) /\ stage[r] # "ended"
  BY DEF Safe, Before
<1> QED
  BY <1>1 DEF Contract!Untouched, Answer, Doomed, Outcome, Progress, Before

LEMMA ScopedStep ==
  ASSUME Safe, NEW r \in Scoped, Step(r)
  PROVE  [Contract!Next]_(Contract!vars)
<1> USE DEF globals, work, mine
<1>1. /\ r \in Callers /\ r \notin Direct /\ Progress(r) /\ Others(r) /\ stage[r] # "ended"
      /\ stage \in [Callers -> Stages] /\ error \in [Callers -> Errors]
      /\ body \in [Callers -> {"none", "done", "broken"}]
      /\ out \in [Pools -> SUBSET Scoped]
  BY KindsAssumption, OneMoves DEF Safe, Placed, TypeOK, Callers, Others
<1>2. error[r] = "cancelled" => stage[r] \in Cleanup
  BY <1>1 DEF Safe, CancelledPlaces
\* Nothing that Lease speaks of.
<1>3. ASSUME stage'[r] # "ended", error'[r] = "cancelled" <=> error[r] = "cancelled",
             UNCHANGED <<out, body, committed>>
      PROVE  UNCHANGED Contract!vars
  BY <1>1, <1>3, NoAnswer, NoDoom DEF Contract!vars, Leased, Outcome
\* An attempt that ends before it had a connection.
<1>4. ASSUME NEW e \in {"lost", "failed", "cancelled"}, Ends(r, e), stage[r] \notin Holding,
             UNCHANGED <<out, body, committed>>
      PROVE  Contract!Next
  <2>1. Leased' = Leased \ {r}
    BY <1>4, LeaseHolders DEF Leased
  <2>2. error[r] # "cancelled" /\ e \in Errors
    BY <1>2, <1>4 DEF Holding, Errors
  <2> QED
    BY <1>1, <1>4, <2>1, <2>2, Answers
<1>5. CASE GetPool(r) \/ GetLocked(r) \/ Created(r) \/ Begin(r)
  BY <1>1, <1>3, <1>5 DEF GetPool, GetLocked, Created, Begin, Served, Goes
<1>6. CASE CreateFails(r)
  BY <1>4, <1>6 DEF CreateFails, Holding, Cleanup
<1>7. CASE AcquireFails(r)
  <2>1. stage[r] = "acquire" /\ error[r] = "none" /\ UNCHANGED <<out, body, committed>>
    BY <1>1, <1>7 DEF AcquireFails, Progress, Before
  <2>2. CASE \E e \in {"lost", "failed"} : Ends(r, e)
    BY <1>4, <2>1, <2>2 DEF Holding, Cleanup
  <2>3. CASE Goes(r, "acquire") /\ error' = [error EXCEPT ![r] = "none"]
    BY <1>1, <1>3, <2>1, <2>3 DEF Goes
  <2> QED
    BY <1>7, <2>2, <2>3 DEF AcquireFails, Again
<1>8. CASE BeginFails(r)
  BY <1>1, <1>3, <1>8 DEF BeginFails, Undoing, Goes, Progress, Before
<1>9. CASE RolledBack(r)
  <2>1. stage'[r] = "undo" /\ (error'[r] = "cancelled" <=> error[r] = "cancelled")
    BY <1>1, <1>9 DEF RolledBack, Goes
  <2> QED
    BY <1>3, <1>9, <2>1 DEF RolledBack
<1>10. CASE Acquire(r)
  <2>1. stage[r] = "acquire" /\ stage'[r] = "begin" /\ UNCHANGED <<error, body, committed>>
    BY <1>1, <1>10 DEF Acquire, Goes
  <2>2. uses[r] \in Pools /\ Leased = out[uses[r]]
    BY <1>1, <1>10, OnePool DEF Acquire, Safe, Placed, Places
  <2>3. Leased' = Leased \cup {r} /\ Cardinality(Leased) < Slots
    <3>1. out' = [out EXCEPT ![uses[r]] = @ \cup {r}] /\ Cardinality(out[uses[r]]) < Slots
      BY <1>10 DEF Acquire
    <3>2. \A p \in Pools : out'[p] = IF p = uses[r] THEN out[p] \cup {r} ELSE out[p]
      BY <1>1, <2>2, <3>1
    <3>3. Leased' = Leased \cup {r}
      BY <2>2, <3>2 DEF Leased
    <3> QED
      BY <2>2, <3>1, <3>3
  <2>4. stage[r] \in Before /\ stage[r] \notin Holding
    BY <2>1 DEF Before, Holding, Cleanup
  <2>5. Contract!Untouched(r) /\ r \notin Leased
    BY <2>4, FreshRequest, LeaseHolders
  <2>6. UNCHANGED <<Answer, Doomed, Outcome>>
    BY <1>1, <2>1, NoAnswer, NoDoom DEF Outcome
  <2>7. Contract!Take(r)
    BY <2>1, <2>3, <2>5, <2>6, SameCount DEF Contract!Take
  <2> QED
    BY <2>7 DEF Contract!Next
<1>11. CASE Undone(r)
  <2>1. /\ stage[r] = "undo" /\ error[r] \in Errors \ {"none"} /\ UNCHANGED <<body, committed>>
        /\ Leased' = Leased \ {r}
    BY <1>1, <1>11, LeaseEnds DEF Undone, Progress, Holding, Cleanup
  <2>2. CASE Ends(r, error[r])
    <3>1. PICK e \in Errors : e = error[r] /\ Ends(r, e)
      BY <2>1, <2>2
    <3> QED
      BY <1>1, <2>1, <3>1, Answers
  <2>3. CASE /\ error[r] = "lost" /\ Goes(r, "acquire")
             /\ error' = [error EXCEPT ![r] = "none"]
    <3>1. UNCHANGED <<Answer, Doomed, Outcome>>
      BY <1>1, <2>1, <2>3, NoAnswer, NoDoom DEF Goes, Outcome
    <3>2. CASE r \in Leased
      <4>1. Contract!Untouched(r)
        BY <2>1, <2>3, FreshRequest
      <4>2. Contract!GiveBack(r)
        BY <2>1, <3>1, <3>2, <4>1 DEF Contract!GiveBack
      <4> QED
        BY <4>2 DEF Contract!Next
    <3>3. CASE r \notin Leased
      BY <2>1, <3>1, <3>3 DEF Contract!vars
    <3> QED
      BY <3>2, <3>3
  <2> QED
    BY <1>11, <2>2, <2>3 DEF Undone, Again
<1>12. CASE BodyEnds(r)
  <2>1. stage[r] = "body" /\ stage'[r] = "finish" /\ UNCHANGED <<out, committed>>
    BY <1>1, <1>12 DEF BodyEnds, Goes
  <2>2. error[r] = "none" /\ error'[r] # "cancelled"
    BY <1>1, <1>12, <2>1 DEF BodyEnds, Progress, Before
  <2>3. UNCHANGED <<Answer, Doomed, Leased>>
    BY <1>1, <2>1, <2>2, NoAnswer, NoDoom DEF Leased
  <2>4. PICK w \in {"done", "broken"} : /\ body' = [body EXCEPT ![r] = w]
                                        /\ w = "done" => status[uses[r]] # "closed"
    BY <1>12 DEF BodyEnds
  <2>5. Outcome' = [Outcome EXCEPT ![r] = w]
    <3>1. \A q \in Callers : body'[q] = IF q = r THEN w ELSE body[q]
      BY <1>1, <2>4
    <3> QED
      BY <3>1 DEF Outcome, Callers
  <2>6. stage[r] \in Holding /\ stage[r] \in Before
    BY <2>1 DEF Holding, Before
  <2>7. Contract!Untouched(r) /\ (w = "done" => r \in Leased)
    BY <2>4, <2>6, LeaseHolders, FreshRequest
  <2>8. Contract!Work(r)
    BY <2>1, <2>3, <2>5, <2>7 DEF Contract!Work
  <2> QED
    BY <2>8 DEF Contract!Next
<1>13. CASE Finished(r) \/ FinishFails(r)
  <2>1. /\ stage[r] = "finish" /\ stage'[r] = "release" /\ UNCHANGED <<out, body>>
        /\ error'[r] = "cancelled" <=> error[r] = "cancelled"
    BY <1>1, <1>13 DEF Finished, FinishFails, Goes
  <2>2. CASE committed' = committed
    BY <1>3, <2>1, <2>2
  <2>3. CASE committed' = committed \cup {r} /\ body[r] = "done"
    <3>1. UNCHANGED <<Answer, Doomed, Leased, Outcome>>
      BY <1>1, <2>1, NoAnswer, NoDoom DEF Leased, Outcome
    <3>2. Contract!Commit(r)
      BY <2>1, <2>3, <3>1 DEF Contract!Commit, Answer, Outcome
    <3> QED
      BY <3>2 DEF Contract!Next
  <2> QED
    BY <1>13, <2>2, <2>3 DEF Finished, FinishFails
<1>14. CASE Released(r)
  <2>1. stage[r] = "release" /\ UNCHANGED <<body, committed>> /\ Leased' = Leased \ {r}
    BY <1>1, <1>14, LeaseEnds DEF Released, Holding, Cleanup
  <2>2. PICK e \in Errors : /\ Ends(r, e)
                            /\ e = "none" => r \in committed
                            /\ error[r] = "cancelled" => e = "cancelled"
    BY <1>1, <1>14, <2>1 DEF Released, Progress, Errors
  <2> QED
    BY <1>1, <2>1, <2>2, Answers
<1>15. CASE Cancel(r)
  <2>1. CASE CancelOutside(r)
    <3>1. stage[r] # "closing" /\ stage[r] \notin Holding /\ UNCHANGED <<out, body, committed>>
      BY <1>1, <2>1 DEF CancelOutside, Progress, Holding, Cleanup, Locking
    <3> QED
      BY <1>4, <2>1, <3>1 DEF CancelOutside
  <2>2. CASE CancelInside(r) \/ CancelCleanup(r)
    <3>1. /\ stage'[r] # "ended" /\ UNCHANGED <<out, committed>>
          /\ error' = [error EXCEPT ![r] = "cancelled"]
      BY <1>1, <2>2 DEF CancelInside, CancelCleanup, Undoing, Goes
    <3>2. Answer' = Answer /\ Leased' = Leased /\ Answer[r] = "open"
      BY <1>1, <3>1, NoAnswer DEF Leased, Answer
    <3>3. Doomed' = Doomed \cup {r}
      BY <1>1, <3>1 DEF Doomed, Callers
    <3>4. \/ Outcome' = Outcome
          \/ Outcome[r] = "none" /\ Outcome' = [Outcome EXCEPT ![r] = "broken"]
      <4>1. CASE body' = body
        BY <4>1 DEF Outcome
      <4>2. CASE stage[r] = "body" /\ body' = [body EXCEPT ![r] = "broken"]
        BY <1>1, <4>2 DEF Outcome, Progress, Before, Callers
      <4> QED
        BY <1>1, <2>2, <4>1, <4>2 DEF CancelInside, CancelCleanup
    <3>5. Contract!Cancel(r)
      BY <3>1, <3>2, <3>3, <3>4 DEF Contract!Cancel
    <3> QED
      BY <3>5 DEF Contract!Next
  <2> QED
    BY <1>15, <2>1, <2>2 DEF Cancel
<1>16. ASSUME ClosePool(r) \/ CloseLocked(r) \/ CloseReturns(r) \/ CloseTimesOut(r) \/ CallSteps(r)
       PROVE  FALSE
  BY <1>1, <1>16 DEF ClosePool, CloseLocked, CloseReturns, CloseTimesOut, CallSteps, CallReturns,
     CallFails, CallIsLost, Progress
<1> QED
  BY <1>5, <1>6, <1>7, <1>8, <1>9, <1>10, <1>11, <1>12, <1>13, <1>14, <1>15, <1>16
     DEF Step, SharedSteps, SetupSteps, CleanupSteps

(* The requests and their connections implement Lease, for any number of   *)
(* requests, slots, pools and cancellations.                               *)
THEOREM Refinement == Spec => RefinesLease
<1>1. Init => Contract!Init
  BY DEF Init, Contract!Init, Leased, Doomed, Answer, Outcome, Callers
<1>2. Safe /\ [Next]_vars => [Contract!Next]_(Contract!vars)
  <2> SUFFICES ASSUME Safe, [Next]_vars PROVE [Contract!Next]_(Contract!vars)
    OBVIOUS
  <2>1. CASE UNCHANGED vars
    BY <2>1 DEF vars, globals, mine, work, Contract!vars, Leased, Doomed, Answer, Outcome
  <2>2. ASSUME NEW r \in Callers, Step(r) PROVE [Contract!Next]_(Contract!vars)
    BY <2>2, DirectStep, ScopedStep DEF Callers
  <2> QED
    BY <2>1, <2>2 DEF Next, Step
<1> QED
  BY <1>1, <1>2, SafeAlways, PTL DEF Spec, RefinesLease, Contract!Spec
=============================================================================
