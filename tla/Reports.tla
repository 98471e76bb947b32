------------------------------ MODULE Reports ------------------------------
(***************************************************************************)
(* What the user hears of the helpers of one run, with nothing of records, *)
(* slots, timers and cancellations: one voice at a time, the parent's      *)
(* first; whoever speaks takes all the reports kept so far; and what was   *)
(* spoken is over, whether it reached the user or not.                     *)
(***************************************************************************)
EXTENDS Naturals

CONSTANT Helpers

VARIABLES
  report,  \* where the report of a helper is
  voice,   \* who may be speaking
  told     \* how often the user was sent each report

vars == <<report, voice, told>>

Kept == {h \in Helpers : report[h] = "kept"}
Spoken == {h \in Helpers : report[h] = "spoken"}

Init ==
  /\ report = [h \in Helpers |-> "due"]
  /\ voice = "parent"
  /\ told = [h \in Helpers |-> 0]

Keep(h) ==
  /\ report[h] = "due" /\ report' = [report EXCEPT ![h] = "kept"]
  /\ UNCHANGED <<voice, told>>

\* Its helper failed, or was stopped.
Lose(h) ==
  /\ report[h] = "due" /\ report' = [report EXCEPT ![h] = "over"]
  /\ UNCHANGED <<voice, told>>

Speaks(reporters) ==
  report' = [h \in Helpers |-> IF h \in reporters THEN "spoken" ELSE report[h]]

ParentSpeaks == voice = "parent" /\ Spoken = {} /\ Speaks(Kept) /\ UNCHANGED <<voice, told>>

\* A helper speaks for all of them, and for itself.
HelperSpeaks(h) ==
  /\ voice = "nobody" /\ report[h] = "due"
  /\ Speaks(Kept \cup {h}) /\ voice' = "helper"
  /\ UNCHANGED told

Finish(arrived) ==
  /\ voice # "nobody" /\ voice' = "nobody"
  /\ report' = [h \in Helpers |-> IF h \in Spoken THEN "over" ELSE report[h]]
  /\ told' = [h \in Helpers |-> IF arrived /\ h \in Spoken THEN told[h] + 1 ELSE told[h]]

Next ==
  \/ \E h \in Helpers : Keep(h) \/ Lose(h) \/ HelperSpeaks(h)
  \/ ParentSpeaks
  \/ \E arrived \in BOOLEAN : Finish(arrived)

Spec == Init /\ [][Next]_vars
=============================================================================
