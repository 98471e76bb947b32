---------------------------- MODULE Confirmation ----------------------------
(***************************************************************************)
(* What a deferred confirmation promises, with nothing of turns, tasks,    *)
(* expiry and classifiers: a question is open until it is used or closed,  *)
(* and not opened again; it is used by one run, of the conversation it was *)
(* asked in, that has not asked it itself; and what that run does is what  *)
(* was asked, at most once.                                                *)
(***************************************************************************)
CONSTANTS Runs, ScopeOf, Calls, Extends, Ids, None

VARIABLES
  question,  \* by id: its state, what it is about, where and by whom it was asked
  using,     \* the call a run is about to make, and the questions that allow it
  acted      \* the calls that were made so, and the questions that allowed them

vars == <<question, using, acted>>

Idle == [call |-> None, by |-> {}]
Unasked == [state |-> "unused", call |-> None, scope |-> None, askers |-> {}]

Open == {i \in Ids : question[i].state = "open"}

Init ==
  /\ question = [i \in Ids |-> Unasked]
  /\ using = [r \in Runs |-> Idle]
  /\ acted = {}

Closed(S) ==
  question' = [i \in Ids |-> IF i \in S THEN [question[i] EXCEPT !.state = "past"] ELSE question[i]]

Ask(r, i, c) ==
  /\ using[r] = Idle /\ question[i] = Unasked
  /\ question' = [question EXCEPT ![i] =
       [state |-> "open", call |-> c, scope |-> ScopeOf[r], askers |-> {r}]]
  /\ UNCHANGED <<using, acted>>

AskAgain(r, i) ==
  /\ using[r] = Idle /\ i \in Open /\ question[i].scope = ScopeOf[r]
  /\ question' = [question EXCEPT ![i].askers = @ \cup {r}]
  /\ UNCHANGED <<using, acted>>

\* Questions are used together when one call is what all of them ask about.
Use(r) ==
  /\ using[r] = Idle /\ using'[r] # Idle
  /\ LET c == using'[r].call
         S == using'[r].by
     IN  /\ c \in Calls /\ S \subseteq Open /\ S # {}
         /\ \A i \in S : /\ question[i].scope = ScopeOf[r]
                         /\ r \notin question[i].askers
                         /\ c = question[i].call \/ <<c, question[i].call>> \in Extends
         /\ Closed(S)
         /\ using' = [using EXCEPT ![r] = [call |-> c, by |-> S]]
  /\ UNCHANGED acted

Act(r) ==
  /\ using[r] # Idle
  /\ acted' = acted \cup {[run |-> r, call |-> using[r].call, by |-> using[r].by]}
  /\ using' = [using EXCEPT ![r] = Idle]
  /\ UNCHANGED question

Refrain(r) ==
  /\ using[r] # Idle
  /\ using' = [using EXCEPT ![r] = Idle]
  /\ UNCHANGED <<question, acted>>

\* Cancelled, expired or too late: for good.
Close ==
  /\ LET S == {i \in Ids : question'[i] # question[i]} IN S \subseteq Open /\ Closed(S)
  /\ UNCHANGED <<using, acted>>

Next ==
  \/ \E r \in Runs : \/ \E i \in Ids : AskAgain(r, i) \/ \E c \in Calls : Ask(r, i, c)
                     \/ Use(r) \/ Act(r) \/ Refrain(r)
  \/ Close

Spec == Init /\ [][Next]_vars
=============================================================================
