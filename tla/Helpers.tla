------------------------------ MODULE Helpers ------------------------------
(***************************************************************************)
(* Background helpers of one user: AgentRegistry                           *)
(* (services/agent_runtime/registry.py), the helpers a parent run starts   *)
(* with start_agent (intent/agent_executor.py), how their reports reach    *)
(* the user, and the scheduler runs registered in the same registry.       *)
(*                                                                         *)
(* Everything runs on one event loop, so a step is what happens between    *)
(* two awaits.  The registry's lock is never held across an await: each of *)
(* its calls is one step.  A helper that reports while the parent is still *)
(* running leaves its report in _held_helper_answers, for the parent; when *)
(* the parent has ended, the last helper sends all that is held.           *)
(* send_message, which restarts a finished or killed agent under its old   *)
(* id, is left out: an id is registered once.                              *)
(***************************************************************************)
EXTENDS Integers, FiniteSets

CONSTANTS
  Helpers,      \* ids start_agent hands out, each a fresh uuid
  Scheduled,    \* ids register_foreground hands out to the scheduler services
  ActiveLimit   \* _MAX_ACTIVE_AGENTS_PER_USER

ASSUME HelpersAssumption ==
  /\ IsFiniteSet(Helpers)
  /\ IsFiniteSet(Scheduled)
  /\ Helpers \cap Scheduled = {}
  /\ ActiveLimit \in Nat \ {0}

VARIABLES
  recs,      \* the registry's records
  task,      \* where the task that runs each agent is
  timers,    \* the helpers with a call_later of _schedule_force_cancel pending
  live,      \* _live_helpers
  held,      \* _held_helper_answers, by the helper that reported
  replying,  \* the reports in the reply a helper is sending
  parent,    \* the parent run, and _agent_loop_active with it
  final,     \* the reports the parent is putting into its own answer
  told,      \* observed: how often the user was sent each report
  late       \* observed: the helpers that reported after the parent's end

vars == <<recs, task, timers, live, held, replying, parent, final, told, late>>

registry == <<recs, timers>>

reports == <<held, replying, final, told, late>>
-----------------------------------------------------------------------------
Agents == Helpers \cup Scheduled

\* done: completed_at is set.  An agent never registered has no record, nor has
\* one that was collected.
Record == [status : {"absent", "running", "completed", "failed", "killed"}, done : BOOLEAN]

Absent == [status |-> "absent", done |-> FALSE]

Active == {a \in Agents : recs[a].status = "running"}

Busy == {"working", "delivering"}

\* _agent_loop_active: cleared when run_agent_loop is left, by any way out.
LoopActive == parent # "ended"
-----------------------------------------------------------------------------
Init ==
  /\ recs = [a \in Agents |-> Absent]
  /\ task = [a \in Agents |-> "none"]
  /\ timers = {}
  /\ live = {}
  /\ held = {}
  /\ replying = [h \in Helpers |-> {}]
  /\ parent = "running"
  /\ final = {}
  /\ told = [h \in Helpers |-> 0]
  /\ late = {}

(***************************************************************************)
(* The registry.                                                           *)
(***************************************************************************)
\* What _gc_user_locked may drop: by age, or the oldest when there are too many.
Collectable == {a \in Agents : recs[a].status # "running" /\ recs[a].done}

Without(gone) == [a \in Agents |-> IF a \in gone THEN Absent ELSE recs[a]]

\* start() and register_foreground() of a fresh id: collect, check, insert.
Register(a, gone) ==
  /\ gone \subseteq Collectable
  /\ Cardinality(Active) < ActiveLimit
  /\ recs' = [Without(gone) EXCEPT ![a] = [status |-> "running", done |-> FALSE]]

\* Mutant: a runner that returns is completed, whatever happened meanwhile.
CompletedAlways(rec) ==
  IF rec.status = "absent" THEN rec ELSE [status |-> "completed", done |-> TRUE]

\* _mark_complete, mark_complete_explicit.
Completed(rec) ==
  IF rec.status = "absent" THEN rec
  ELSE [status |-> IF rec.status = "running" THEN "completed" ELSE rec.status, done |-> TRUE]

\* _mark_error and mark_failed_explicit ("failed"), _mark_cancelled ("killed"):
\* neither looks at the status it replaces.
Overwritten(rec, status) ==
  IF rec.status = "absent" THEN rec ELSE [status |-> status, done |-> TRUE]

\* The record a finished run leaves behind, with the collection that follows.
Finish(a, rec, gone) ==
  /\ gone \subseteq Collectable \ {a}
  /\ task' = [task EXCEPT ![a] = "ended"]
  /\ recs' = [Without(gone) EXCEPT ![a] = rec]

\* Mutant: the record is killed but nothing will interrupt the runner.
CancelSoftly(a) ==
  /\ a \in Active
  /\ recs' = [recs EXCEPT ![a].status = "killed"]
  /\ UNCHANGED <<task, timers, live, parent, reports>>

\* cancel(): the event is only a request, so a timer will interrupt the runner
\* - if one is attached, which no scheduler service does.
Cancel(a) ==
  /\ a \in Active
  /\ recs' = [recs EXCEPT ![a].status = "killed"]
  /\ timers' = IF a \in Helpers /\ task[a] \in Busy THEN timers \cup {a} ELSE timers
  /\ UNCHANGED <<task, live, parent, reports>>

\* get(), list_active(), list_recent_completed(): check_agents and the routes.  What
\* check_agents shows the parent's model of finished helpers (agent_executor.py:10041)
\* leaves _held_helper_answers as it is, and is not counted as told to the user.
List(gone) ==
  /\ gone \subseteq Collectable
  /\ recs' = Without(gone)
  /\ UNCHANGED <<task, timers, live, parent, reports>>

(***************************************************************************)
(* A helper: start_agent and the _runner it hands to the registry.         *)
(***************************************************************************)
\* Past the limit start_agent takes its entry out of _live_helpers again and
\* tells the model: nothing is left of the attempt.
StartAgent(h, gone) ==
  /\ parent = "running"
  /\ task[h] = "none"
  /\ Register(h, gone)
  /\ task' = [task EXCEPT ![h] = "working"]
  /\ live' = live \cup {h}
  /\ UNCHANGED <<timers, parent, reports>>

LastAfterEnd == ~LoopActive /\ Cardinality(live) <= 1

\* The child run answered and the report is only kept: for the parent, or for
\* the last helper.
ReportHeld(h, gone) ==
  /\ task[h] = "working"
  /\ ~LastAfterEnd
  /\ held' = held \cup {h}
  /\ late' = IF LoopActive THEN late ELSE late \cup {h}
  /\ Finish(h, Completed(recs[h]), gone)
  /\ live' = live \ {h}
  /\ UNCHANGED <<timers, replying, parent, final, told>>

\* Mutant: the reports are taken out only once they are sent.
TakenWhenSent(h) == /\ replying' = [replying EXCEPT ![h] = held \cup {h}]
                    /\ held' = held \cup {h}

\* _deliver_helper_answers up to its first await.
Taken(h) == /\ replying' = [replying EXCEPT ![h] = held \cup {h}]
            /\ held' = {}

\* Mutant: a report goes out at once, also while the parent writes the reply.
DeliverRaw(h) ==
  /\ task[h] = "working"
  /\ Taken(h)
  /\ late' = late \cup {h}
  /\ task' = [task EXCEPT ![h] = "delivering"]
  /\ UNCHANGED <<registry, live, parent, final, told>>

\* The child run answered, the parent has ended and no other helper is left.
Deliver(h) ==
  /\ task[h] = "working"
  /\ LastAfterEnd
  /\ Taken(h)
  /\ late' = late \cup {h}
  /\ task' = [task EXCEPT ![h] = "delivering"]
  /\ UNCHANGED <<registry, live, parent, final, told>>

\* channel.send came back; an error of it is logged and the reply is gone.
Sent(h, arrived, gone) ==
  /\ task[h] = "delivering"
  /\ told' = IF arrived THEN [k \in Helpers |-> IF k \in replying[h] THEN told[k] + 1 ELSE told[k]]
             ELSE told
  /\ replying' = [replying EXCEPT ![h] = {}]
  /\ Finish(h, Completed(recs[h]), gone)
  /\ live' = live \ {h}
  /\ UNCHANGED <<timers, held, parent, final, late>>

\* The child run failed, or saw the cancel event between two iterations: it
\* returns ok=False either way, _child_answer_text raises, _mark_error records.
Fail(h, gone) ==
  /\ task[h] = "working"
  /\ Finish(h, Overwritten(recs[h], "failed"), gone)
  /\ live' = live \ {h}
  /\ UNCHANGED <<timers, parent, reports>>

\* Mutant: only a helper that answers or fails leaves _live_helpers.
InterruptForgets(h, gone) ==
  /\ h \in timers
  /\ timers' = timers \ {h}
  /\ IF task[h] \in Busy
     THEN /\ Finish(h, Overwritten(recs[h], "killed"), gone)
          /\ replying' = [replying EXCEPT ![h] = {}]
     ELSE /\ gone = {}
          /\ UNCHANGED <<recs, task, replying>>
  /\ UNCHANGED <<live, held, parent, final, told, late>>

\* The timer of cancel() fires.  A runner that is still going gets a
\* CancelledError where it waits, in the child run or in the send.
Interrupt(h, gone) ==
  /\ h \in timers
  /\ timers' = timers \ {h}
  /\ IF task[h] \in Busy
     THEN /\ Finish(h, Overwritten(recs[h], "killed"), gone)
          /\ live' = live \ {h}
          /\ replying' = [replying EXCEPT ![h] = {}]
     ELSE /\ gone = {}
          /\ UNCHANGED <<recs, task, live, replying>>
  /\ UNCHANGED <<held, parent, final, told, late>>

(***************************************************************************)
(* The parent run.                                                         *)
(***************************************************************************)
\* The loop is left with an answer of its own, or by an exception.  Whether the
\* answer repeats what check_agents showed is the model's wording: held reports stay.
ParentEnds ==
  /\ parent = "running"
  /\ parent' = "ended"
  /\ UNCHANGED <<registry, task, live, reports>>

\* The model can no longer be reached: _answer_from_helpers.
ParentLosesModel ==
  /\ parent = "running"
  /\ parent' = "waiting"
  /\ UNCHANGED <<registry, task, live, reports>>

\* Every helper is done, or _HELPER_WAIT_S have passed: the wait may end at any
\* moment.
ParentTakesReports ==
  /\ parent = "waiting"
  /\ final' = held
  /\ held' = {}
  /\ parent' = IF held = {} THEN "ended" ELSE "combining"
  /\ UNCHANGED <<registry, task, live, replying, told, late>>

ParentAnswers ==
  /\ parent = "combining"
  /\ told' = [h \in Helpers |-> IF h \in final THEN told[h] + 1 ELSE told[h]]
  /\ final' = {}
  /\ parent' = "ended"
  /\ UNCHANGED <<registry, task, live, held, replying, late>>

(***************************************************************************)
(* A scheduler run (_guarded_execute of either scheduler service): it goes *)
(* on unregistered when the registry refuses it, and never looks at its    *)
(* cancel event.                                                           *)
(***************************************************************************)
StartScheduled(s, gone) ==
  /\ task[s] = "none"
  /\ \/ Register(s, gone)
     \/ /\ Cardinality(Active) >= ActiveLimit
        /\ gone \subseteq Collectable
        /\ recs' = Without(gone)
  /\ task' = [task EXCEPT ![s] = "working"]
  /\ UNCHANGED <<timers, live, parent, reports>>

\* Mutant: a run that failed leaves its record as it was.
EndScheduledOk(s, ok, gone) ==
  /\ task[s] = "working"
  /\ Finish(s, IF ok THEN Completed(recs[s]) ELSE recs[s], gone)
  /\ UNCHANGED <<timers, live, parent, reports>>

EndScheduled(s, ok, gone) ==
  /\ task[s] = "working"
  /\ Finish(s, IF ok THEN Completed(recs[s]) ELSE Overwritten(recs[s], "failed"), gone)
  /\ UNCHANGED <<timers, live, parent, reports>>
-----------------------------------------------------------------------------
Helper(h, gone) ==
  \/ StartAgent(h, gone) \/ ReportHeld(h, gone) \/ Fail(h, gone)
  \/ Sent(h, TRUE, gone) \/ Sent(h, FALSE, gone) \/ Interrupt(h, gone)

Schedule(s, gone) ==
  \/ StartScheduled(s, gone) \/ EndScheduled(s, TRUE, gone) \/ EndScheduled(s, FALSE, gone)

Parent == ParentEnds \/ ParentLosesModel \/ ParentTakesReports \/ ParentAnswers

Next ==
  \/ \E h \in Helpers, gone \in SUBSET Collectable : Helper(h, gone)
  \/ \E h \in Helpers : Deliver(h)
  \/ \E s \in Scheduled, gone \in SUBSET Collectable : Schedule(s, gone)
  \/ \E a \in Agents : Cancel(a)
  \/ \E gone \in SUBSET Collectable : List(gone)
  \/ Parent

Spec == Init /\ [][Next]_vars

\* The event loop fires its timers, a scheduler run is under a timeout of its
\* own, and the parent's wait and the call that combines the reports have one.
\* Nothing makes a child run or a channel answer, and nobody has to list, start
\* or cancel anything.
Fairness ==
  /\ \A h \in Helpers : WF_vars(\E gone \in SUBSET Collectable : Interrupt(h, gone))
  /\ \A s \in Scheduled :
       WF_vars(\E ok \in BOOLEAN, gone \in SUBSET Collectable : EndScheduled(s, ok, gone))
  /\ WF_vars(ParentTakesReports)
  /\ WF_vars(ParentAnswers)

LiveSpec == Spec /\ Fairness
-----------------------------------------------------------------------------
TypeOK ==
  /\ recs \in [Agents -> Record]
  /\ task \in [Agents -> {"none", "working", "delivering", "ended"}]
  /\ timers \subseteq Helpers
  /\ live \subseteq Helpers
  /\ held \subseteq Helpers
  /\ replying \in [Helpers -> SUBSET Helpers]
  /\ parent \in {"running", "waiting", "combining", "ended"}
  /\ final \subseteq Helpers
  /\ told \in [Helpers -> Nat]
  /\ late \subseteq Helpers

\* _live_helpers holds exactly the helpers whose runner has not ended.  A helper
\* left behind in it would keep every later one from being the last, and the
\* parent waiting (agent_executor.py:9782-9784, 9842, 9896-9898).
LiveIsBusy == live = {h \in Helpers : task[h] \in Busy}

\* No slot leaks: a record that counts against the limit belongs to a task that
\* is still going and will take it off, and there are never more than the limit
\* (registry.py:203-213).
SlotsAreBacked ==
  /\ \A a \in Active : task[a] \in Busy
  /\ Cardinality(Active) <= ActiveLimit

InReply == UNION {replying[h] : h \in Helpers}

\* A report reaches the user at most once, though the parent and several helpers
\* take from the same list: it is held, in one reply, or sent (9697, loop 426).
ToldOnce ==
  /\ \A h \in Helpers : told[h] <= IF h \in held \cup final \cup InReply THEN 0 ELSE 1
  /\ held \cap final = {}
  /\ (held \cup final) \cap InReply = {}
  /\ \A h, k \in Helpers : h # k => replying[h] \cap replying[k] = {}

\* "While the parent runs it writes the reply" (agent_executor.py:9839): no
\* helper sends anything before the parent has ended, and two never do at once.
ParentSpeaksFirst ==
  \A h \in Helpers : task[h] = "delivering" => ~LoopActive /\ live = {h}

\* Parent and helpers implement Reports: one voice at a time, and what it takes is its
\* own, to be said once or lost, though each awaits a model or a channel with it in hand.
Report == [h \in Helpers |->
  IF h \in held THEN "kept"
  ELSE IF h \in final \cup InReply THEN "spoken"
  ELSE IF task[h] = "ended" THEN "over"
  ELSE "due"]

Voice ==
  IF LoopActive THEN "parent"
  ELSE IF \E h \in Helpers : task[h] = "delivering" THEN "helper"
  ELSE "nobody"

Told == INSTANCE Reports WITH report <- Report, voice <- Voice

RefinesReports == Told!Spec

\* A run the user cancelled is never shown as completed, nor as running again,
\* though its runner may go on to return an answer.
KilledNeverCompletes ==
  [][\A a \in Agents : recs[a].status = "killed" =>
       recs'[a].status \in {"killed", "failed", "absent"}]_recs

\* Cancelling works in the end: the runner stops, the record gets its
\* completed_at and the helper no longer holds up the others.
CancelledStops ==
  \A a \in Agents :
    recs[a].status = "killed" ~> (task[a] = "ended" /\ a \notin live)

\* "``killed`` IS terminal (user-cancellation)" (registry.py:37).  Refuted:
\* _mark_error writes "failed" over it.
KilledIsTerminal ==
  [][\A a \in Agents : recs[a].status = "killed" => recs'[a].status \in {"killed", "absent"}]_recs

\* "Once it has ended, the last helper to finish delivers one reply for all of
\* them" (agent_executor.py:9840-9841): when none is left, no report given
\* after the parent's end is still held.  Refuted: the last one may fail.
LastHelperDelivers == (parent = "ended" /\ live = {}) => (held \cap late = {})
=============================================================================
