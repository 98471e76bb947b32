------------------------------ MODULE Approval ------------------------------
(***************************************************************************)
(* Deferred confirmations (intent/approval.py): a question that cannot be  *)
(* answered inline is kept for a later turn, and a later run of the        *)
(* executor that issues the same call again acts on it.  This is the store *)
(* of one signed-in user, which all of the user's runs share: turns of     *)
(* several chats, background helpers, tasks resumed from a checkpoint.     *)
(*                                                                         *)
(* Runs interleave at an await only: while a channel is asked, while the   *)
(* user's words are classified, and between two tool calls.  The store's   *)
(* calls have none and are atomic.  Calls that no gate holds up (safe or   *)
(* pre-approved ones) never reach the store and are left out.              *)
(*                                                                         *)
(* time.monotonic() is abstracted to what is compared with it: a question  *)
(* was asked since a run started iff that run had begun when it was last   *)
(* asked (the set heard), and it may expire at any moment.                 *)
(***************************************************************************)
EXTENDS FiniteSets

CONSTANTS
  Runs,      \* runs of the executor: turns (a message, a scheduled task) and helpers
  Helpers,   \* those that start_agent began in the background of a turn
  Scopes,    \* conversations: the main one and the chats
  ScopeOf,   \* the conversation of a run; a helper has its parent's
  Calls,     \* tool calls, up to the fingerprint of their arguments
  Extends,   \* <<new, old>>: same description, old's arguments and some more
  Ids,       \* confirmation ids; uuid4 never repeats one
  None       \* no call, no chat, no run

ASSUME ApprovalAssumption ==
  /\ Helpers \subseteq Runs
  /\ ScopeOf \in [Runs -> Scopes]
  /\ Extends \subseteq Calls \X Calls
  /\ None \notin Calls

VARIABLES
  run,       \* what a run is doing, and the task id it runs under
  pending,   \* store.confirmations, by id: the open ones; those past are history
  acted,     \* history: the actions let through by questions, and which ones
  cancelled  \* history: ids of questions the user cancelled

vars == <<run, pending, acted, cancelled>>
-----------------------------------------------------------------------------
\* asking: consume found nothing, the user is to be asked; judging: a question was
\* used, and holds under taint only if the user's own words affirm it; ending: the
\* question was deferred, which ends the turn.
Idling == {"new", "live", "ending", "over"}

Run == [stage : Idling, task : Runs, call : {None}, by : {{}}]
       \cup [stage : {"asking"}, task : Runs, call : Calls, by : {{}}]
       \cup [stage : {"judging"}, task : Runs, call : Calls, by : SUBSET Ids]

\* task is created_task_id, scope the chat; askers, the runs that asked it, is history.
Unasked ==
  [state |-> "unused", call |-> None, scope |-> None, task |-> None, heard |-> {}, askers |-> {}]

Question ==
  {Unasked} \cup [state : {"open", "past"}, call : Calls, scope : Scopes, task : Runs,
                  heard : SUBSET Runs, askers : SUBSET Runs]

Action == [run : Runs, call : Calls, by : SUBSET Ids]

Begun == {r \in Runs : run[r].stage # "new"}

Becomes(r, stage, c, ids) ==
  run' = [run EXCEPT ![r] = [stage |-> stage, task |-> @.task, call |-> c, by |-> ids]]

To(r, stage) == Becomes(r, stage, None, {})

\* Mutant: the store is per user only.
AnswerableAnywhere(r) ==
  {i \in Ids : pending[i].state = "open" /\ pending[i].task # run[r].task}

\* The open questions of r's conversation that another task asked: a turn is not
\* an answer to its own question.  A question the approval bridge asks without a
\* created_task_id (135), which skips this comparison (652, 707), is left out.
Answerable(r) ==
  {i \in Ids : /\ pending[i].state = "open"
               /\ pending[i].scope = ScopeOf[r]
               /\ pending[i].task # run[r].task}

\* Same arguments, or same description with every argument asked about kept.
Fits(new, old) == new = old \/ <<new, old>> \in Extends

\* store.confirmations.pop.
Drop(ids) ==
  pending' = [i \in Ids |-> IF i \in ids THEN [pending[i] EXCEPT !.state = "past"] ELSE pending[i]]

Open == {i \in Ids : pending[i].state = "open"}
-----------------------------------------------------------------------------
Init ==
  /\ run = [r \in Runs |-> [stage |-> "new", task |-> r, call |-> None, by |-> {}]]
  /\ pending = [i \in Ids |-> Unasked]
  /\ acted = {}
  /\ cancelled = {}

(***************************************************************************)
(* A run begins, by a message in its chat or by start_agent.               *)
(***************************************************************************)
Begin(r) ==
  /\ run[r].stage = "new"
  /\ r \in Helpers =>
       \E p \in Runs \ Helpers : run[p].stage = "live" /\ ScopeOf[p] = ScopeOf[r]
  /\ To(r, "live")
  /\ UNCHANGED <<pending, acted, cancelled>>

\* A checkpoint is resumed: the new run takes over the task id of one that is over.
Resume(r, old) ==
  /\ run[r].stage = "new" /\ r \notin Helpers
  /\ run[old].stage = "over" /\ old \notin Helpers /\ ScopeOf[old] = ScopeOf[r]
  /\ run' = [run EXCEPT ![r] = [stage |-> "live", task |-> run[old].task, call |-> None, by |-> {}]]
  /\ UNCHANGED <<pending, acted, cancelled>>

(***************************************************************************)
(* consume_deferred_confirmation.                                          *)
(***************************************************************************)
\* Mutant: a used question stays in the store.
ConsumeMatchingKeeps(r, c) ==
  LET ids == {i \in Answerable(r) : Fits(c, pending[i].call)} IN
  /\ run[r].stage = "live" /\ ids # {}
  /\ Becomes(r, "judging", c, ids)
  /\ UNCHANGED <<pending, acted, cancelled>>

\* _consume_matching_deferred_confirmation: the call is issued again with no token
\* and uses every question it fits.
ConsumeMatching(r, c) ==
  LET ids == {i \in Answerable(r) : Fits(c, pending[i].call)} IN
  /\ run[r].stage = "live" /\ ids # {}
  /\ Drop(ids)
  /\ Becomes(r, "judging", c, ids)
  /\ UNCHANGED <<acted, cancelled>>

\* The call carries the question's id and "confirmed": the same arguments only.
Confirm(r, i) ==
  /\ run[r].stage = "live" /\ i \in Answerable(r)
  /\ Drop({i})
  /\ Becomes(r, "judging", pending[i].call, {i})
  /\ UNCHANGED <<acted, cancelled>>

\* Mutant: a cancelled question stays in the store.
CancelLeavesOpen(r, i) ==
  /\ run[r].stage = "live" /\ i \in Answerable(r)
  /\ cancelled' = cancelled \cup {i}
  /\ UNCHANGED <<run, pending, acted>>

\* The call carries the question's id and "not confirmed": terminal, like a yes.
Cancel(r, i) ==
  /\ run[r].stage = "live" /\ i \in Answerable(r)
  /\ Drop({i})
  /\ cancelled' = cancelled \cup {i}
  /\ UNCHANGED <<run, acted>>

\* confirmation_holds_under_taint.  Outside taint it holds, and at once.
Judge(r, holds) ==
  /\ run[r].stage = "judging"
  /\ To(r, "live")
  /\ acted' = IF holds THEN acted \cup {[run |-> r, call |-> run[r].call, by |-> run[r].by]}
              ELSE acted
  /\ UNCHANGED <<pending, cancelled>>

(***************************************************************************)
(* request_approval of a call no question answers.                         *)
(***************************************************************************)
Unanswered(r, c) ==
  /\ run[r].stage = "live"
  /\ \A i \in Answerable(r) : ~Fits(c, pending[i].call)
  /\ Becomes(r, "asking", c, {})
  /\ UNCHANGED <<pending, acted, cancelled>>

\* The channel was asked and its answer classified: the call goes through or not.
Answered(r) ==
  /\ run[r].stage = "asking"
  /\ To(r, "live")
  /\ UNCHANGED <<pending, acted, cancelled>>

Twins(r) == {i \in Open : pending[i].scope = ScopeOf[r] /\ pending[i].call = run[r].call}

\* Mutant: the turn goes on after its question was deferred.
AskAgainGoesOn(r, i) ==
  /\ run[r].stage = "asking"
  /\ i \in Twins(r)
  /\ pending' = [pending EXCEPT ![i].task = run[r].task, ![i].heard = Begun,
                                ![i].askers = @ \cup {r}]
  /\ To(r, "live")
  /\ UNCHANGED <<acted, cancelled>>

\* defer_confirmation of a question that is open: it becomes this turn's question.
AskAgain(r, i) ==
  /\ run[r].stage = "asking"
  /\ i \in Twins(r)
  /\ pending' = [pending EXCEPT ![i].task = run[r].task, ![i].heard = Begun,
                                ![i].askers = @ \cup {r}]
  /\ To(r, "ending")
  /\ UNCHANGED <<acted, cancelled>>

\* defer_confirmation of a new question.
Ask(r, i) ==
  /\ run[r].stage = "asking"
  /\ Twins(r) = {} /\ pending[i] = Unasked
  /\ pending' = [pending EXCEPT ![i] =
       [state |-> "open", call |-> run[r].call, scope |-> ScopeOf[r], task |-> run[r].task,
        heard |-> Begun, askers |-> {r}]]
  /\ To(r, "ending")
  /\ UNCHANGED <<acted, cancelled>>

(***************************************************************************)
(* A run ends, and a question expires.                                     *)
(***************************************************************************)
\* Mutant: a turn that asked something itself leaves the older questions.
EndKeepsOlder(r) ==
  /\ run[r].stage \in {"live", "ending"}
  /\ To(r, "over")
  /\ IF r \in Helpers \/ run[r].stage = "ending" THEN UNCHANGED pending
     ELSE Drop({i \in Open : pending[i].scope = ScopeOf[r] /\ r \notin pending[i].heard})
  /\ UNCHANGED <<acted, cancelled>>

\* _finalize_log: retire_unanswered_confirmations, which a helper skips.
End(r) ==
  /\ run[r].stage \in {"live", "ending"}
  /\ To(r, "over")
  /\ IF r \in Helpers THEN UNCHANGED pending
     ELSE Drop({i \in Open : pending[i].scope = ScopeOf[r] /\ r \notin pending[i].heard})
  /\ UNCHANGED <<acted, cancelled>>

\* expires_at passes: every reader prunes first, so the question is gone.
Expire(i) ==
  /\ i \in Open
  /\ Drop({i})
  /\ UNCHANGED <<run, acted, cancelled>>
-----------------------------------------------------------------------------
Consume(r) ==
  \/ \E c \in Calls : ConsumeMatching(r, c)
  \/ \E i \in Ids : Confirm(r, i) \/ Cancel(r, i)
  \/ \E holds \in BOOLEAN : Judge(r, holds)

Request(r) ==
  \/ \E c \in Calls : Unanswered(r, c)
  \/ Answered(r)
  \/ \E i \in Ids : AskAgain(r, i) \/ Ask(r, i)

Next ==
  \/ \E r \in Runs : Begin(r) \/ (\E old \in Runs : Resume(r, old)) \/ Consume(r) \/ Request(r) \/ End(r)
  \/ \E i \in Ids : Expire(i)

Spec == Init /\ [][Next]_vars
-----------------------------------------------------------------------------
TypeOK ==
  /\ run \in [Runs -> Run]
  /\ pending \in [Ids -> Question]
  /\ acted \subseteq Action
  /\ cancelled \subseteq Ids

\* One yes, one action: no two runs act, or are about to, on the same question,
\* however their calls and the wait for the classifier interleave.
OneShot ==
  /\ \A r \in Runs : \A i \in run[r].by :
       /\ pending[i].state = "past"
       /\ \A s \in Runs \ {r} : i \notin run[s].by
       /\ \A a \in acted : i \notin a.by
  /\ \A a, b \in acted : a # b => a.by \cap b.by = {}

\* A question is used by a call it fits, from the chat it was asked in: asking for
\* the same thing in another chat does not answer it (141-148).
AnswersItsQuestion ==
  \A a \in acted : \A i \in a.by :
    pending[i].scope = ScopeOf[a.run] /\ Fits(a.call, pending[i].call)

\* No run acts on a question it asked itself, also when another run of the chat
\* has asked the same since and the question carries that one's task id.
NeverItsOwnAnswer ==
  \A a \in acted : \A i \in a.by : a.run \notin pending[i].askers

\* A cancelled question lets nothing through any more.
CancelIsFinal == \A a \in acted : a.by \cap cancelled = {}

\* "A pending yes/no is good for the very next turn": none is open that was asked
\* before a turn of its chat that is over.
OneTurnOnly ==
  \A i \in Open : \A r \in Runs \ Helpers :
    run[r].stage = "over" /\ ScopeOf[r] = pending[i].scope => r \in pending[i].heard

\* The store and the runs implement Confirmation: whatever interleaves, a question is
\* used once or closed, by one run, which acts within what was asked or not at all.
Asked == [i \in Ids |-> [state |-> pending[i].state, call |-> pending[i].call,
                        scope |-> pending[i].scope, askers |-> pending[i].askers]]
Using == [r \in Runs |-> IF run[r].stage = "judging" THEN [call |-> run[r].call, by |-> run[r].by]
                         ELSE [call |-> None, by |-> {}]]

Rule == INSTANCE Confirmation WITH question <- Asked, using <- Using

RefinesConfirmation == Rule!Spec

\* "Create a pending approval that the next conversational turn can satisfy": the
\* run that acts on a question is a turn of the user that began after it was asked.
NextTurnAnswers ==
  \A a \in acted : \A i \in a.by : a.run \notin Helpers /\ a.run \notin pending[i].heard
=============================================================================
