------------------------------ MODULE CallQueue ------------------------------
(***************************************************************************)
(* Outbound phone calls of one process (telephony/call_manager.py over     *)
(* telephony/call_queue.py).  A confirmed call is dialed at once or, when  *)
(* the phone is full or others wait, written to the queue; a pump task     *)
(* dials from the queue when a call ends.  One asyncio lock is held by a   *)
(* make_call from its duplicate check to its answer and by the pump for a  *)
(* whole pass.  Everything runs on one event loop: an action is what       *)
(* happens between two awaits, or a statement of a store's worker thread.  *)
(*                                                                         *)
(* The queue is the SQLite one, whose operations are atomic and survive a  *)
(* restart; records, tasks and the lock do not.  Admission is decided by   *)
(* the usage ledger: the repository's LocalPhoneUsage counts every open    *)
(* call (CountsAll), the hosted gate, whose code is elsewhere, those of    *)
(* the owner.  Neither suspends between its check and its start here, as   *)
(* LocalPhoneUsage does not.                                               *)
(***************************************************************************)
EXTENDS Naturals, FiniteSets

CONSTANTS
  Calls,        \* calls asked for, one make_call each
  Keys,         \* what a call is for: owner, number, task, up to _is_same_call_request
  Asks,         \* the keys a call may be asked with
  Owner,        \* the owner of a key
  Limit,        \* concurrent_limit_for_tier of an owner
  CountsAll,    \* the ledger counts the calls of all owners against the limit
  Caps,         \* values of _max_active_outbound_calls; the setting is read at a start
  NoCall,
  MaxOutside    \* bound on restarts and pauses, together

ASSUME CallQueueAssumption ==
  /\ IsFiniteSet(Calls)
  /\ NoCall \notin Calls
  /\ Asks \in [Calls -> SUBSET Keys]
  /\ Caps \subseteq Nat \ {0}

VARIABLES
  rows, at,    \* the queue's rows and their queued_at, as a rank
  ledger,      \* calls whose usage row is open and whose heartbeat is fresh
  req, key,    \* how far a make_call has come, and what it asked for
  call,        \* how far _run_call of a dialed call has come
  status,      \* its record's status: not dialed, live, or a terminal one (over)
  active,      \* _active_calls
  pump,        \* _queue_pump_task
  hand,        \* the item the pump is about to dial
  deferred,    \* its deferred_items
  cap,         \* _max_active_outbound_calls of this process
  paused,      \* _accounting_cutover_queue_paused, set by an observer
  dials,       \* history: how often a call was dialed
  fate,        \* history: a queued call was removed by its owner, or is the queue's past
  excused,     \* history: a wakeup of the pump was lost in one of the known ways
  outside      \* restarts and pauses so far

store == <<rows, at>>
calls == <<ledger, call, status, active, dials>>
pumping == <<pump, hand, deferred>>
setting == <<cap, paused, outside>>
vars == <<rows, at, ledger, req, key, call, status, active, pump, hand, deferred,
          cap, paused, dials, fate, excused, outside>>
-----------------------------------------------------------------------------
Answered == {"queued", "started", "duplicate", "refused", "cut"}
HoldingReq == {"counting", "inserting", "announcing", "dialing"}
HoldingPump == {"popping", "dialing", "restoring"}

TypeOK ==
  /\ rows \subseteq Calls /\ at \in [Calls -> Nat]
  /\ ledger \subseteq Calls
  /\ req \in [Calls -> {"none", "waiting"} \cup HoldingReq \cup Answered]
  /\ key \in [Calls -> Keys \cup {NoCall}]
  /\ call \in [Calls -> {"none", "running", "teardown", "settled", "done"}]
  /\ status \in [Calls -> {"none", "live", "over"}]
  /\ active \subseteq Calls
  /\ pump \in {"none", "waiting"} \cup HoldingPump
  /\ hand \in Calls \cup {NoCall}
  /\ deferred \subseteq Calls
  /\ paused \in BOOLEAN /\ excused \in BOOLEAN
  /\ dials \in [Calls -> Nat]
  /\ fate \in [Calls -> {"none", "removed", "past"}]
  /\ cap \in Caps /\ outside \in Nat

\* A restart of the process finds what earlier ones left in the queue: the first has
\* an empty one.
Init ==
  /\ rows = {} /\ at = [c \in Calls |-> 0]
  /\ ledger = {}
  /\ req = [c \in Calls |-> "none"] /\ key = [c \in Calls |-> NoCall]
  /\ call = [c \in Calls |-> "none"] /\ status = [c \in Calls |-> "none"]
  /\ active = {}
  /\ pump = "none" /\ hand = NoCall /\ deferred = {}
  /\ paused = FALSE
  /\ dials = [c \in Calls |-> 0] /\ fate = [c \in Calls |-> "none"]
  /\ excused = FALSE
  /\ cap \in Caps /\ outside = 0
-----------------------------------------------------------------------------
\* _queue_pump_lock
LockFree == pump \notin HoldingPump /\ \A c \in Calls : req[c] \notin HoldingReq

\* _active_outbound_call_count: a terminal record no longer occupies the phone.
LiveIn(st) == {c \in Calls : st[c] = "live"}
Live == LiveIn(status)
Full(st) == Cardinality(LiveIn(st)) >= cap

OwnerOf(c) == Owner[key[c]]
OwnersOwn(S, c) == {d \in S : OwnerOf(d) = OwnerOf(c)}

\* _user_has_outbound_capacity: the owner's live records, before the gate is asked.
HasCapacity(c) == Limit[OwnerOf(c)] = 0 \/ Cardinality(OwnersOwn(Live, c)) < Limit[OwnerOf(c)]

\* The gate counts ledger rows, which a call keeps until record_call_end.
GateFull(c) ==
  Cardinality(IF CountsAll THEN ledger ELSE OwnersOwn(ledger, c)) >= Limit[OwnerOf(c)]
Crowded(c) == GateFull(c) \/ Full(status)

\* _find_duplicate_call: a live record of the same request, or one that ended (its
\* ended_at is set in the teardown) within a window that may have passed.
LiveTwin(c) == \E d \in Live : key[d] = key[c]
PastTwin(c) ==
  \E d \in Calls : /\ key[d] = key[c] /\ status[d] = "over"
                   /\ call[d] \in {"teardown", "settled", "done"}

\* _schedule_queue_pump
Scheduled == IF ~paused /\ pump = "none" THEN "waiting" ELSE pump
Schedule == pump' = Scheduled /\ UNCHANGED <<hand, deferred>>
-----------------------------------------------------------------------------
\* make_call: prepared, it waits for the lock; in the end it answers.
Ask(c) ==
  /\ req[c] = "none"
  /\ \E k \in Asks[c] : key' = [key EXCEPT ![c] = k]
  /\ req' = [req EXCEPT ![c] = "waiting"]
  /\ UNCHANGED <<store, calls, pumping, setting, fate, excused>>

\* Mutant: the rows are counted without the lock.
EnterUnlocked(c) ==
  /\ req[c] = "waiting"
  /\ \/ (LiveTwin(c) \/ PastTwin(c)) /\ req' = [req EXCEPT ![c] = "duplicate"]
     \/ ~LiveTwin(c) /\ req' = [req EXCEPT ![c] = "counting"]
  /\ UNCHANGED <<store, calls, key, pumping, setting, fate, excused>>

\* With the lock: a duplicate is answered at once, else the rows are counted.
Enter(c) ==
  /\ req[c] = "waiting" /\ LockFree
  /\ \/ LiveTwin(c) /\ req' = [req EXCEPT ![c] = "duplicate"]
     \/ ~LiveTwin(c) /\ PastTwin(c) /\ req' = [req EXCEPT ![c] = "duplicate"]
     \/ ~LiveTwin(c) /\ req' = [req EXCEPT ![c] = "counting"]
  /\ UNCHANGED <<store, calls, key, pumping, setting, fate, excused>>

Count(c) ==
  /\ req[c] = "counting"
  /\ req' = [req EXCEPT ![c] = IF Full(status) \/ rows # {} THEN "inserting" ELSE "dialing"]
  /\ UNCHANGED <<store, calls, key, pumping, setting, fate, excused>>

\* queued_at is the time of the insertion: later than that of every call queued before.
Now == Cardinality({d \in Calls : at[d] > 0}) + 1

Insert(c) ==
  /\ req[c] = "inserting"
  /\ \/ /\ rows' = rows \cup {c} /\ at' = [at EXCEPT ![c] = Now]
        /\ req' = [req EXCEPT ![c] = "announcing"]
     \/ UNCHANGED store /\ req' = [req EXCEPT ![c] = "refused"]
  /\ UNCHANGED <<calls, key, pumping, setting, fate, excused>>

AnswerQueued(c) ==
  /\ req[c] = "announcing"
  /\ req' = [req EXCEPT ![c] = "queued"]
  /\ Schedule
  /\ UNCHANGED <<store, calls, key, setting, fate, excused>>

\* _make_call_unqueued, once its checks of consent, terms and number let it through.
Start(c) ==
  /\ ~LiveTwin(c) /\ ~Crowded(c)
  /\ status' = [status EXCEPT ![c] = "live"]
  /\ call' = [call EXCEPT ![c] = "running"]
  /\ active' = active \cup {c}
  /\ ledger' = ledger \cup {c}
  /\ dials' = [dials EXCEPT ![c] = @ + 1]

DialNow(c) ==
  /\ req[c] = "dialing"
  /\ \/ Start(c) /\ req' = [req EXCEPT ![c] = "started"]
     \/ (LiveTwin(c) \/ PastTwin(c)) /\ UNCHANGED calls /\ req' = [req EXCEPT ![c] = "duplicate"]
     \/ UNCHANGED calls /\ req' = [req EXCEPT ![c] = "refused"]
  /\ UNCHANGED <<store, key, pumping, setting, fate, excused>>

\* remove_queued_call does not take the lock; what the pump holds it cannot see.
Remove(c) ==
  /\ c \in rows
  /\ rows' = rows \ {c}
  /\ fate' = [fate EXCEPT ![c] = "removed"]
  /\ UNCHANGED <<at, calls, req, key, pumping, setting, excused>>
-----------------------------------------------------------------------------
\* _start_next_queued_call_if_idle.  The head of its loop, and its end: what was
\* deferred is put back, and the task is done.
Rest(def) == IF def = {} THEN "none" ELSE "restoring"

\* Mutant: it ends without putting back what was deferred.
LoopForgets(st, def) == IF paused \/ Full(st) THEN "none" ELSE "popping"

LoopHead(st, def) == IF paused \/ Full(st) THEN Rest(def) ELSE "popping"

PumpEnter ==
  /\ pump = "waiting"
  /\ \/ paused /\ pump' = "none" /\ UNCHANGED excused
     \/ ~paused /\ LockFree /\ pump' = LoopHead(status, {}) /\ excused' = FALSE
  /\ UNCHANGED <<store, calls, req, key, hand, deferred, setting, fate>>

\* Mutant: the row goes only when its call has been dialed.
PopPeeks(c) ==
  /\ pump = "popping"
  /\ c \in rows /\ \A d \in rows : at[c] <= at[d]
  /\ HasCapacity(c) /\ pump' = "dialing" /\ hand' = c
  /\ UNCHANGED <<rows, at, calls, req, key, deferred, setting, fate, excused>>

\* pop_next takes the oldest row out of the queue, in one transaction.
Pop(c) ==
  /\ pump = "popping"
  /\ c \in rows /\ \A d \in rows : at[c] <= at[d]
  /\ rows' = rows \ {c}
  /\ IF HasCapacity(c)
     THEN pump' = "dialing" /\ hand' = c /\ UNCHANGED <<deferred, excused>>
     ELSE /\ deferred' = deferred \cup {c} /\ excused' = TRUE
          /\ pump' = LoopHead(status, deferred \cup {c}) /\ UNCHANGED hand
  /\ UNCHANGED <<at, calls, req, key, setting, fate>>

\* Nothing left, or the store fails: the pass ends.
PopNone ==
  /\ pump = "popping"
  /\ \/ rows = {} /\ UNCHANGED excused
     \/ excused' = TRUE
  /\ pump' = Rest(deferred)
  /\ UNCHANGED <<store, calls, req, key, hand, deferred, setting, fate>>

\* Mutant: a call that cannot be started goes back into the queue.
PumpDialRetries(c) ==
  /\ pump = "dialing" /\ hand = c
  /\ \/ Start(c) /\ fate' = [fate EXCEPT ![c] = "past"] /\ UNCHANGED rows
     \/ UNCHANGED <<calls, fate>> /\ rows' = rows \cup {c}
  /\ hand' = NoCall /\ pump' = LoopHead(status', deferred)
  /\ UNCHANGED <<at, req, key, deferred, setting, excused>>

\* A call that is a duplicate, or cannot be started for whatever reason, is skipped.
PumpDial(c) ==
  /\ pump = "dialing" /\ hand = c
  /\ Start(c) \/ UNCHANGED calls
  /\ fate' = [fate EXCEPT ![c] = "past"]
  /\ hand' = NoCall
  /\ pump' = LoopHead(status', deferred)
  /\ UNCHANGED <<store, req, key, deferred, setting, excused>>

\* Its queued_at goes back with it, so its place does; a failure is logged.
Restore(c) ==
  /\ pump = "restoring" /\ c \in deferred
  /\ \/ rows' = rows \cup {c} /\ UNCHANGED fate
     \/ fate' = [fate EXCEPT ![c] = "past"] /\ UNCHANGED rows
  /\ deferred' = deferred \ {c}
  /\ pump' = Rest(deferred \ {c})
  /\ UNCHANGED <<at, calls, req, key, hand, setting, excused>>
-----------------------------------------------------------------------------
\* _run_call.  The status turns terminal while the body still has work to do: the
\* summary, the follow-ups.
StatusEnds(c) ==
  /\ call[c] = "running" /\ status[c] = "live"
  /\ status' = [status EXCEPT ![c] = "over"]
  /\ UNCHANGED <<store, ledger, call, active, dials, req, key, pumping, setting, fate, excused>>

\* A hangup that was not confirmed leaves the status as it is.
EndBody(c) ==
  /\ call[c] = "running"
  /\ call' = [call EXCEPT ![c] = "teardown"]
  /\ UNCHANGED <<store, ledger, status, active, dials, req, key, pumping, setting, fate, excused>>

\* record_call_end may fail.
Settle(c) ==
  /\ call[c] = "teardown"
  /\ call' = [call EXCEPT ![c] = "settled"]
  /\ ledger' \in {ledger, ledger \ {c}}
  /\ UNCHANGED <<store, status, active, dials, req, key, pumping, setting, fate, excused>>

\* Mutant: the record goes and nobody wakes the pump.
CloseQuietly(c) ==
  /\ call[c] = "settled"
  /\ call' = [call EXCEPT ![c] = "done"]
  /\ active' = IF status[c] = "over" THEN active \ {c} ELSE active
  /\ UNCHANGED <<store, ledger, status, dials, req, key, pumping, setting, fate, excused>>

\* The end of the teardown: a record with a terminal status goes, and the pump is woken.
Close(c) ==
  /\ call[c] = "settled"
  /\ call' = [call EXCEPT ![c] = "done"]
  /\ IF status[c] = "over"
     THEN active' = active \ {c} /\ Schedule
     ELSE UNCHANGED <<active, pumping>>
  /\ UNCHANGED <<store, ledger, status, dials, req, key, setting, fate, excused>>

\* A heartbeat that stopped (in the teardown, or with the process) runs out.
GoStale(c) ==
  /\ c \in ledger /\ call[c] # "running"
  /\ ledger' = ledger \ {c}
  /\ UNCHANGED <<store, call, status, active, dials, req, key, pumping, setting, fate, excused>>

\* end_call: cancels a task that is not done.  In the body the cancellation leads to
\* the teardown; in the teardown it cuts the rest of it, unless a suppress takes it.
HangUp(c) ==
  /\ c \in active
  /\ active' = active \ {c}
  /\ status' = [status EXCEPT ![c] = "over"]
  /\ \/ /\ call[c] = "running" /\ call' = [call EXCEPT ![c] = "teardown"]
        /\ UNCHANGED <<pumping, excused>>
     \/ /\ call[c] \in {"teardown", "settled"}
        /\ \/ call' = [call EXCEPT ![c] = "done"] /\ excused' = TRUE
           \/ UNCHANGED <<call, excused>>
        /\ UNCHANGED pumping
     \/ /\ call[c] = "done" /\ Schedule
        /\ UNCHANGED <<call, excused>>
  /\ UNCHANGED <<store, ledger, dials, req, key, setting, fate>>
-----------------------------------------------------------------------------
\* An observer pauses the queue, and wakes the pump when it resumes it.
Pause ==
  /\ ~paused /\ outside < MaxOutside
  /\ paused' = TRUE /\ outside' = outside + 1
  /\ UNCHANGED <<store, calls, req, key, pumping, cap, fate, excused>>

Resume ==
  /\ paused
  /\ paused' = FALSE
  /\ pump' = IF pump = "none" THEN "waiting" ELSE pump
  /\ UNCHANGED <<store, calls, req, key, hand, deferred, cap, outside, fate, excused>>

\* The process dies, and a new CallManager is made.
Held == deferred \cup ({hand} \cap Calls)

Restart ==
  /\ outside < MaxOutside /\ outside' = outside + 1
  /\ cap' \in Caps
  /\ req' = [c \in Calls |-> IF req[c] \in {"waiting"} \cup HoldingReq THEN "cut" ELSE req[c]]
  /\ call' = [c \in Calls |-> "none"] /\ status' = [c \in Calls |-> "none"]
  /\ active' = {}
  /\ fate' = [c \in Calls |-> IF c \in Held THEN "past" ELSE fate[c]]
  /\ pump' = "waiting" /\ hand' = NoCall /\ deferred' = {}
  /\ paused' = FALSE
  /\ excused' = FALSE
  /\ UNCHANGED <<store, ledger, dials, key>>
-----------------------------------------------------------------------------
MakeCall(c) == Enter(c) \/ Count(c) \/ Insert(c) \/ AnswerQueued(c) \/ DialNow(c)
RunCall(c) == EndBody(c) \/ Settle(c) \/ Close(c)
Pump == PumpEnter \/ PopNone \/ \E c \in Calls : Pop(c) \/ PumpDial(c) \/ Restore(c)

Next ==
  \/ \E c \in Calls : \/ Ask(c) \/ MakeCall(c) \/ Remove(c) \/ HangUp(c)
                      \/ StatusEnds(c) \/ RunCall(c) \/ GoStale(c)
  \/ Pump \/ Pause \/ Resume \/ Restart

\* The event loop runs what is ready, and a call ends: it has a maximal duration.
\* Users, the observer and crashes owe nothing.
Fairness ==
  /\ \A c \in Calls : WF_vars(MakeCall(c)) /\ WF_vars(RunCall(c))
  /\ WF_vars(Pump)

Spec == Init /\ [][Next]_vars /\ Fairness
-----------------------------------------------------------------------------
\* A call is dialed at most once, whatever is retried or restarted, and never after
\* its owner removed it: the pump takes the row out before it dials (call_queue.py:282).
DialedOnce ==
  \A c \in Calls : dials[c] <= (IF fate[c] = "removed" THEN 0 ELSE 1)

\* A call whose owner was told it is queued is in the queue, with the pump, or has met
\* its one end; nothing the pump sets aside is forgotten (call_manager.py:5386).
NothingVanishes ==
  /\ \A c \in Calls : req[c] = "queued" =>
       (fate[c] = "none" <=> c \in rows \cup Held)
  /\ rows \cap Held = {} /\ hand \notin deferred
  /\ pump \in {"none", "waiting"} => Held = {}

\* "anything is already queued (FIFO)" (call_manager.py:5088): a call is dialed past the
\* queue only while nobody waits, in the rows or in the hands of the pump, which the
\* count of the rows does not show (5105, 5110).
JumpsNoQueue ==
  \A c \in Calls : req[c] = "dialing" => rows \cup Held = {}

\* A row that waits while there is a free slot will be looked at: the pump is under
\* way, or a call that is being wrapped up or an enqueue will wake it.  Known
\* exceptions, since the last pass began: its store failed, it deferred a call, or a
\* teardown was cut short (call_manager.py:4345, 7683).
WakeupComing ==
  rows # {} /\ ~Full(status) /\ pump = "none" /\ ~paused /\ ~excused =>
    \E c \in Calls : \/ req[c] = "announcing"
                     \/ status[c] = "over" /\ call[c] \in {"running", "teardown", "settled"}

\* What has become of a call, as CallBook sees it.
Book == [c \in Calls |->
  IF c \in rows \cup Held THEN "waiting"
  ELSE IF dials[c] > 0 THEN "dialed"
  ELSE IF fate[c] # "none" \/ req[c] \in {"duplicate", "refused", "cut"} THEN "gone"
  ELSE "open"]

Promise == INSTANCE CallBook
             WITH book <- Book, rank <- at, aside <- deferred, talking <- Live, lines <- cap

\* The calls behave as CallBook promises: one end for each, no jump over the queue, and
\* first come first dialed but for the owners who are at their limit.
RefinesCallBook == Promise!Spec

\* Every make_call is answered: nobody keeps the lock, and a pass of the pump ends
\* though it sets aside what it cannot dial (call_manager.py:5331-5396).  There are
\* finitely many requests, so a time comes when none is under way.
EveryRequestIsAnswered ==
  <>[](\A c \in Calls : req[c] \in {"none"} \cup Answered)

\* "Call queued. It will dial automatically when the current call ends."
\* (intent/tools/phone_call.py:1720): a row does not stay for ever.
QueuedCallsMove == \A c \in Calls : c \in rows ~> c \notin rows

\* "keep the item queued (NOT dropped)" (call_manager.py:5358): a queued call that only
\* wants a free line is not given up.
NotDropped ==
  [][\A c \in Calls : hand = c /\ hand' = NoCall /\ outside' = outside /\ ~LiveTwin(c)
                        => ~Crowded(c)]_vars
=============================================================================
