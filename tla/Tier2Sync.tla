------------------------------ MODULE Tier2Sync ------------------------------
(***************************************************************************)
(* One user's Tier-2 sync: devices that author mutations offline           *)
(* (services/sync/client.py), the server transaction that resolves, stamps *)
(* and journals a write (services/sync_surfaces/base.py, conflict.py,      *)
(* engine.py, journal.py), the cloud's own writes through the same         *)
(* transaction, and consent withdrawal, which purges the rows and advances *)
(* the consent era (consent.py).                                           *)
(*                                                                         *)
(* The HTTP routes of /v1/sync are not in the repository: a push of one    *)
(* mutation is one call, whose answer says what client.py classifies; a    *)
(* pull returns the journal past a cursor with the current rows.  A device *)
(* runs one sync_once at a time, and may give up on a call that the server *)
(* is still serving.  A mutation stands for its payload.                   *)
(*                                                                         *)
(* The keys of schedules and of proactive tasks are drawn by the database  *)
(* (generated_pk): a push that names a row no one made is rejected, and a  *)
(* push without a key makes another row each time it is served.            *)
(***************************************************************************)
EXTENDS Integers, FiniteSets

CONSTANTS
  Devices,    \* device ids
  Cloud,      \* CLOUD_ACTOR_ID, the actor of the server's own writes
  Entities,   \* the rows of a surface
  Strict,     \* those of a surface in STRICT_CONFLICT_SYNC_SURFACES
  Generated,  \* those of a surface with generated_pk; bound: so many can be made
  CloudRows,  \* those the cloud itself writes
  Mutations,  \* mutation ids, each authored at most once
  Calls,      \* bound: calls in progress
  MaxEra,     \* bound: consent withdrawals considered
  None        \* no row, no call, no mutation

ASSUME Tier2Assumption ==
  /\ Strict \subseteq Entities
  /\ Generated \subseteq Strict
  /\ CloudRows \subseteq Entities \ Generated
  /\ MaxEra \in Nat
  /\ Cloud \notin Devices
  /\ None \notin Devices \cup {Cloud} \cup Mutations \cup Calls \cup Entities

Actors == Devices \cup {Cloud}

Above == INSTANCE VersionVector

VARIABLES
  consent,   \* the consent_cloud_sync row: TRUE, FALSE
  era,       \* its consent_generation
  seq,       \* the sequence sync_commit_seq
  table,     \* the surface's rows
  journal,   \* sync_change_journal
  call,      \* the writes being requested, served or answered
  waits,     \* per device, the push its client awaits
  cursor,    \* per device, the pull cursor of its cache
  local,     \* per device, its copy of each row
  authored,  \* the mutations made so far, as they wait in the outbox
  outbox,    \* per device, its pending mutations
  known,     \* per device, the era it stamps
  clock,     \* physical time: ticks at each hlc_now
  applied    \* history: how often each mutation was written to the table

consents == <<consent, era>>
rows == <<seq, table, journal, applied>>
cache == <<cursor, local>>
pending == <<authored, outbox>>
vars == <<consents, rows, call, waits, cache, pending, known, clock>>
-----------------------------------------------------------------------------
\* mid is None for a row the cloud wrote: that id matches no mutation's.
Row == [vv : Above!Vector, hlc : Nat, actor : Actors, mid : Mutations \cup {None},
        deleted : BOOLEAN, seq : Nat]

\* A device's copy: the commit_seq it reflects, and the base of its next edit.
Copy == [seq : Nat, vv : Above!Vector]

\* What a pull reads of a sync_change_journal entry.
Entry == [seq : Nat, entity : Entities, op : {"upsert", "delete"}]

\* A PendingMutation with the vector and the clock _build_body will send;
\* since is the era in force when it was authored.  A creation has no entity:
\* the key is left to the database.
Edit == [device : Devices, entity : Entities \cup {None}, op : {"upsert", "delete"},
         vv : Above!Vector, hlc : Nat, since : Nat]

Answers == {"applied", "conflict", "rejected", "stale", "consent_required"}

Call == [stage : {"sent", "locked", "written"} \cup Answers, device : Actors,
         mid : Mutations \cup {None}, entity : Entities \cup {None}, era : Nat,
         row : Row \cup {None}]

ASSUME NoneAssumption == None \notin Row \cup Edit \cup Call

\* Mutant: the consent row is locked by the write, not by the check before it.
LocksLate(c) == call[c] # None /\ call[c].stage = "written"

Locks(c) == call[c] # None /\ call[c].stage \in {"locked", "written"}

LockHeld == \E c \in Calls : Locks(c)
-----------------------------------------------------------------------------
Init ==
  /\ consent = TRUE
  /\ era = 0
  /\ seq = 0
  /\ table = [e \in Entities |-> None]
  /\ journal = {}
  /\ call = [c \in Calls |-> None]
  /\ waits = [d \in Devices |-> None]
  /\ cursor = [d \in Devices |-> 0]
  /\ local = [d \in Devices |-> [e \in Entities |-> [seq |-> 0, vv |-> Above!Zero]]]
  /\ authored = [m \in Mutations |-> None]
  /\ outbox = [d \in Devices |-> {}]
  /\ known = [d \in Devices |-> 0]
  /\ clock = 0
  /\ applied = [m \in Mutations |-> 0]

(***************************************************************************)
(* A device.                                                               *)
(***************************************************************************)
Base(d, e) == IF e = None THEN Above!Zero ELSE local[d][e].vv

\* The user edits a row, or makes one; the mutation is queued on top of the
\* device's copy, with the clock of the edit (PendingMutation.lww_hlc; one queued
\* without a clock, which each push would mint anew, is left out).
Author(d, m, e, op) ==
  /\ authored[m] = None
  /\ clock' = clock + 1
  /\ authored' = [authored EXCEPT ![m] =
       [device |-> d, entity |-> e, op |-> op, hlc |-> clock + 1, since |-> era,
        vv |-> Above!vv_bump(Base(d, e), d)]]
  /\ outbox' = [outbox EXCEPT ![d] = @ \cup {m}]
  /\ UNCHANGED <<consents, rows, call, waits, cache, known>>

\* push_once: the body is stamped with the era the device knows now.
Push(d, c, m) ==
  /\ waits[d] = None /\ call[c] = None
  /\ m \in outbox[d]
  /\ call' = [call EXCEPT ![c] =
       [stage |-> "sent", device |-> d, mid |-> m, entity |-> authored[m].entity,
        era |-> known[d], row |-> None]]
  /\ waits' = [waits EXCEPT ![d] = c]
  /\ UNCHANGED <<consents, rows, cache, pending, known, clock>>

\* The client's timeout.  The server may go on, and its answer is lost.
GiveUp(d) ==
  /\ waits[d] # None
  /\ waits' = [waits EXCEPT ![d] = None]
  /\ call' = IF call[waits[d]].stage \in Answers
             THEN [call EXCEPT ![waits[d]] = None] ELSE call
  /\ UNCHANGED <<consents, rows, cache, pending, known, clock>>

\* apply_pulled: a deleted row leaves the cache, and with it the edit's base.
CopyOf(row) == [seq |-> row.seq, vv |-> IF row.deleted THEN Above!Zero ELSE row.vv]

Resolved(d, m) == outbox' = [outbox EXCEPT ![d] = @ \ {m}]

\* _classify_push: applied and conflict clear the mutation, a conflict installs
\* the server's row; a rejected one goes to the dead letters, or stays queued if
\* it was pushed again by _retry_stale; stale leaves it queued and refreshes the
\* era, if it can.
Classify(d) ==
  /\ waits[d] # None
  /\ LET answer == call[waits[d]]
     IN  \/ /\ answer.stage = "applied"
            /\ Resolved(d, answer.mid)
            /\ UNCHANGED <<local, known>>
         \/ /\ answer.stage = "conflict"
            /\ Resolved(d, answer.mid)
            /\ local' = [local EXCEPT ![d] = [@ EXCEPT ![answer.entity] = CopyOf(answer.row)]]
            /\ UNCHANGED known
         \/ /\ answer.stage = "rejected"
            /\ Resolved(d, answer.mid) \/ UNCHANGED outbox
            /\ UNCHANGED <<local, known>>
         \/ /\ answer.stage = "stale"
            /\ \/ consent /\ known' = [known EXCEPT ![d] = era]
               \/ UNCHANGED known
            /\ UNCHANGED <<local, outbox>>
         \/ /\ answer.stage = "consent_required"
            /\ UNCHANGED <<local, known, outbox>>
  /\ call' = [call EXCEPT ![waits[d]] = None]
  /\ waits' = [waits EXCEPT ![d] = None]
  /\ UNCHANGED <<consents, rows, cursor, authored, clock>>

\* Mutant: any deletion on the page pops the row, not only the last entry.
PulledAny(page, e) ==
  LET gone == {j \in page : j.entity = e /\ j.op = "delete"}
  IN  IF gone = {} THEN CopyOf(table[e])
      ELSE [seq |-> (CHOOSE j \in gone : TRUE).seq, vv |-> Above!Zero]

\* apply_pulled for what a page says of a row: its last entry counts, and the
\* row is popped if that entry, or the row that now goes with it, is a deletion.
Pulled(page, e) ==
  LET gone == {j \in page : /\ j.entity = e /\ j.op = "delete"
                            /\ \A k \in page : k.entity = e => k.seq <= j.seq}
  IN  IF gone = {} THEN CopyOf(table[e])
      ELSE [seq |-> (CHOOSE j \in gone : TRUE).seq, vv |-> Above!Zero]

\* One page of pull_once: the journal from the cursor up to n, with the rows as
\* they are now; the page brings the era along if the consent row is on it.
Pull(d, n) ==
  /\ consent /\ waits[d] = None
  /\ LET page == {j \in journal : cursor[d] < j.seq /\ j.seq <= n}
     IN  /\ \E j \in page : j.seq = n
         /\ local' = [local EXCEPT ![d] = [e \in Entities |->
                        IF \E j \in page : j.entity = e THEN Pulled(page, e) ELSE @[e]]]
  /\ cursor' = [cursor EXCEPT ![d] = n]
  /\ known' \in {known, [known EXCEPT ![d] = era]}
  /\ UNCHANGED <<consents, rows, call, waits, pending, clock>>

(***************************************************************************)
(* The server's write transaction.                                         *)
(***************************************************************************)
\* The cloud itself writes a row through upsert_surface or delete_surface (a
\* profile, a user model, metadata, queue items): no incoming mutation.
CloudCall(c, e) ==
  /\ call[c] = None
  /\ call' = [call EXCEPT ![c] =
       [stage |-> "sent", device |-> Cloud, mid |-> None, entity |-> e, era |-> era,
        row |-> None]]
  /\ UNCHANGED <<consents, rows, waits, cache, pending, known, clock>>

Answer(c, answer, row) ==
  call' = [call EXCEPT ![c] = IF \E d \in Devices : waits[d] = c
                              THEN [@ EXCEPT !.stage = answer, !.row = row] ELSE None]

\* Mutant: only the era is compared, the consent itself is not looked at.
LockBlindly(c) ==
  /\ call[c] # None /\ call[c].stage = "sent"
  /\ ~LockHeld
  /\ IF call[c].device # Cloud /\ call[c].era < era THEN Answer(c, "stale", None)
     ELSE call' = [call EXCEPT ![c] = [@ EXCEPT !.stage = "locked"]]
  /\ UNCHANGED <<consents, rows, waits, cache, pending, known, clock>>

\* has_cloud_sync_consent_locked: SELECT ... FOR UPDATE on the consent row.  The
\* route (external) then compares the eras, as consent.py:243-255 describes.
Lock(c) ==
  /\ call[c] # None /\ call[c].stage = "sent"
  /\ ~LockHeld
  /\ IF ~consent THEN Answer(c, "consent_required", None)
     ELSE IF call[c].device # Cloud /\ call[c].era < era THEN Answer(c, "stale", None)
     ELSE call' = [call EXCEPT ![c] = [@ EXCEPT !.stage = "locked"]]
  /\ UNCHANGED <<consents, rows, waits, cache, pending, known, clock>>

\* Mutant: the arguments of the first vv_dominates are swapped.
ResolutionSwapped(row, edit, m) ==
  IF Above!vv_dominates(row.vv, edit.vv) THEN "accept" ELSE "ignore"

\* resolve() in conflict.py, for a row that exists.
Resolution(row, edit, m) ==
  IF row.mid = m /\ row.vv = edit.vv THEN "ignore"
  ELSE IF Above!vv_dominates(edit.vv, row.vv) THEN "accept"
  ELSE IF row.deleted /\ edit.op # "delete" THEN "ignore"
  ELSE IF Above!vv_dominates(row.vv, edit.vv) THEN "ignore"
  ELSE IF edit.op = "delete" /\ ~row.deleted THEN "accept"
  ELSE IF edit.hlc > row.hlc THEN "merge" ELSE "ignore"

\* Mutant: the row's own vector is left out of the stamp.
StampUnmerged(row, edit, m) ==
  [vv      |-> IF edit = None THEN Above!vv_bump(Above!Zero, Cloud)
               ELSE Above!vv_bump(edit.vv, edit.device),
   hlc     |-> clock + 1,
   actor   |-> IF edit = None THEN Cloud ELSE edit.device,
   mid     |-> m,
   deleted |-> edit # None /\ edit.op = "delete",
   seq     |-> seq + 1]

\* stamp() in engine.py: merge, bump, and a fresh clock past the row's.
Stamp(row, edit, m) ==
  LET base == IF row = None THEN Above!Zero ELSE row.vv
  IN  [vv      |-> IF edit = None THEN Above!vv_bump(base, Cloud)
                   ELSE Above!vv_bump(Above!vv_merge(base, edit.vv), edit.device),
       hlc     |-> clock + 1,
       actor   |-> IF edit = None THEN Cloud ELSE edit.device,
       mid     |-> m,
       deleted |-> edit # None /\ edit.op = "delete",
       seq     |-> seq + 1]

\* Does the call name its row?  Else the key is left to the database.
Keyed(c) == call[c].entity # None

\* upsert_surface and delete_surface that change nothing: there is nothing to
\* delete, no one made the row (SyncSurfaceNotFoundError), the mutation is the
\* row's last one, or it loses to the row.
WriteNothing(c) ==
  /\ call[c] # None /\ call[c].stage = "locked" /\ call[c].device # Cloud
  /\ Keyed(c)
  /\ LET m    == call[c].mid
         edit == authored[m]
         row  == table[call[c].entity]
     IN  \/ row = None /\ edit.op = "delete" /\ Answer(c, "applied", None)
         \/ /\ row = None /\ edit.op = "upsert" /\ call[c].entity \in Generated
            /\ Answer(c, "rejected", None)
         \/ row # None /\ row.mid = m /\ Answer(c, "applied", row)
         \/ /\ row # None /\ row.mid # m
            /\ \/ Resolution(row, edit, m) = "ignore"
               \/ /\ Resolution(row, edit, m) = "merge"
                  /\ edit.op = "upsert" /\ call[c].entity \in Strict
            /\ Answer(c, "conflict", row)
  /\ UNCHANGED <<consents, rows, waits, cache, pending, known, clock>>

\* ... or that write the row: nextval is taken now, the commit comes later.
Draw(c, e, row) ==
  /\ call' = [call EXCEPT ![c] =
       [@ EXCEPT !.stage = "written", !.entity = e, !.row = row]]
  /\ seq' = seq + 1
  /\ clock' = clock + 1
  /\ UNCHANGED <<consents, table, journal, applied, waits, cache, pending, known>>

Write(c) ==
  /\ call[c] # None /\ call[c].stage = "locked" /\ call[c].device # Cloud
  /\ Keyed(c)
  /\ LET m    == call[c].mid
         edit == authored[m]
         row  == table[call[c].entity]
     IN  /\ \/ row = None /\ edit.op = "upsert" /\ call[c].entity \notin Generated
            \/ /\ row # None /\ row.mid # m
               /\ \/ Resolution(row, edit, m) = "accept"
                  \/ /\ Resolution(row, edit, m) = "merge"
                     /\ edit.op = "delete" \/ call[c].entity \notin Strict
         /\ Draw(c, call[c].entity, Stamp(row, edit, m))

\* ... of a call without a key: no row is looked up, so that neither the last
\* mutation id nor resolve() is asked, and a new row is inserted.
Insert(c) ==
  /\ call[c] # None /\ call[c].stage = "locked" /\ call[c].device # Cloud
  /\ ~Keyed(c)
  /\ \E e \in Generated :
       /\ table[e] = None
       /\ Draw(c, e, Stamp(None, authored[call[c].mid], call[c].mid))

\* ... of a call by the cloud, which nothing resolves: an upsert, or a deletion
\* of a row that is there, deleted or not.
CloudStamps(row) ==
  LET upsert == Stamp(row, None, None)
  IN  {upsert} \cup (IF row = None THEN {} ELSE {[upsert EXCEPT !.deleted = TRUE]})

CloudWrite(c) ==
  /\ call[c] # None /\ call[c].stage = "locked" /\ call[c].device = Cloud
  /\ \E new \in CloudStamps(table[call[c].entity]) : Draw(c, call[c].entity, new)

\* The row and its journal entry become visible; the consent row is unlocked.
Commit(c) ==
  /\ call[c] # None /\ call[c].stage = "written"
  /\ LET row == call[c].row
         e   == call[c].entity
     IN  /\ table' = [table EXCEPT ![e] = row]
         /\ journal' = journal \cup {[seq |-> row.seq, entity |-> e,
                                     op |-> IF row.deleted THEN "delete" ELSE "upsert"]}
         /\ applied' = IF row.mid = None THEN applied ELSE [applied EXCEPT ![row.mid] = @ + 1]
         /\ Answer(c, "applied", row)
  /\ UNCHANGED <<consents, seq, waits, cache, pending, known, clock>>

\* The request is lost, or its transaction rolls back, and its commit number is
\* gone; a client that still waits sees the error.
Fail(c) ==
  /\ call[c] # None /\ call[c].stage \notin Answers
  /\ call' = [call EXCEPT ![c] = None]
  /\ waits' = [d \in Devices |-> IF waits[d] = c THEN None ELSE waits[d]]
  /\ UNCHANGED <<consents, rows, cache, pending, known, clock>>

(***************************************************************************)
(* Consent.                                                                *)
(***************************************************************************)
Tombstone(row) ==
  IF row = None \/ row.deleted THEN row ELSE [row EXCEPT !.deleted = TRUE, !.seq = seq + 1]

\* Rows get a tombstone, the journal is deleted, the era advances: one
\* transaction, behind the same lock.  One number stands for those it draws.
Withdraw ==
  /\ consent /\ era < MaxEra
  /\ ~LockHeld
  /\ consent' = FALSE
  /\ era' = era + 1
  /\ seq' = seq + 1
  /\ table' = [e \in Entities |-> Tombstone(table[e])]
  /\ journal' = {}
  /\ UNCHANGED <<applied, call, waits, cache, pending, known, clock>>

\* The consent row is written again; its number, of another surface, is a gap here.
Grant ==
  /\ ~consent
  /\ ~LockHeld
  /\ consent' = TRUE
  /\ UNCHANGED <<era, seq, table, journal, applied, call, waits, cache, pending, known, clock>>
-----------------------------------------------------------------------------
Device(d) ==
  \/ \E m \in Mutations, e \in Entities, op \in {"upsert", "delete"} : Author(d, m, e, op)
  \/ \E m \in Mutations : Generated # {} /\ Author(d, m, None, "upsert")
  \/ \E c \in Calls, m \in Mutations : Push(d, c, m)
  \/ \E j \in journal : Pull(d, j.seq)
  \/ GiveUp(d) \/ Classify(d)

Serve(c) ==
  \/ \E e \in CloudRows : CloudCall(c, e)
  \/ Lock(c) \/ WriteNothing(c) \/ Write(c) \/ Insert(c) \/ CloudWrite(c)
  \/ Commit(c) \/ Fail(c)

Next ==
  \/ \E d \in Devices : Device(d)
  \/ \E c \in Calls : Serve(c)
  \/ Withdraw
  \/ Grant

Spec == Init /\ [][Next]_vars
-----------------------------------------------------------------------------
TypeOK ==
  /\ consent \in BOOLEAN
  /\ era \in 0 .. MaxEra
  /\ seq \in Nat
  /\ clock \in Nat
  /\ table \in [Entities -> Row \cup {None}]
  /\ journal \subseteq Entry
  /\ call \in [Calls -> Call \cup {None}]
  /\ waits \in [Devices -> Calls \cup {None}]
  /\ cursor \in [Devices -> Nat]
  /\ local \in [Devices -> [Entities -> Copy]]
  /\ authored \in [Mutations -> Edit \cup {None}]
  /\ outbox \in [Devices -> SUBSET Mutations]
  /\ known \in [Devices -> Nat]
  /\ applied \in [Mutations -> Nat]

\* However often a push is retried after a lost answer, and whatever is written
\* in between, a mutation that names its row reaches the table at most once.
AppliedAtMostOnce ==
  \A m \in Mutations : applied[m] > 1 => authored[m].entity = None

\* While consent is withdrawn no live row is left and none is about to be
\* committed: a write either came before the withdrawal or finds consent gone.
WithdrawalPurges ==
  ~consent => /\ journal = {}
              /\ \A e \in Entities : table[e] # None => table[e].deleted
              /\ ~LockHeld

\* A cursor never moves past a change its device has not seen, although commit
\* numbers are drawn before they become visible.
CursorSkipsNothing ==
  \A d \in Devices : \A j \in journal :
    j.seq <= cursor[d] => local[d][j.entity].seq >= j.seq

\* A device that has pulled the last change of a row has that row, whatever its
\* own pushes were answered in between: a conflict's answer, which installs the
\* row as it was, never undoes a pull, and a page's older entries never win.
CaughtUpAgrees ==
  \A d \in Devices : \A j \in journal :
    (j.seq <= cursor[d] /\ j.seq = table[j.entity].seq)
      => local[d][j.entity] = CopyOf(table[j.entity])

\* A write never loses causal history: a row's vector grows, and only the
\* purge's tombstone keeps it.
VectorsGrow ==
  [][\A e \in Entities :
       (table[e] # None /\ table'[e] # table[e])
         => \/ Above!vv_dominates(table'[e].vv, table[e].vv)
            \/ table'[e].deleted /\ table'[e].vv = table[e].vv /\ ~consent']_vars

\* Locks, retries, lost answers, gaps in the numbers and eras left aside, the
\* server's transactions and the devices' cursors behave as SyncLog promises:
\* one write after the other, each at the end of the log.
Done == {m \in Mutations : applied[m] > 0 /\ authored[m].entity # None}

Log == INSTANCE SyncLog WITH done <- Done

RefinesSyncLog == Log!Spec
-----------------------------------------------------------------------------
(***************************************************************************)
(* What the repository's own words say, or a user would expect, and the    *)
(* code does not do.                                                       *)
(***************************************************************************)

\* "every mutation authored under the pre-withdrawal era carries an older
\* generation ... so the push apply path rejects it as stale" (consent.py): a
\* mutation is applied only in the era it was authored in.
PurgedEraStaysPurged ==
  [][\A m \in Mutations : applied'[m] > applied[m] => authored[m].since = era]_vars

\* A creation, too, is done once.  Its mutation stays queued until an answer
\* arrives, and the server does not know it again: base.py:779 looks up no row.
CreatedOnce == \A m \in Mutations : applied[m] <= 1

\* "two devices' concurrent edits are ordered by when they were authored (LWW),
\* not by push arrival order" (client.py): of two concurrent edits, the one
\* authored later is not refused for the sake of the earlier.
LaterEditWins ==
  \A c \in Calls :
    (call[c] # None /\ call[c].stage = "conflict" /\ call[c].row.mid # None
      /\ ~call[c].row.deleted /\ call[c].entity \notin Strict)
    => LET loser  == authored[call[c].mid]
           winner == authored[call[c].row.mid]
       IN  Above!vv_concurrent(winner.vv, loser.vv) => loser.hlc < winner.hlc
=============================================================================
