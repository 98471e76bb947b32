--------------------------- MODULE Tier2SyncProofs ---------------------------
(***************************************************************************)
(* Proofs about Tier2Sync, for any devices, rows, mutations and calls.     *)
(***************************************************************************)
EXTENDS Tier2Sync, TLAPS

USE Tier2Assumption, NoneAssumption DEF Actors, Keyed

(***************************************************************************)
(* Version vectors.                                                        *)
(***************************************************************************)
LEMMA BumpType ==
  ASSUME NEW v \in Above!Vector, NEW a \in Actors
  PROVE  Above!vv_bump(v, a) \in Above!Vector
BY DEF Above!Vector, Above!vv_bump

LEMMA MergeType ==
  ASSUME NEW v \in Above!Vector, NEW w \in Above!Vector
  PROVE  Above!vv_merge(v, w) \in Above!Vector
BY DEF Above!Vector, Above!vv_merge

LEMMA ZeroType == Above!Zero \in Above!Vector
BY DEF Above!Vector, Above!Zero

\* What stamp() makes of two vectors dominates both: no history is lost.
LEMMA BumpedMergeDominates ==
  ASSUME NEW v \in Above!Vector, NEW w \in Above!Vector, NEW a \in Actors
  PROVE  /\ Above!vv_dominates(Above!vv_bump(Above!vv_merge(v, w), a), v)
         /\ Above!vv_dominates(Above!vv_bump(Above!vv_merge(v, w), a), w)
BY DEF Above!Vector, Above!vv_bump, Above!vv_merge, Above!vv_dominates, Above!AtLeast

LEMMA BumpDominates ==
  ASSUME NEW v \in Above!Vector, NEW a \in Actors
  PROVE  Above!vv_dominates(Above!vv_bump(v, a), v)
BY DEF Above!Vector, Above!vv_bump, Above!vv_dominates, Above!AtLeast

LEMMA DominatesTransitive ==
  ASSUME NEW u \in Above!Vector, NEW v \in Above!Vector, NEW w \in Above!Vector,
         Above!vv_dominates(u, v), Above!vv_dominates(v, w)
  PROVE  Above!vv_dominates(u, w)
BY DEF Above!Vector, Above!vv_dominates, Above!AtLeast

LEMMA DominatesAsymmetric ==
  ASSUME NEW u \in Above!Vector, NEW v \in Above!Vector, Above!vv_dominates(u, v)
  PROVE  ~Above!vv_dominates(v, u) /\ u # v
BY DEF Above!Vector, Above!vv_dominates, Above!AtLeast
\* vv_merge forgets nothing and invents nothing: it is the least vector that is at least
\* both, whatever the order of its arguments and however often they are merged
\* (version_vector.py: vv_merge, vv_dominates).
THEOREM MergeIsLeastUpperBound ==
  \A v, w \in Above!Vector :
    /\ Above!vv_merge(v, w) \in Above!Vector
    /\ Above!AtLeast(Above!vv_merge(v, w), v) /\ Above!AtLeast(Above!vv_merge(v, w), w)
    /\ \A u \in Above!Vector :
         Above!AtLeast(u, v) /\ Above!AtLeast(u, w) => Above!AtLeast(u, Above!vv_merge(v, w))
    /\ Above!vv_merge(v, w) = Above!vv_merge(w, v)
    /\ Above!vv_merge(v, v) = v
<1> SUFFICES ASSUME NEW v \in Above!Vector, NEW w \in Above!Vector
             PROVE  /\ Above!vv_merge(v, w) \in Above!Vector
                    /\ Above!AtLeast(Above!vv_merge(v, w), v)
                    /\ Above!AtLeast(Above!vv_merge(v, w), w)
                    /\ \A u \in Above!Vector :
                         Above!AtLeast(u, v) /\ Above!AtLeast(u, w)
                           => Above!AtLeast(u, Above!vv_merge(v, w))
                    /\ Above!vv_merge(v, w) = Above!vv_merge(w, v)
                    /\ Above!vv_merge(v, v) = v
  OBVIOUS
<1>1. Above!vv_merge(v, w) \in Above!Vector
  BY MergeType
<1>2. Above!AtLeast(Above!vv_merge(v, w), v) /\ Above!AtLeast(Above!vv_merge(v, w), w)
  BY DEF Above!Vector, Above!vv_merge, Above!AtLeast
<1>3. ASSUME NEW u \in Above!Vector, Above!AtLeast(u, v), Above!AtLeast(u, w)
      PROVE  Above!AtLeast(u, Above!vv_merge(v, w))
  BY <1>3 DEF Above!Vector, Above!vv_merge, Above!AtLeast
<1>4. Above!vv_merge(v, w) = Above!vv_merge(w, v) /\ Above!vv_merge(v, v) = v
  BY DEF Above!Vector, Above!vv_merge
<1> QED
  BY <1>1, <1>2, <1>3, <1>4
-----------------------------------------------------------------------------
(***************************************************************************)
(* The types, and what they need: a queued mutation has been authored, a   *)
(* call speaks of its own device's mutation, a journalled row exists.      *)
(***************************************************************************)
QueuedAreAuthored ==
  \A d \in Devices : \A m \in outbox[d] : authored[m] # None /\ authored[m].device = d

CallSound(c) ==
  /\ call[c].device = Cloud => call[c].mid = None /\ call[c].entity \in CloudRows
  /\ call[c].device # Cloud =>
       /\ call[c].mid # None
       /\ authored[call[c].mid] # None
       /\ authored[call[c].mid].device = call[c].device
       /\ authored[call[c].mid].entity \in {None, call[c].entity}
       /\ call[c].stage \in {"sent", "locked"} => authored[call[c].mid].entity = call[c].entity
  /\ call[c].stage \in {"written", "conflict"} => Keyed(c)
  /\ call[c].stage = "written" => call[c].row # None /\ call[c].row.mid = call[c].mid
  /\ call[c].stage = "conflict" => call[c].row # None

CallsSound == \A c \in Calls : call[c] # None => CallSound(c)

WaitsSound ==
  \A d \in Devices :
    waits[d] # None => call[waits[d]] # None /\ call[waits[d]].device = d

JournalledExist == \A j \in journal : table[j.entity] # None

Sound == QueuedAreAuthored /\ CallsSound /\ WaitsSound /\ JournalledExist

LEMMA RowType ==
  ASSUME NEW v \in Above!Vector, NEW h \in Nat, NEW a \in Actors,
         NEW m \in Mutations \cup {None}, NEW b \in BOOLEAN, NEW n \in Nat
  PROVE  [vv |-> v, hlc |-> h, actor |-> a, mid |-> m, deleted |-> b, seq |-> n] \in Row
BY DEF Row

LEMMA StampType ==
  ASSUME TypeOK, NEW row \in Row \cup {None}, NEW edit \in Edit \cup {None},
         NEW m \in Mutations \cup {None}
  PROVE  /\ Stamp(row, edit, m) \in Row
         /\ Stamp(row, edit, m).mid = m
         /\ Stamp(row, edit, m).seq = seq + 1
<1> DEFINE base == IF row = None THEN Above!Zero ELSE row.vv
           vv == IF edit = None THEN Above!vv_bump(base, Cloud)
                 ELSE Above!vv_bump(Above!vv_merge(base, edit.vv), edit.device)
           actor == IF edit = None THEN Cloud ELSE edit.device
           gone == edit # None /\ edit.op = "delete"
<1>1. base \in Above!Vector
  BY ZeroType DEF Row
<1>2. vv \in Above!Vector
  <2> HIDE DEF base
  <2>1. CASE edit = None
    BY <1>1, <2>1, BumpType
  <2>2. CASE edit # None
    <3>1. edit.vv \in Above!Vector /\ edit.device \in Actors
      BY <2>2 DEF Edit
    <3> QED
      BY <1>1, <2>2, <3>1, BumpType, MergeType
  <2> QED
    BY <2>1, <2>2
<1>3. actor \in Actors
  BY DEF Edit
<1>4. gone \in BOOLEAN
  OBVIOUS
<1>6. Stamp(row, edit, m) =
        [vv |-> vv, hlc |-> clock + 1, actor |-> actor, mid |-> m, deleted |-> gone,
         seq |-> seq + 1]
  BY Zenon DEF Stamp
<1> HIDE DEF base, vv, actor, gone
<1> DEFINE h == clock + 1
           n == seq + 1
<1> HIDE DEF h, n
<1>7. [vv |-> vv, hlc |-> h, actor |-> actor, mid |-> m, deleted |-> gone, seq |-> n] \in Row
  <2>1. h \in Nat /\ n \in Nat
    BY DEF TypeOK, h, n
  <2> QED
    BY <1>2, <1>3, <1>4, <2>1, RowType, Zenon
<1> QED
  BY <1>6, <1>7 DEF h, n

\* Both writes of the cloud carry the same stamp.
LEMMA CloudStampType ==
  ASSUME TypeOK, NEW row \in Row \cup {None}, NEW new \in CloudStamps(row)
  PROVE  /\ new \in Row
         /\ new.mid = None
         /\ new.seq = seq + 1
         /\ new.vv = Stamp(row, None, None).vv
<1>1. /\ Stamp(row, None, None) \in Row
      /\ Stamp(row, None, None).mid = None
      /\ Stamp(row, None, None).seq = seq + 1
  BY StampType
<1> QED
  BY <1>1 DEF CloudStamps, Row

LEMMA CopyType ==
  ASSUME NEW row \in Row
  PROVE  CopyOf(row) \in Copy /\ CopyOf(row).seq = row.seq
BY ZeroType DEF CopyOf, Copy, Row

LEMMA AnswerType ==
  ASSUME TypeOK, NEW c \in Calls, call[c] # None, NEW answer \in Answers,
         NEW row \in Row \cup {None}, Answer(c, answer, row)
  PROVE  call' \in [Calls -> Call \cup {None}]
<1>1. ASSUME NEW r \in Call PROVE [r EXCEPT !.stage = answer, !.row = row] \in Call
  BY DEF Call
<1>2. call[c] \in Call
  BY DEF TypeOK
<1>3. call' = [call EXCEPT ![c] = None]
      \/ call' = [call EXCEPT ![c] = [call[c] EXCEPT !.stage = answer, !.row = row]]
  BY DEF Answer, TypeOK
<1> QED
  BY <1>1, <1>2, <1>3 DEF TypeOK

LEMMA StageType ==
  ASSUME NEW r \in Call, NEW e \in Entities, NEW row \in Row
  PROVE  /\ [r EXCEPT !.stage = "locked"] \in Call
         /\ [r EXCEPT !.stage = "written", !.entity = e, !.row = row] \in Call
BY DEF Call

LEMMA TombstoneType ==
  ASSUME TypeOK, NEW row \in Row \cup {None}
  PROVE  /\ Tombstone(row) \in Row \cup {None}
         /\ Tombstone(row) = None <=> row = None
         /\ row \in Row => Tombstone(row).vv = row.vv /\ Tombstone(row).seq \in {row.seq, seq + 1}
         /\ row \in Row => Tombstone(row).deleted
<1> DEFINE n == seq + 1
<1>1. TRUE \in BOOLEAN /\ n \in Nat
  BY DEF TypeOK
<1> HIDE DEF n
<1>2. ASSUME NEW r \in Row, NEW b \in BOOLEAN
      PROVE  /\ [r EXCEPT !.deleted = b, !.seq = n] \in Row
             /\ [r EXCEPT !.deleted = b, !.seq = n].vv = r.vv
             /\ [r EXCEPT !.deleted = b, !.seq = n].seq = n
             /\ [r EXCEPT !.deleted = b, !.seq = n].deleted = b
  BY <1>1 DEF Row
<1>3. \A r \in Row : /\ [r EXCEPT !.deleted = TRUE, !.seq = n] \in Row
                      /\ [r EXCEPT !.deleted = TRUE, !.seq = n].vv = r.vv
                      /\ [r EXCEPT !.deleted = TRUE, !.seq = n].seq = n
                      /\ [r EXCEPT !.deleted = TRUE, !.seq = n].deleted = TRUE
  BY <1>1, <1>2, Zenon
<1>4. None \notin Row
  OBVIOUS
<1>5. CASE row = None \/ row.deleted
  BY <1>4, <1>5 DEF Tombstone
<1>6. CASE row # None /\ ~row.deleted
  <2>1. Tombstone(row) = [row EXCEPT !.deleted = TRUE, !.seq = n]
    BY <1>6 DEF Tombstone, n
  <2> QED
    BY <1>3, <1>4, <1>6, <2>1 DEF n
<1> QED
  BY <1>5, <1>6

LEMMA BaseType ==
  ASSUME TypeOK, NEW d \in Devices, NEW e \in Entities \cup {None}
  PROVE  Base(d, e) \in Above!Vector
BY ZeroType DEF TypeOK, Copy, Base

\* The stamp of a call without a key.
LEMMA InsertStampType ==
  ASSUME TypeOK, Sound, NEW c \in Calls, call[c] # None, call[c].device # Cloud
  PROVE  /\ call[c].mid \in Mutations /\ authored[call[c].mid] \in Edit
         /\ Stamp(None, authored[call[c].mid], call[c].mid) \in Row
         /\ Stamp(None, authored[call[c].mid], call[c].mid).mid = call[c].mid
         /\ Stamp(None, authored[call[c].mid], call[c].mid).seq = seq + 1
<1>1. call[c].mid \in Mutations /\ authored[call[c].mid] \in Edit
  BY DEF TypeOK, Call, Sound, CallsSound, CallSound
<1> QED
  BY <1>1, StampType

LEMMA TypeStep ==
  ASSUME TypeOK, Sound, [Next]_vars
  PROVE  TypeOK'
<1> USE DEF TypeOK, consents, rows, cache, pending
<1>1. ASSUME NEW d \in Devices, NEW m \in Mutations, NEW e \in Entities \cup {None},
             NEW op \in {"upsert", "delete"}, Author(d, m, e, op)
      PROVE  TypeOK'
  <2>1. Above!vv_bump(Base(d, e), d) \in Above!Vector
    BY BaseType, BumpType
  <2>2. authored' \in [Mutations -> Edit \cup {None}]
    BY <1>1, <2>1 DEF Author, Edit
  <2> QED
    BY <1>1, <2>2 DEF Author
<1>2. ASSUME NEW d \in Devices, NEW c \in Calls, NEW m \in Mutations, Push(d, c, m)
      PROVE  TypeOK'
  <2>1. authored[m] \in Edit
    BY <1>2 DEF Push, Sound, QueuedAreAuthored
  <2>2. call' \in [Calls -> Call \cup {None}]
    BY <1>2, <2>1 DEF Push, Edit, Call
  <2> QED
    BY <1>2, <2>2 DEF Push
<1>3. ASSUME NEW d \in Devices, NEW j \in journal, Pull(d, j.seq)
      PROVE  TypeOK'
  <2>1. ASSUME NEW page \in SUBSET journal, NEW e \in Entities, \E i \in page : i.entity = e
        PROVE  Pulled(page, e) \in Copy
    BY <2>1, CopyType, ZeroType DEF Sound, JournalledExist, Pulled, Copy, TypeOK, Entry
  <2>2. local' \in [Devices -> [Entities -> Copy]]
    BY <1>3, <2>1 DEF Pull
  <2>3. known' \in [Devices -> Nat]
    BY <1>3 DEF Pull
  <2> QED
    BY <1>3, <2>2, <2>3 DEF Pull, Entry
<1>4. ASSUME NEW d \in Devices, GiveUp(d)
      PROVE  TypeOK'
  BY <1>4 DEF GiveUp
<1>5. ASSUME NEW d \in Devices, Classify(d)
      PROVE  TypeOK'
  <2>1. local' \in [Devices -> [Entities -> Copy]]
    <3>1. call[waits[d]] \in Call /\ waits[d] \in Calls
      BY <1>5 DEF Classify, Sound, WaitsSound
    <3>2. CASE call[waits[d]].stage = "conflict"
      <4>1. call[waits[d]].row \in Row /\ call[waits[d]].entity \in Entities
        BY <1>5, <3>1, <3>2 DEF Classify, Sound, CallsSound, CallSound, Call, WaitsSound
      <4>2. CopyOf(call[waits[d]].row) \in Copy
        BY <4>1, CopyType
      <4>3. local' = [local EXCEPT ![d] = [@ EXCEPT
                       ![call[waits[d]].entity] = CopyOf(call[waits[d]].row)]]
        BY <1>5, <3>2 DEF Classify
      <4> QED
        BY <4>1, <4>2, <4>3
    <3>3. CASE call[waits[d]].stage # "conflict"
      BY <1>5, <3>3 DEF Classify
    <3> QED
      BY <3>2, <3>3
  <2>2. known' \in [Devices -> Nat]
    BY <1>5 DEF Classify
  <2>3. outbox' \in [Devices -> SUBSET Mutations]
    BY <1>5 DEF Classify, Resolved
  <2> QED
    BY <1>5, <2>1, <2>2, <2>3 DEF Classify
<1>6. ASSUME NEW c \in Calls, NEW e \in CloudRows, CloudCall(c, e)
      PROVE  TypeOK'
  BY <1>6 DEF CloudCall, Call
<1>7. ASSUME NEW c \in Calls, Lock(c)
      PROVE  TypeOK'
  <2>1. call[c] \in Call
    BY <1>7 DEF Lock
  <2>2. CASE call' = [call EXCEPT ![c] = [@ EXCEPT !.stage = "locked"]]
    <3>1. [call[c] EXCEPT !.stage = "locked"] \in Call
      BY <2>1 DEF Call
    <3>2. call' \in [Calls -> Call \cup {None}]
      BY <2>2, <3>1
    <3> QED
      BY <1>7, <3>2 DEF Lock
  <2>3. CASE Answer(c, "stale", None) \/ Answer(c, "consent_required", None)
    <3>1. call' \in [Calls -> Call \cup {None}]
      BY <1>7, <2>3, AnswerType DEF Lock, Answers
    <3> QED
      BY <1>7, <3>1 DEF Lock
  <2> QED
    BY <1>7, <2>2, <2>3 DEF Lock
<1>8. ASSUME NEW c \in Calls, WriteNothing(c)
      PROVE  TypeOK'
  <2>1. call[c] \in Call /\ table[call[c].entity] \in Row \cup {None}
    BY <1>8 DEF WriteNothing, Call
  <2>2. call' \in [Calls -> Call \cup {None}]
    BY <1>8, <2>1, AnswerType DEF WriteNothing, Answers
  <2> QED
    BY <1>8, <2>2 DEF WriteNothing
<1>9. ASSUME NEW c \in Calls, NEW e \in Entities, NEW row \in Row, call[c] # None,
             Draw(c, e, row)
      PROVE  TypeOK'
  <2>1. [call[c] EXCEPT !.stage = "written", !.entity = e, !.row = row] \in Call
    BY <1>9, StageType
  <2>2. call' \in [Calls -> Call \cup {None}]
    BY <1>9, <2>1 DEF Draw
  <2> QED
    BY <1>9, <2>2 DEF Draw
<1>10. ASSUME NEW c \in Calls, Write(c)
       PROVE  TypeOK'
  <2>1. /\ call[c] \in Call /\ call[c].entity \in Entities
        /\ table[call[c].entity] \in Row \cup {None}
    BY <1>10 DEF Write, Call
  <2>2. authored[call[c].mid] \in Edit
    BY <1>10, <2>1 DEF Write, Call, Sound, CallsSound, CallSound
  <2>3. Stamp(table[call[c].entity], authored[call[c].mid], call[c].mid) \in Row
    BY <2>1, <2>2, StampType DEF Call
  <2> QED
    BY <1>9, <1>10, <2>1, <2>3 DEF Write
<1>11. ASSUME NEW c \in Calls, CloudWrite(c)
       PROVE  TypeOK'
  <2>1. call[c].entity \in Entities /\ table[call[c].entity] \in Row \cup {None}
    BY <1>11 DEF CloudWrite, Call, Sound, CallsSound, CallSound
  <2>2. PICK new \in CloudStamps(table[call[c].entity]) : Draw(c, call[c].entity, new)
    BY <1>11 DEF CloudWrite
  <2>3. new \in Row
    BY <2>1, <2>2, CloudStampType
  <2> QED
    BY <1>9, <1>11, <2>1, <2>2, <2>3 DEF CloudWrite
<1>17. ASSUME NEW c \in Calls, Insert(c)
       PROVE  TypeOK'
  <2>1. PICK e \in Generated :
          table[e] = None /\ Draw(c, e, Stamp(None, authored[call[c].mid], call[c].mid))
    BY <1>17 DEF Insert
  <2>2. Stamp(None, authored[call[c].mid], call[c].mid) \in Row
    BY <1>17, InsertStampType DEF Insert
  <2> QED
    BY <1>9, <1>17, <2>1, <2>2 DEF Insert
<1>12. ASSUME NEW c \in Calls, Commit(c)
       PROVE  TypeOK'
  <2>1. call[c].row \in Row /\ call[c].entity \in Entities
    BY <1>12 DEF Commit, Call, Sound, CallsSound, CallSound
  <2>2. call' \in [Calls -> Call \cup {None}]
    BY <1>12, <2>1, AnswerType DEF Commit, Answers
  <2>3. table' \in [Entities -> Row \cup {None}] /\ journal' \subseteq Entry
    BY <1>12, <2>1 DEF Commit, Row, Entry
  <2>4. applied' \in [Mutations -> Nat]
    BY <1>12, <2>1 DEF Commit, Row
  <2> QED
    BY <1>12, <2>2, <2>3, <2>4 DEF Commit
<1>13. ASSUME NEW c \in Calls, Fail(c)
       PROVE  TypeOK'
  BY <1>13 DEF Fail
<1>14. CASE Withdraw
  <2>1. \A e \in Entities : Tombstone(table[e]) \in Row \cup {None}
    BY TombstoneType
  <2>2. table' \in [Entities -> Row \cup {None}]
    BY <1>14, <2>1 DEF Withdraw
  <2>3. era' \in 0 .. MaxEra
    BY <1>14 DEF Withdraw
  <2>4. seq' \in Nat
    BY <1>14 DEF Withdraw
  <2>5. consent' \in BOOLEAN
    BY <1>14, Zenon DEF Withdraw
  <2> QED
    BY <1>14, <2>2, <2>3, <2>4, <2>5 DEF Withdraw
<1>15. CASE Grant
  BY <1>15 DEF Grant
<1>16. CASE UNCHANGED vars
  BY <1>16 DEF vars
<1> QED
  BY <1>1, <1>2, <1>3, <1>4, <1>5, <1>6, <1>7, <1>8, <1>10, <1>11, <1>12, <1>13, <1>14,
     <1>15, <1>16, <1>17 DEF Next, Device, Serve

LEMMA AnswerEffect ==
  ASSUME TypeOK, NEW c \in Calls, call[c] # None, NEW answer \in Answers,
         NEW row \in Row \cup {None}, Answer(c, answer, row)
  PROVE  /\ \A b \in Calls \ {c} : call'[b] = call[b]
         /\ call'[c] # None =>
              /\ call'[c].stage = answer /\ call'[c].row = row
              /\ call'[c].device = call[c].device /\ call'[c].mid = call[c].mid
              /\ call'[c].entity = call[c].entity /\ call'[c].era = call[c].era
         /\ (\E d \in Devices : waits[d] = c) => call'[c] # None
<1>1. ASSUME NEW r \in Call
      PROVE  /\ [r EXCEPT !.stage = answer, !.row = row] \in Call
             /\ [r EXCEPT !.stage = answer, !.row = row].stage = answer
             /\ [r EXCEPT !.stage = answer, !.row = row].row = row
             /\ [r EXCEPT !.stage = answer, !.row = row].device = r.device
             /\ [r EXCEPT !.stage = answer, !.row = row].mid = r.mid
             /\ [r EXCEPT !.stage = answer, !.row = row].entity = r.entity
             /\ [r EXCEPT !.stage = answer, !.row = row].era = r.era
  BY DEF Call
<1>2. call[c] \in Call
  BY DEF TypeOK
<1>3. CASE \E d \in Devices : waits[d] = c
  <2>1. call' = [call EXCEPT ![c] = [call[c] EXCEPT !.stage = answer, !.row = row]]
    BY <1>3 DEF Answer, TypeOK
  <2>2. /\ call'[c] = [call[c] EXCEPT !.stage = answer, !.row = row]
        /\ \A b \in Calls \ {c} : call'[b] = call[b]
    BY <2>1 DEF TypeOK
  <2>3. call'[c] # None
    BY <1>1, <1>2, <2>2, NoneAssumption
  <2>4. PICK r \in Call : r = call[c]
    BY <1>2
  <2>5. /\ call'[c].stage = answer /\ call'[c].row = row
        /\ call'[c].device = r.device /\ call'[c].mid = r.mid
        /\ call'[c].entity = r.entity /\ call'[c].era = r.era
    <3>1. PICK new \in Call : new = [r EXCEPT !.stage = answer, !.row = row]
      BY <1>1
    <3>2. /\ new.stage = answer /\ new.row = row /\ new.device = r.device
          /\ new.mid = r.mid /\ new.entity = r.entity /\ new.era = r.era
      BY <1>1, <3>1
    <3>3. call'[c] = new
      BY <2>2, <2>4, <3>1
    <3> QED
      BY <3>2, <3>3
  <2> QED
    BY <2>2, <2>3, <2>4, <2>5
<1>4. CASE ~ \E d \in Devices : waits[d] = c
  <2>1. call' = [call EXCEPT ![c] = None]
    BY <1>4 DEF Answer
  <2>2. call'[c] = None /\ \A b \in Calls \ {c} : call'[b] = call[b]
    BY <2>1 DEF TypeOK
  <2> QED
    BY <1>4, <2>2
<1> QED
  BY <1>3, <1>4

\* An answer leaves the calls sound, if it is not an empty conflict.
LEMMA AnswerSound ==
  ASSUME TypeOK, CallsSound, WaitsSound, NEW c \in Calls, call[c] # None,
         NEW answer \in Answers, NEW row \in Row \cup {None}, Answer(c, answer, row),
         answer = "conflict" => row # None /\ Keyed(c), UNCHANGED <<authored, waits>>
  PROVE  CallsSound' /\ WaitsSound'
<1> USE AnswerEffect DEF Answers
<1>1. CallsSound'
  BY DEF CallsSound, CallSound
<1>2. WaitsSound'
  BY DEF WaitsSound, TypeOK
<1> QED
  BY <1>1, <1>2

LEMMA SoundStep ==
  ASSUME TypeOK, Sound, [Next]_vars
  PROVE  Sound'
<1> USE DEF Sound, consents, rows, cache, pending
<1>1. ASSUME NEW d \in Devices, NEW m \in Mutations, NEW e \in Entities \cup {None},
             NEW op \in {"upsert", "delete"}, Author(d, m, e, op)
      PROVE  Sound'
  <2>1. /\ authored[m] = None
        /\ authored'[m] # None /\ authored'[m].device = d
        /\ \A k \in Mutations \ {m} : authored'[k] = authored[k]
    <3>1. authored' \in [Mutations -> Edit \cup {None}]
      BY <1>1, TypeStep DEF TypeOK, Next, Device
    <3>2. Above!vv_bump(Base(d, e), d) \in Above!Vector
      BY BaseType, BumpType
    <3>3. [device |-> d, entity |-> e, op |-> op, hlc |-> clock + 1, since |-> era,
           vv |-> Above!vv_bump(Base(d, e), d)] \in Edit
      BY <3>2 DEF Edit, TypeOK
    <3> QED
      BY <1>1, <3>3 DEF Author, TypeOK
  <2>2. QueuedAreAuthored'
    BY <1>1, <2>1 DEF Author, QueuedAreAuthored, TypeOK
  <2>3. CallsSound'
    <3>1. ASSUME NEW c \in Calls, call[c] # None PROVE CallSound(c)'
      <4>1. call[c] \in Call /\ CallSound(c)
        BY <3>1 DEF CallsSound, TypeOK
      <4>2. call[c].device # Cloud => call[c].mid \in Mutations \ {m}
        BY <2>1, <4>1 DEF CallSound, Call
      <4> QED
        BY <1>1, <2>1, <4>1, <4>2 DEF Author, CallSound
    <3> QED
      BY <1>1, <3>1 DEF Author, CallsSound
  <2>4. WaitsSound' /\ JournalledExist'
    BY <1>1 DEF Author, WaitsSound, JournalledExist
  <2> QED
    BY <2>2, <2>3, <2>4
<1>2. ASSUME NEW d \in Devices, NEW c \in Calls, NEW m \in Mutations, Push(d, c, m)
      PROVE  Sound'
  <2>1. authored[m] \in Edit /\ authored[m].device = d
    BY <1>2 DEF Push, QueuedAreAuthored, TypeOK
  <2>2. [stage |-> "sent", device |-> d, mid |-> m, entity |-> authored[m].entity,
         era |-> known[d], row |-> None] \in Call
    BY <2>1 DEF Edit, Call, TypeOK
  <2>3. CallsSound'
    BY <1>2, <2>1, <2>2 DEF Push, CallsSound, CallSound, TypeOK
  <2>4. WaitsSound'
    BY <1>2, <2>2 DEF Push, WaitsSound, TypeOK
  <2> QED
    BY <1>2, <2>3, <2>4 DEF Push, QueuedAreAuthored, JournalledExist
<1>3. ASSUME NEW d \in Devices, NEW j \in journal, Pull(d, j.seq)
      PROVE  Sound'
  BY <1>3 DEF Pull, QueuedAreAuthored, CallsSound, CallSound, WaitsSound, JournalledExist
<1>4. ASSUME NEW d \in Devices, GiveUp(d)
      PROVE  Sound'
  <2>1. CallsSound'
    BY <1>4 DEF GiveUp, CallsSound, CallSound, TypeOK
  <2>2. WaitsSound'
    BY <1>4 DEF GiveUp, WaitsSound, TypeOK
  <2> QED
    BY <1>4, <2>1, <2>2 DEF GiveUp, QueuedAreAuthored, JournalledExist
<1>5. ASSUME NEW d \in Devices, Classify(d)
      PROVE  Sound'
  <2>1. CallsSound'
    BY <1>5 DEF Classify, CallsSound, CallSound, TypeOK
  <2>2. WaitsSound'
    BY <1>5 DEF Classify, WaitsSound, TypeOK
  <2>3. QueuedAreAuthored'
    <3>1. outbox' = outbox \/ \E m : Resolved(d, m)
      BY <1>5 DEF Classify
    <3>2. \A k \in Devices : outbox'[k] \subseteq outbox[k]
      BY <3>1 DEF Resolved, TypeOK
    <3>3. authored' = authored
      BY <1>5 DEF Classify
    <3> QED
      BY <3>2, <3>3 DEF QueuedAreAuthored
  <2> QED
    BY <1>5, <2>1, <2>2, <2>3 DEF Classify, JournalledExist
<1>6. ASSUME NEW c \in Calls, NEW e \in CloudRows, CloudCall(c, e)
      PROVE  Sound'
  <2>1. [stage |-> "sent", device |-> Cloud, mid |-> None, entity |-> e, era |-> era,
         row |-> None] \in Call
    BY DEF Call, TypeOK
  <2>2. CallsSound'
    BY <1>6, <2>1 DEF CloudCall, CallsSound, CallSound, TypeOK
  <2>3. WaitsSound'
    BY <1>6 DEF CloudCall, WaitsSound, TypeOK
  <2> QED
    BY <1>6, <2>2, <2>3 DEF CloudCall, QueuedAreAuthored, JournalledExist
<1>7. ASSUME NEW c \in Calls, Lock(c)
      PROVE  Sound'
  <2>1. QueuedAreAuthored' /\ JournalledExist'
    BY <1>7 DEF Lock, QueuedAreAuthored, JournalledExist
  <2>2. CASE call' = [call EXCEPT ![c] = [@ EXCEPT !.stage = "locked"]]
    <3>1. call[c] \in Call /\ CallSound(c)
      BY <1>7 DEF Lock, TypeOK, CallsSound
    <3>2. /\ call'[c] # None /\ call'[c].stage = "locked" /\ call'[c].mid = call[c].mid
          /\ call'[c].device = call[c].device /\ call'[c].entity = call[c].entity
      <4>1. [call[c] EXCEPT !.stage = "locked"] \in Call
        BY <3>1 DEF Call
      <4> QED
        BY <2>2, <3>1, <4>1 DEF Call, TypeOK
    <3>3. CallsSound'
      BY <1>7, <2>2, <3>1, <3>2 DEF Lock, CallsSound, CallSound, TypeOK
    <3>4. WaitsSound'
      BY <1>7, <2>2, <3>2 DEF Lock, WaitsSound, TypeOK
    <3> QED
      BY <2>1, <3>3, <3>4
  <2>3. CASE Answer(c, "stale", None) \/ Answer(c, "consent_required", None)
    BY <1>7, <2>1, <2>3, AnswerSound DEF Lock, Answers
  <2> QED
    BY <1>7, <2>2, <2>3 DEF Lock
<1>8. ASSUME NEW c \in Calls, WriteNothing(c)
      PROVE  Sound'
  <2>1. table[call[c].entity] \in Row \cup {None}
    BY <1>8 DEF WriteNothing, Call, TypeOK
  <2>2. CallsSound' /\ WaitsSound'
    BY <1>8, <2>1, AnswerSound DEF WriteNothing, Answers
  <2> QED
    BY <1>8, <2>2 DEF WriteNothing, QueuedAreAuthored, JournalledExist
<1>9. ASSUME NEW c \in Calls, NEW e \in Entities, NEW row \in Row, call[c] # None,
             row.mid = call[c].mid, call[c].entity \in {None, e}, call[c].stage = "locked",
             Draw(c, e, row)
      PROVE  Sound'
  <2>1. call[c] \in Call /\ CallSound(c)
    BY <1>9 DEF TypeOK, CallsSound
  <2>2. /\ call'[c] # None /\ call'[c].stage = "written" /\ call'[c].mid = call[c].mid
        /\ call'[c].device = call[c].device /\ call'[c].entity = e
        /\ call'[c].row = row
    <3>1. [call[c] EXCEPT !.stage = "written", !.entity = e, !.row = row] \in Call
      BY <2>1, StageType
    <3> QED
      BY <1>9, <2>1, <3>1 DEF Draw, Call, TypeOK
  <2>3. CallsSound'
    BY <1>9, <2>1, <2>2 DEF Draw, CallsSound, CallSound, TypeOK
  <2>4. WaitsSound'
    BY <1>9, <2>2 DEF Draw, WaitsSound, TypeOK
  <2> QED
    BY <1>9, <2>3, <2>4 DEF Draw, QueuedAreAuthored, JournalledExist
<1>10. ASSUME NEW c \in Calls, Write(c)
       PROVE  Sound'
  <2>1. /\ call[c] \in Call /\ call[c].entity \in Entities
        /\ table[call[c].entity] \in Row \cup {None}
    BY <1>10 DEF Write, Call, TypeOK
  <2>2. authored[call[c].mid] \in Edit
    BY <1>10, <2>1 DEF Write, Call, CallsSound, CallSound, TypeOK
  <2>3. /\ Stamp(table[call[c].entity], authored[call[c].mid], call[c].mid) \in Row
        /\ Stamp(table[call[c].entity], authored[call[c].mid], call[c].mid).mid = call[c].mid
    BY <2>1, <2>2, StampType DEF Call
  <2> QED
    BY <1>9, <1>10, <2>1, <2>3 DEF Write
<1>17. ASSUME NEW c \in Calls, Insert(c)
       PROVE  Sound'
  <2>1. PICK e \in Generated :
          table[e] = None /\ Draw(c, e, Stamp(None, authored[call[c].mid], call[c].mid))
    BY <1>17 DEF Insert
  <2>2. /\ Stamp(None, authored[call[c].mid], call[c].mid) \in Row
        /\ Stamp(None, authored[call[c].mid], call[c].mid).mid = call[c].mid
    BY <1>17, InsertStampType DEF Insert
  <2> QED
    BY <1>9, <1>17, <2>1, <2>2 DEF Insert
<1>11. ASSUME NEW c \in Calls, CloudWrite(c)
       PROVE  Sound'
  <2>1. /\ call[c].mid = None /\ call[c].entity \in Entities
        /\ table[call[c].entity] \in Row \cup {None}
    BY <1>11 DEF CloudWrite, Call, CallsSound, CallSound, TypeOK
  <2>2. PICK new \in CloudStamps(table[call[c].entity]) : Draw(c, call[c].entity, new)
    BY <1>11 DEF CloudWrite
  <2>3. new \in Row /\ new.mid = None
    BY <2>1, <2>2, CloudStampType
  <2> QED
    BY <1>9, <1>11, <2>1, <2>2, <2>3 DEF CloudWrite
<1>12. ASSUME NEW c \in Calls, Commit(c)
       PROVE  Sound'
  <2>1. call[c].row \in Row /\ call[c].entity \in Entities
    BY <1>12 DEF Commit, Call, CallsSound, CallSound, TypeOK
  <2>2. CallsSound' /\ WaitsSound'
    BY <1>12, <2>1, AnswerSound DEF Commit, Answers
  <2>3. JournalledExist'
    BY <1>12, <2>1 DEF Commit, JournalledExist, TypeOK
  <2> QED
    BY <1>12, <2>2, <2>3 DEF Commit, QueuedAreAuthored
<1>13. ASSUME NEW c \in Calls, Fail(c)
       PROVE  Sound'
  <2>1. CallsSound'
    BY <1>13 DEF Fail, CallsSound, CallSound, TypeOK
  <2>2. WaitsSound'
    BY <1>13 DEF Fail, WaitsSound, TypeOK
  <2> QED
    BY <1>13, <2>1, <2>2 DEF Fail, QueuedAreAuthored, JournalledExist
<1>14. CASE Withdraw
  BY <1>14 DEF Withdraw, QueuedAreAuthored, CallsSound, CallSound, WaitsSound, JournalledExist
<1>15. CASE Grant
  BY <1>15 DEF Grant, QueuedAreAuthored, CallsSound, CallSound, WaitsSound, JournalledExist
<1>16. CASE UNCHANGED vars
  BY <1>16 DEF vars, QueuedAreAuthored, CallsSound, CallSound, WaitsSound, JournalledExist
<1> QED
  BY <1>1, <1>2, <1>3, <1>4, <1>5, <1>6, <1>7, <1>8, <1>10, <1>11, <1>12, <1>13, <1>14,
     <1>15, <1>16, <1>17 DEF Next, Device, Serve

WellFormed == TypeOK /\ Sound

LEMMA InitWellFormed == Init => WellFormed
<1> SUFFICES ASSUME Init PROVE TypeOK /\ Sound
  BY DEF WellFormed
<1> USE DEF Init
<1>1. TypeOK
  BY ZeroType DEF TypeOK, Copy
<1>2. Sound
  BY DEF Sound, QueuedAreAuthored, CallsSound, WaitsSound, JournalledExist
<1> QED
  BY <1>1, <1>2

THEOREM WellFormedAlways == Spec => []WellFormed
<1>1. WellFormed /\ [Next]_vars => WellFormed'
  BY TypeStep, SoundStep DEF WellFormed
<1> QED
  BY <1>1, InitWellFormed, PTL DEF Spec

\* Every variable keeps its type, whatever is lost, retried or withdrawn.
THEOREM TypeCorrect == Spec => []TypeOK
<1>1. WellFormed => TypeOK
  BY DEF WellFormed
<1> QED
  BY <1>1, WellFormedAlways, PTL
-----------------------------------------------------------------------------
(***************************************************************************)
(* The consent row's lock: one write at a time, and none after withdrawal. *)
(***************************************************************************)
LockExclusive == \A b, c \in Calls : Locks(b) /\ Locks(c) => b = c

Consented == LockExclusive /\ WithdrawalPurges

\* A step either takes no lock, or takes the free one of a consenting user.
LEMMA LockStep ==
  ASSUME WellFormed, [Next]_vars
  PROVE  \/ \A c \in Calls : Locks(c)' => Locks(c)
         \/ /\ ~LockHeld /\ consent /\ UNCHANGED <<consents, rows>>
            /\ \E c \in Calls : \A b \in Calls \ {c} : ~Locks(b)'
<1> USE DEF WellFormed, Locks, LockHeld
<1>1. ASSUME NEW d \in Devices, NEW m \in Mutations, NEW e \in Entities \cup {None},
             NEW op \in {"upsert", "delete"}, Author(d, m, e, op)
      PROVE  \A c \in Calls : Locks(c)' => Locks(c)
  BY <1>1 DEF Author
<1>2. ASSUME NEW d \in Devices, NEW c \in Calls, NEW m \in Mutations, Push(d, c, m)
      PROVE  \A b \in Calls : Locks(b)' => Locks(b)
  BY <1>2 DEF Push, TypeOK
<1>3. ASSUME NEW d \in Devices, NEW j \in journal, Pull(d, j.seq)
      PROVE  \A c \in Calls : Locks(c)' => Locks(c)
  BY <1>3 DEF Pull
<1>4. ASSUME NEW d \in Devices, GiveUp(d)
      PROVE  \A c \in Calls : Locks(c)' => Locks(c)
  BY <1>4 DEF GiveUp, TypeOK
<1>5. ASSUME NEW d \in Devices, Classify(d)
      PROVE  \A c \in Calls : Locks(c)' => Locks(c)
  BY <1>5 DEF Classify, TypeOK
<1>6. ASSUME NEW c \in Calls, NEW e \in CloudRows, CloudCall(c, e)
      PROVE  \A b \in Calls : Locks(b)' => Locks(b)
  BY <1>6 DEF CloudCall, TypeOK
<1>7. ASSUME NEW c \in Calls, NEW answer \in Answers, NEW row \in Row \cup {None},
             call[c] # None, Answer(c, answer, row)
      PROVE  \A b \in Calls : Locks(b)' => Locks(b)
  BY <1>7, AnswerEffect DEF Answers
<1>8. ASSUME NEW c \in Calls, Lock(c)
      PROVE  \/ \A b \in Calls : Locks(b)' => Locks(b)
             \/ /\ ~LockHeld /\ consent /\ UNCHANGED <<consents, rows>>
                /\ \A b \in Calls \ {c} : ~Locks(b)'
  <2>1. CASE Answer(c, "stale", None) \/ Answer(c, "consent_required", None)
    BY <1>7, <1>8, <2>1 DEF Lock, Answers
  <2>2. CASE consent /\ call' = [call EXCEPT ![c] = [@ EXCEPT !.stage = "locked"]]
    BY <1>8, <2>2 DEF Lock, TypeOK
  <2> QED
    BY <1>8, <2>1, <2>2 DEF Lock
<1>9. ASSUME NEW c \in Calls, WriteNothing(c)
      PROVE  \A b \in Calls : Locks(b)' => Locks(b)
  <2>1. table[call[c].entity] \in Row \cup {None}
    BY <1>9 DEF WriteNothing, Call, TypeOK
  <2> QED
    BY <1>7, <1>9, <2>1 DEF WriteNothing, Answers
<1>10. ASSUME NEW c \in Calls, NEW e, NEW row, Locks(c), Draw(c, e, row)
       PROVE  \A b \in Calls : Locks(b)' => Locks(b)
  BY <1>10 DEF Draw, TypeOK
<1>11. ASSUME NEW c \in Calls, Write(c) \/ Insert(c) \/ CloudWrite(c)
       PROVE  \A b \in Calls : Locks(b)' => Locks(b)
  BY <1>10, <1>11 DEF Write, Insert, CloudWrite
<1>12. ASSUME NEW c \in Calls, Commit(c)
       PROVE  \A b \in Calls : Locks(b)' => Locks(b)
  <2>1. call[c].row \in Row
    BY <1>12 DEF Commit, Call, Sound, CallsSound, CallSound, TypeOK
  <2> QED
    BY <1>7, <1>12, <2>1 DEF Commit, Answers
<1>13. ASSUME NEW c \in Calls, Fail(c)
       PROVE  \A b \in Calls : Locks(b)' => Locks(b)
  BY <1>13 DEF Fail, TypeOK
<1>14. CASE Withdraw \/ Grant \/ UNCHANGED vars
  BY <1>14 DEF Withdraw, Grant, vars
<1> QED
  BY <1>1, <1>2, <1>3, <1>4, <1>5, <1>6, <1>8, <1>9, <1>11, <1>12, <1>13, <1>14
  DEF Next, Device, Serve

\* Only a commit, with the lock, and a withdrawal, without it, change the rows.
LEMMA VisibleStep ==
  ASSUME [Next]_vars
  PROVE  \/ UNCHANGED <<table, journal, applied>> /\ (consent => consent')
         \/ \E c \in Calls : Commit(c)
         \/ Withdraw
<1> USE DEF consents, rows
<1>1. ASSUME NEW d \in Devices, Device(d)
      PROVE  UNCHANGED <<table, journal, applied>> /\ (consent => consent')
  <2>1. UNCHANGED rows /\ UNCHANGED consents
    BY <1>1 DEF Device, Author, Push, Pull, GiveUp, Classify
  <2> QED
    BY <2>1
<1>2. ASSUME NEW c \in Calls, Serve(c)
      PROVE  \/ UNCHANGED <<table, journal, applied>> /\ (consent => consent')
             \/ Commit(c)
  <2>1. CASE \/ \E e \in CloudRows : CloudCall(c, e)
             \/ Lock(c) \/ WriteNothing(c) \/ Fail(c)
    BY <2>1 DEF CloudCall, Lock, WriteNothing, Fail
  <2>2. CASE Write(c) \/ Insert(c) \/ CloudWrite(c)
    BY <2>2 DEF Write, Insert, CloudWrite, Draw
  <2> QED
    BY <1>2, <2>1, <2>2 DEF Serve
<1>3. ASSUME Grant \/ UNCHANGED vars
      PROVE  UNCHANGED <<table, journal, applied>> /\ (consent => consent')
  BY <1>3 DEF Grant, vars
<1> QED
  BY <1>1, <1>2, <1>3 DEF Next

LEMMA ConsentedStep ==
  ASSUME WellFormed, Consented, [Next]_vars
  PROVE  Consented'
<1>1. LockExclusive'
  BY LockStep DEF Consented, LockExclusive, LockHeld
<1>2. ASSUME ~consent' PROVE WithdrawalPurges'
  <2>1. CASE ~consent
    <3>1. ~LockHeld /\ ~LockHeld'
      BY <2>1, LockStep DEF Consented, WithdrawalPurges, LockHeld
    <3>2. UNCHANGED <<table, journal>>
      BY <2>1, <3>1, VisibleStep DEF Commit, LockHeld, Locks, Withdraw
    <3> QED
      BY <2>1, <3>1, <3>2 DEF Consented, WithdrawalPurges
  <2>2. CASE consent
    <3>1. Withdraw
      BY <1>2, <2>2, VisibleStep DEF Commit, consents
    <3>2. ~LockHeld'
      BY <3>1 DEF Withdraw, LockHeld, Locks
    <3>3. \A e \in Entities : table'[e] # None => table'[e].deleted
      BY <3>1, TombstoneType DEF Withdraw, WellFormed, TypeOK
    <3> QED
      BY <3>1, <3>2, <3>3 DEF Withdraw, WithdrawalPurges
  <2> QED
    BY <2>1, <2>2
<1> QED
  BY <1>1, <1>2 DEF Consented, WithdrawalPurges

\* Every push serialises with a withdrawal on the consent row: none of the rows
\* it purged comes back while consent is gone (consent.py:51).
THEOREM WithdrawalHolds == Spec => []WithdrawalPurges
<1>1. Init => Consented
  BY DEF Init, Consented, LockExclusive, WithdrawalPurges, Locks, LockHeld
<1>2. WellFormed /\ Consented /\ [Next]_vars => Consented'
  BY ConsentedStep
<1>3. Consented => WithdrawalPurges
  BY DEF Consented
<1> QED
  BY <1>1, <1>2, <1>3, WellFormedAlways, PTL DEF Spec
-----------------------------------------------------------------------------
(***************************************************************************)
(* Commit numbers.  A number is drawn under the lock, so it is larger than *)
(* every number a device may have pulled when its row becomes visible.     *)
(***************************************************************************)
Written(c) == call[c] # None /\ call[c].stage = "written"

SeqBounds ==
  /\ \A e \in Entities : table[e] # None => table[e].seq <= seq
  /\ \A j \in journal : j.seq <= table[j.entity].seq
  /\ \A d \in Devices : cursor[d] <= seq

DrawnIsNewest ==
  \A c \in Calls : Written(c) =>
    /\ call[c].row.seq = seq
    /\ \A j \in journal : j.seq < seq
    /\ \A d \in Devices : cursor[d] < seq

\* The row a conflict will install is no older than what the device has seen.
ConflictIsCurrent ==
  \A d \in Devices :
    (waits[d] # None /\ call[waits[d]].stage = "conflict") =>
      \A j \in journal :
        (j.entity = call[waits[d]].entity /\ j.seq <= cursor[d]) => j.seq <= call[waits[d]].row.seq

CursorInv == SeqBounds /\ DrawnIsNewest /\ ConflictIsCurrent /\ CursorSkipsNothing

\* A step that only moves calls, and neither draws nor answers with a conflict.
LEMMA CursorFrame ==
  ASSUME CursorInv, UNCHANGED <<seq, table, journal, cursor, local>>,
         \A c \in Calls : Written(c)' => Written(c) /\ call'[c] = call[c],
         \A d \in Devices :
           (waits'[d] # None /\ call'[waits'[d]].stage = "conflict")
             => waits'[d] = waits[d] /\ call'[waits[d]] = call[waits[d]]
  PROVE  CursorInv'
<1>1. SeqBounds' /\ CursorSkipsNothing'
  BY DEF CursorInv, SeqBounds, CursorSkipsNothing
<1>2. DrawnIsNewest'
  BY DEF CursorInv, DrawnIsNewest
<1>3. ConflictIsCurrent'
  BY DEF CursorInv, ConflictIsCurrent
<1> QED
  BY <1>1, <1>2, <1>3 DEF CursorInv

LEMMA CursorStep ==
  ASSUME WellFormed, Consented, CursorInv, [Next]_vars
  PROVE  CursorInv'
<1> USE DEF WellFormed, consents, rows, cache, pending, Written
<1>0. WellFormed'
  BY TypeStep, SoundStep
<1>1. ASSUME NEW d \in Devices, NEW m \in Mutations, NEW e \in Entities \cup {None},
             NEW op \in {"upsert", "delete"}, Author(d, m, e, op)
      PROVE  CursorInv'
  BY <1>1, CursorFrame DEF Author
<1>2. ASSUME NEW d \in Devices, NEW c \in Calls, NEW m \in Mutations, Push(d, c, m)
      PROVE  CursorInv'
  <2>1. \A b \in Calls : Written(b)' => Written(b) /\ call'[b] = call[b]
    BY <1>2 DEF Push, TypeOK
  <2>2. \A x \in Devices :
          (waits'[x] # None /\ call'[waits'[x]].stage = "conflict")
             => waits'[x] = waits[x] /\ call'[waits[x]] = call[waits[x]]
    BY <1>2 DEF Push, TypeOK, Sound, WaitsSound
  <2> QED
    BY <1>2, <2>1, <2>2, CursorFrame DEF Push
<1>3. ASSUME NEW d \in Devices, NEW j \in journal, Pull(d, j.seq)
      PROVE  CursorInv'
  <2> DEFINE page == {i \in journal : cursor[d] < i.seq /\ i.seq <= j.seq}
  <2>1. /\ cursor' = [cursor EXCEPT ![d] = j.seq] /\ waits[d] = None
        /\ local' = [local EXCEPT ![d] = [e \in Entities |->
                       IF \E i \in page : i.entity = e THEN Pulled(page, e) ELSE @[e]]]
        /\ UNCHANGED <<seq, table, journal, call, waits>>
    BY <1>3 DEF Pull
  <2>2. j.seq <= seq /\ j.seq \in Nat
    BY DEF CursorInv, SeqBounds, TypeOK, Sound, JournalledExist, Row, Entry
  <2>3. SeqBounds'
    BY <2>1, <2>2 DEF CursorInv, SeqBounds, TypeOK
  <2>4. DrawnIsNewest'
    BY <2>1 DEF CursorInv, DrawnIsNewest, TypeOK
  <2>5. ConflictIsCurrent'
    BY <2>1 DEF CursorInv, ConflictIsCurrent, TypeOK
  <2>6. ASSUME NEW x \in Devices, NEW i \in journal, i.seq <= cursor'[x]
        PROVE  local'[x][i.entity].seq >= i.seq
    <3>0. i.entity \in Entities /\ i.seq \in Nat /\ cursor[d] \in Nat
      BY DEF TypeOK, Entry
    <3>1. CASE x # d
      BY <2>1, <2>6, <3>1 DEF CursorInv, CursorSkipsNothing, TypeOK
    <3>2. CASE x = d /\ \E k \in page : k.entity = i.entity
      <4> DEFINE gone == {k \in page : /\ k.entity = i.entity /\ k.op = "delete"
                                       /\ \A l \in page : l.entity = i.entity => l.seq <= k.seq}
      <4>1. local'[x][i.entity] = Pulled(page, i.entity)
        BY <2>1, <3>0, <3>2 DEF TypeOK
      <4>2. CASE gone = {}
        <5>1. Pulled(page, i.entity) = CopyOf(table[i.entity])
          BY <4>2 DEF Pulled
        <5>2. CopyOf(table[i.entity]).seq = table[i.entity].seq
          BY <3>0, CopyType DEF TypeOK, Sound, JournalledExist
        <5> QED
          BY <4>1, <5>1, <5>2, <3>0 DEF CursorInv, SeqBounds, TypeOK, Sound, JournalledExist, Row
      <4>3. CASE gone # {}
        <5>1. PICK k \in gone : Pulled(page, i.entity) = [seq |-> k.seq, vv |-> Above!Zero]
          BY <4>3 DEF Pulled
        <5>2. CASE i \in page
          BY <4>1, <5>1, <5>2
        <5>3. CASE i.seq <= cursor[d]
          BY <4>1, <5>1, <5>3, <3>0 DEF TypeOK, Entry
        <5> QED
          BY <2>1, <2>6, <3>0, <3>2, <5>2, <5>3 DEF TypeOK
      <4> QED
        BY <4>2, <4>3
    <3>3. CASE x = d /\ ~ \E k \in page : k.entity = i.entity
      <4>1. local'[x][i.entity] = local[d][i.entity]
        BY <2>1, <3>0, <3>3 DEF TypeOK
      <4>2. i.seq <= cursor[d]
        BY <2>1, <2>6, <3>0, <3>3 DEF TypeOK
      <4> QED
        BY <4>1, <4>2 DEF CursorInv, CursorSkipsNothing
    <3> QED
      BY <3>1, <3>2, <3>3
  <2>7. CursorSkipsNothing'
    BY <2>1, <2>6 DEF CursorSkipsNothing
  <2> QED
    BY <2>3, <2>4, <2>5, <2>7 DEF CursorInv
<1>4. ASSUME NEW d \in Devices, GiveUp(d)
      PROVE  CursorInv'
  <2>1. \A b \in Calls : Written(b)' => Written(b) /\ call'[b] = call[b]
    BY <1>4 DEF GiveUp, TypeOK
  <2>2. \A x \in Devices :
          (waits'[x] # None /\ call'[waits'[x]].stage = "conflict")
             => waits'[x] = waits[x] /\ call'[waits[x]] = call[waits[x]]
    BY <1>4 DEF GiveUp, TypeOK, Sound, WaitsSound
  <2> QED
    BY <1>4, <2>1, <2>2, CursorFrame DEF GiveUp
<1>5. ASSUME NEW d \in Devices, Classify(d)
      PROVE  CursorInv'
  <2>1. \A b \in Calls : Written(b)' => Written(b) /\ call'[b] = call[b]
    BY <1>5 DEF Classify, TypeOK
  <2>2. \A x \in Devices :
          (waits'[x] # None /\ call'[waits'[x]].stage = "conflict")
             => waits'[x] = waits[x] /\ call'[waits[x]] = call[waits[x]]
    BY <1>5 DEF Classify, TypeOK, Sound, WaitsSound
  <2>3. CASE call[waits[d]].stage # "conflict"
    BY <1>5, <2>1, <2>2, <2>3, CursorFrame DEF Classify
  <2>4. CASE call[waits[d]].stage = "conflict"
    <3> DEFINE a == call[waits[d]]
    <3>1. a \in Call /\ a.row \in Row /\ a.entity \in Entities
      BY <1>5, <2>4 DEF Classify, TypeOK, Sound, WaitsSound, CallsSound, CallSound, Call
    <3>2. CopyOf(a.row).seq = a.row.seq
      BY <3>1, CopyType
    <3>3. /\ local' = [local EXCEPT ![d] = [@ EXCEPT ![a.entity] = CopyOf(a.row)]]
          /\ UNCHANGED <<seq, table, journal, cursor>>
      BY <1>5, <2>4 DEF Classify
    <3>4. SeqBounds'
      BY <3>3 DEF CursorInv, SeqBounds
    <3>5. DrawnIsNewest'
      BY <2>1, <3>3 DEF CursorInv, DrawnIsNewest
    <3>6. ConflictIsCurrent'
      BY <2>2, <3>3 DEF CursorInv, ConflictIsCurrent
    <3>7. CursorSkipsNothing'
      <4>1. \A i \in journal : (i.entity = a.entity /\ i.seq <= cursor[d]) => i.seq <= a.row.seq
        BY <1>5, <2>4 DEF Classify, CursorInv, ConflictIsCurrent
      <4> HIDE DEF a
      <4>2. ASSUME NEW x \in Devices, NEW i \in journal, i.seq <= cursor[x]
            PROVE  local'[x][i.entity].seq >= i.seq
        <5>1. i.entity \in Entities /\ i.seq \in Nat
          BY DEF TypeOK, Entry
        <5>2. local[x][i.entity].seq >= i.seq
          BY <4>2 DEF CursorInv, CursorSkipsNothing
        <5>3. CASE x = d /\ i.entity = a.entity
          <6>1. local'[x][i.entity] = CopyOf(a.row)
            BY <3>1, <3>3, <5>3 DEF TypeOK
          <6> QED
            BY <3>1, <3>2, <4>1, <4>2, <5>1, <5>3, <6>1 DEF Row
        <5>4. CASE ~(x = d /\ i.entity = a.entity)
          <6>1. local'[x][i.entity] = local[x][i.entity]
            BY <3>3, <5>1, <5>4 DEF TypeOK
          <6> QED
            BY <5>2, <6>1
        <5> QED
          BY <5>3, <5>4
      <4> QED
        BY <3>3, <4>2 DEF CursorSkipsNothing
    <3> QED
      BY <3>4, <3>5, <3>6, <3>7 DEF CursorInv
  <2> QED
    BY <2>3, <2>4
<1>6. ASSUME NEW c \in Calls, NEW e \in CloudRows, CloudCall(c, e)
      PROVE  CursorInv'
  <2>1. \A b \in Calls : Written(b)' => Written(b) /\ call'[b] = call[b]
    BY <1>6 DEF CloudCall, TypeOK
  <2>2. \A x \in Devices :
          (waits'[x] # None /\ call'[waits'[x]].stage = "conflict")
             => waits'[x] = waits[x] /\ call'[waits[x]] = call[waits[x]]
    BY <1>6 DEF CloudCall, TypeOK, Sound, WaitsSound
  <2> QED
    BY <1>6, <2>1, <2>2, CursorFrame DEF CloudCall
<1>7. ASSUME NEW c \in Calls, Lock(c)
      PROVE  CursorInv'
  <2>1. /\ \A b \in Calls \ {c} : call'[b] = call[b]
        /\ call'[c] # None => call'[c].stage \in {"stale", "consent_required", "locked"}
        /\ call[c] # None /\ call[c].stage = "sent"
        /\ UNCHANGED <<seq, table, journal, cursor, local, waits>>
    <3>1. CASE call' = [call EXCEPT ![c] = [@ EXCEPT !.stage = "locked"]]
      BY <1>7, <3>1 DEF Lock, TypeOK, Call
    <3>2. CASE Answer(c, "stale", None) \/ Answer(c, "consent_required", None)
      BY <1>7, <3>2, AnswerEffect DEF Lock, Answers
    <3> QED
      BY <1>7, <3>1, <3>2 DEF Lock
  <2>2. \A b \in Calls : Written(b)' => Written(b) /\ call'[b] = call[b]
    BY <2>1
  <2>3. \A x \in Devices :
          (waits'[x] # None /\ call'[waits'[x]].stage = "conflict")
             => waits'[x] = waits[x] /\ call'[waits[x]] = call[waits[x]]
    BY <1>0, <2>1 DEF TypeOK, Sound, WaitsSound
  <2> QED
    BY <2>1, <2>2, <2>3, CursorFrame
<1>8. ASSUME NEW c \in Calls, WriteNothing(c)
      PROVE  CursorInv'
  <2>1. /\ call[c] \in Call /\ call[c].stage = "locked" /\ call[c].entity \in Entities
        /\ UNCHANGED <<seq, table, journal, cursor, local, waits>>
    BY <1>8 DEF WriteNothing, Call, TypeOK
  <2>2. table[call[c].entity] \in Row \cup {None}
    BY <2>1 DEF TypeOK
  <2>3. /\ \A b \in Calls \ {c} : call'[b] = call[b]
        /\ call'[c] # None =>
             /\ call'[c].stage \in {"applied", "rejected", "conflict"}
             /\ call'[c].stage = "conflict" => call'[c].row = table[call[c].entity]
             /\ call'[c].entity = call[c].entity
    BY <1>8, <2>2, AnswerEffect DEF WriteNothing, Answers
  <2>4. SeqBounds' /\ CursorSkipsNothing'
    BY <2>1 DEF CursorInv, SeqBounds, CursorSkipsNothing
  <2>5. DrawnIsNewest'
    BY <2>1, <2>3 DEF CursorInv, DrawnIsNewest
  <2>6. ConflictIsCurrent'
    <3>1. ASSUME NEW d \in Devices, waits[d] # None, call'[waits[d]].stage = "conflict",
                 NEW j \in journal, j.entity = call'[waits[d]].entity, j.seq <= cursor[d]
          PROVE  j.seq <= call'[waits[d]].row.seq
      <4>1. CASE waits[d] = c
        BY <1>0, <2>1, <2>3, <3>1, <4>1 DEF CursorInv, SeqBounds, Sound, WaitsSound
      <4>2. CASE waits[d] # c
        BY <2>3, <3>1, <4>2 DEF CursorInv, ConflictIsCurrent, TypeOK
      <4> QED
        BY <4>1, <4>2
    <3> QED
      BY <2>1, <3>1 DEF ConflictIsCurrent
  <2> QED
    BY <2>4, <2>5, <2>6 DEF CursorInv
<1>9. ASSUME NEW c \in Calls, NEW e \in Entities, NEW row \in Row, row.seq = seq + 1,
             Locks(c), Draw(c, e, row)
      PROVE  CursorInv'
  <2>1. /\ \A b \in Calls \ {c} : call'[b] = call[b] /\ ~Locks(b)
        /\ call'[c] # None /\ call'[c].stage = "written" /\ call'[c].row = row
        /\ seq' = seq + 1
        /\ UNCHANGED <<table, journal, cursor, local, waits>>
    <3>1. call[c] \in Call /\ [call[c] EXCEPT !.stage = "written", !.entity = e, !.row = row] \in Call
      BY <1>9, StageType DEF Locks, TypeOK
    <3>2. /\ [call[c] EXCEPT !.stage = "written", !.entity = e, !.row = row].stage = "written"
          /\ [call[c] EXCEPT !.stage = "written", !.entity = e, !.row = row].row = row
      BY <3>1 DEF Call
    <3> QED
      BY <1>9, <3>1, <3>2 DEF Draw, TypeOK, Consented, LockExclusive
  <2>2. SeqBounds'
    BY <2>1 DEF CursorInv, SeqBounds, TypeOK, Row
  <2>3. \A j \in journal : j.seq < seq'
    BY <2>1 DEF CursorInv, SeqBounds, TypeOK, Sound, JournalledExist, Row, Entry
  <2>4. DrawnIsNewest'
    <3>1. \A b \in Calls : Written(b)' => b = c
      BY <2>1 DEF Locks
    <3>2. \A d \in Devices : cursor[d] < seq'
      BY <2>1 DEF CursorInv, SeqBounds, TypeOK
    <3> QED
      BY <1>9, <2>1, <2>3, <3>1, <3>2 DEF DrawnIsNewest
  <2>5. ConflictIsCurrent'
    BY <1>0, <2>1 DEF CursorInv, ConflictIsCurrent, TypeOK
  <2>6. CursorSkipsNothing'
    BY <2>1 DEF CursorInv, CursorSkipsNothing
  <2> QED
    BY <2>2, <2>4, <2>5, <2>6 DEF CursorInv
<1>10. ASSUME NEW c \in Calls, Write(c)
       PROVE  CursorInv'
  <2>1. /\ call[c] \in Call /\ call[c].entity \in Entities
        /\ table[call[c].entity] \in Row \cup {None}
    BY <1>10 DEF Write, Call, TypeOK
  <2>2. authored[call[c].mid] \in Edit
    BY <1>10, <2>1 DEF Write, Call, Sound, CallsSound, CallSound, TypeOK
  <2>3. /\ Stamp(table[call[c].entity], authored[call[c].mid], call[c].mid) \in Row
        /\ Stamp(table[call[c].entity], authored[call[c].mid], call[c].mid).seq = seq + 1
    BY <2>1, <2>2, StampType DEF Call
  <2>4. /\ Locks(c)
        /\ Draw(c, call[c].entity,
                 Stamp(table[call[c].entity], authored[call[c].mid], call[c].mid))
    BY <1>10 DEF Write, Locks
  <2> QED
    BY <1>9, <2>1, <2>3, <2>4
<1>17. ASSUME NEW c \in Calls, Insert(c)
       PROVE  CursorInv'
  <2>1. PICK e \in Generated :
          table[e] = None /\ Draw(c, e, Stamp(None, authored[call[c].mid], call[c].mid))
    BY <1>17 DEF Insert
  <2>2. /\ Stamp(None, authored[call[c].mid], call[c].mid) \in Row
        /\ Stamp(None, authored[call[c].mid], call[c].mid).seq = seq + 1
    BY <1>17, InsertStampType DEF Insert
  <2> QED
    BY <1>9, <1>17, <2>1, <2>2 DEF Insert, Locks
<1>11. ASSUME NEW c \in Calls, CloudWrite(c)
       PROVE  CursorInv'
  <2>1. call[c].entity \in Entities /\ table[call[c].entity] \in Row \cup {None}
    BY <1>11 DEF CloudWrite, Call, TypeOK, Sound, CallsSound, CallSound
  <2>2. PICK new \in CloudStamps(table[call[c].entity]) : Draw(c, call[c].entity, new)
    BY <1>11 DEF CloudWrite
  <2>3. new \in Row /\ new.seq = seq + 1
    BY <2>1, <2>2, CloudStampType
  <2> QED
    BY <1>9, <1>11, <2>1, <2>2, <2>3 DEF CloudWrite, Locks
<1>12. ASSUME NEW c \in Calls, Commit(c)
       PROVE  CursorInv'
  <2> DEFINE row == call[c].row
             e   == call[c].entity
             new == [seq |-> row.seq, entity |-> e,
                     op |-> IF row.deleted THEN "delete" ELSE "upsert"]
  <2>1. row \in Row /\ e \in Entities /\ row.seq = seq
    BY <1>12 DEF Commit, Call, Sound, CallsSound, CallSound, TypeOK, CursorInv, DrawnIsNewest
  <2>2. /\ table' = [table EXCEPT ![e] = row] /\ journal' = journal \cup {new}
        /\ UNCHANGED <<seq, waits, cursor, local>>
    BY <1>12 DEF Commit
  <2>3. /\ \A b \in Calls \ {c} : call'[b] = call[b] /\ ~Locks(b)
        /\ call'[c] # None => call'[c].stage = "applied"
    BY <1>12, <2>1, AnswerEffect DEF Commit, Answers, Consented, LockExclusive, Locks
  <2>4. \A d \in Devices : cursor[d] < row.seq
    BY <1>12, <2>1 DEF Commit, CursorInv, DrawnIsNewest
  <2>5. \A j \in journal : j.seq < row.seq /\ j.seq \in Nat
    BY <1>12, <2>1 DEF Commit, CursorInv, DrawnIsNewest, TypeOK, Entry
  <2> HIDE DEF row, e
  <2>6. SeqBounds'
    <3>1. \A x \in Entities : table'[x] # None => table'[x].seq <= seq'
      BY <2>1, <2>2 DEF CursorInv, SeqBounds, TypeOK
    <3>2. ASSUME NEW j \in journal' PROVE j.seq <= table'[j.entity].seq
      <4>1. CASE j = new
        BY <2>1, <2>2, <4>1 DEF TypeOK, Row
      <4>2. CASE j \in journal /\ j.entity = e
        BY <2>1, <2>2, <2>5, <4>2 DEF TypeOK, Row
      <4>3. CASE j \in journal /\ j.entity # e
        BY <2>1, <2>2, <4>3 DEF CursorInv, SeqBounds, TypeOK
      <4> QED
        BY <2>2, <4>1, <4>2, <4>3
    <3> QED
      BY <2>2, <3>1, <3>2 DEF CursorInv, SeqBounds
  <2>7. DrawnIsNewest'
    BY <2>3 DEF DrawnIsNewest, Locks
  <2>8. ConflictIsCurrent'
    <3>1. ASSUME NEW d \in Devices, waits[d] # None, call'[waits[d]].stage = "conflict",
                 NEW j \in journal', j.entity = call'[waits[d]].entity, j.seq <= cursor[d]
          PROVE  j.seq <= call'[waits[d]].row.seq
      <4>1. j \in journal
        BY <2>1, <2>2, <2>4, <3>1 DEF TypeOK, Row
      <4>2. waits[d] # c /\ waits[d] \in Calls
        BY <1>0, <2>2, <2>3, <3>1 DEF Sound, WaitsSound, TypeOK
      <4> QED
        BY <2>3, <3>1, <4>1, <4>2 DEF CursorInv, ConflictIsCurrent
    <3> QED
      BY <2>2, <3>1 DEF ConflictIsCurrent
  <2>9. CursorSkipsNothing'
    <3>1. ASSUME NEW d \in Devices, NEW j \in journal', j.seq <= cursor[d]
          PROVE  j \in journal
      BY <2>1, <2>2, <2>4, <3>1 DEF TypeOK, Row
    <3> QED
      BY <2>2, <3>1 DEF CursorInv, CursorSkipsNothing
  <2> QED
    BY <2>6, <2>7, <2>8, <2>9 DEF CursorInv
<1>13. ASSUME NEW c \in Calls, Fail(c)
       PROVE  CursorInv'
  <2>1. \A b \in Calls : Written(b)' => Written(b) /\ call'[b] = call[b]
    BY <1>13 DEF Fail, TypeOK
  <2>2. \A x \in Devices :
          (waits'[x] # None /\ call'[waits'[x]].stage = "conflict")
             => waits'[x] = waits[x] /\ call'[waits[x]] = call[waits[x]]
    BY <1>13 DEF Fail, TypeOK, Sound, WaitsSound
  <2> QED
    BY <1>13, <2>1, <2>2, CursorFrame DEF Fail
<1>14. CASE Withdraw
  <2>1. /\ seq' = seq + 1 /\ journal' = {} /\ \A c \in Calls : ~Locks(c)
        /\ UNCHANGED <<call, waits, cursor, local>>
        /\ table' = [e \in Entities |-> Tombstone(table[e])]
    BY <1>14 DEF Withdraw, LockHeld
  <2>2. SeqBounds'
    <3>1. ASSUME NEW e \in Entities, table'[e] # None PROVE table'[e].seq <= seq'
      <4>1. table[e] \in Row /\ table'[e] = Tombstone(table[e])
        BY <2>1, <3>1, TombstoneType DEF TypeOK
      <4>2. table'[e].seq \in {table[e].seq, seq + 1} /\ table[e].seq <= seq
        BY <4>1, TombstoneType DEF CursorInv, SeqBounds
      <4> QED
        BY <2>1, <4>1, <4>2 DEF TypeOK, Row
    <3> QED
      BY <2>1, <3>1 DEF CursorInv, SeqBounds, TypeOK
  <2>3. DrawnIsNewest' /\ ConflictIsCurrent' /\ CursorSkipsNothing'
    BY <2>1 DEF DrawnIsNewest, ConflictIsCurrent, CursorSkipsNothing, Locks
  <2> QED
    BY <2>2, <2>3 DEF CursorInv
<1>15. CASE Grant
  BY <1>15, CursorFrame DEF Grant
<1>16. CASE UNCHANGED vars
  BY <1>16, CursorFrame DEF vars
<1> QED
  BY <1>1, <1>2, <1>3, <1>4, <1>5, <1>6, <1>7, <1>8, <1>10, <1>11, <1>12, <1>13, <1>14,
     <1>15, <1>16, <1>17 DEF Next, Device, Serve

\* The lock makes commit numbers visible in the order they are drawn, so that a
\* device's cursor never jumps over a change it has not pulled (client.py:351).
THEOREM NoChangeIsSkipped == Spec => []CursorSkipsNothing
<1>1. Init => Consented /\ CursorInv
  BY DEF Init, Consented, LockExclusive, WithdrawalPurges, Locks, LockHeld, CursorInv,
         SeqBounds, DrawnIsNewest, ConflictIsCurrent, CursorSkipsNothing, Written
<1>2. WellFormed /\ Consented /\ CursorInv /\ [Next]_vars => (Consented /\ CursorInv)'
  BY ConsentedStep, CursorStep
<1>3. CursorInv => CursorSkipsNothing
  BY DEF CursorInv
<1> QED
  BY <1>1, <1>2, <1>3, WellFormedAlways, PTL DEF Spec
-----------------------------------------------------------------------------
(***************************************************************************)
(* What a device has once it has caught up.                                *)
(***************************************************************************)
\* The last journal entry of a row tells whether the row is deleted.
JournalTells ==
  \A j \in journal :
    j.seq = table[j.entity].seq => (j.op = "delete" <=> table[j.entity].deleted)

\* A conflict that reaches a device that has pulled its row's last change brings
\* that very row: the device has not pulled since it pushed.
ConflictAgrees ==
  \A d \in Devices :
    (waits[d] # None /\ call[waits[d]].stage = "conflict") =>
      \A j \in journal :
        (/\ j.entity = call[waits[d]].entity
         /\ j.seq <= cursor[d]
         /\ j.seq = table[j.entity].seq)
          => call[waits[d]].row = table[j.entity]

Agreement == JournalTells /\ ConflictAgrees /\ CaughtUpAgrees

\* No conflict reaches a device that was not there before the step.
NoNewConflict ==
  \A d \in Devices :
    (waits'[d] # None /\ call'[waits'[d]].stage = "conflict")
      => waits'[d] = waits[d] /\ call'[waits[d]] = call[waits[d]]

\* Five kinds of steps touch what a device has, or what it will be told.
LEMMA QuietStep ==
  ASSUME WellFormed, [Next]_vars
  PROVE  \/ UNCHANGED <<table, journal, cursor, local>> /\ NoNewConflict
         \/ \E d \in Devices : \E j \in journal : Pull(d, j.seq)
         \/ \E d \in Devices : Classify(d) /\ call[waits[d]].stage = "conflict"
         \/ \E c \in Calls : WriteNothing(c)
         \/ \E c \in Calls : Commit(c)
         \/ Withdraw
<1> USE DEF WellFormed, consents, rows, cache, pending, NoNewConflict
<1>0. WellFormed'
  BY TypeStep, SoundStep
<1>1. ASSUME NEW d \in Devices, NEW m \in Mutations, NEW e \in Entities \cup {None},
             NEW op \in {"upsert", "delete"}, Author(d, m, e, op)
      PROVE  UNCHANGED <<table, journal, cursor, local>> /\ NoNewConflict
  BY <1>1 DEF Author
<1>2. ASSUME NEW d \in Devices, NEW c \in Calls, NEW m \in Mutations, Push(d, c, m)
      PROVE  UNCHANGED <<table, journal, cursor, local>> /\ NoNewConflict
  BY <1>2 DEF Push, TypeOK, Sound, WaitsSound
<1>3. ASSUME NEW d \in Devices, GiveUp(d)
      PROVE  UNCHANGED <<table, journal, cursor, local>> /\ NoNewConflict
  BY <1>3 DEF GiveUp, TypeOK, Sound, WaitsSound
<1>4. ASSUME NEW d \in Devices, Classify(d), call[waits[d]].stage # "conflict"
      PROVE  UNCHANGED <<table, journal, cursor, local>> /\ NoNewConflict
  <2>1. UNCHANGED <<table, journal, cursor, local>>
    BY <1>4 DEF Classify
  <2>2. NoNewConflict
    BY <1>4 DEF Classify, TypeOK, Sound, WaitsSound
  <2> QED
    BY <2>1, <2>2
<1>5. ASSUME NEW c \in Calls, NEW e \in CloudRows, CloudCall(c, e)
      PROVE  UNCHANGED <<table, journal, cursor, local>> /\ NoNewConflict
  BY <1>5 DEF CloudCall, TypeOK, Sound, WaitsSound
<1>6. ASSUME NEW c \in Calls, Lock(c)
      PROVE  UNCHANGED <<table, journal, cursor, local>> /\ NoNewConflict
  <2>1. /\ \A b \in Calls \ {c} : call'[b] = call[b]
        /\ call'[c] # None => call'[c].stage \in {"stale", "consent_required", "locked"}
        /\ UNCHANGED <<table, journal, cursor, local, waits>>
    <3>1. CASE call' = [call EXCEPT ![c] = [@ EXCEPT !.stage = "locked"]]
      BY <1>6, <3>1 DEF Lock, TypeOK, Call
    <3>2. CASE Answer(c, "stale", None) \/ Answer(c, "consent_required", None)
      BY <1>6, <3>2, AnswerEffect DEF Lock, Answers
    <3> QED
      BY <1>6, <3>1, <3>2 DEF Lock
  <2> QED
    BY <1>0, <2>1 DEF TypeOK, Sound, WaitsSound
<1>7. ASSUME NEW c \in Calls, Write(c) \/ Insert(c) \/ CloudWrite(c)
      PROVE  UNCHANGED <<table, journal, cursor, local>> /\ NoNewConflict
  <2>1. PICK e, row : Draw(c, e, row)
    BY <1>7 DEF Write, Insert, CloudWrite
  <2>2. /\ call' = [call EXCEPT ![c] = [@ EXCEPT !.stage = "written", !.entity = e, !.row = row]]
        /\ UNCHANGED <<table, journal, cursor, local, waits>>
    BY <2>1 DEF Draw
  <2>3. call[c] \in Call
    BY <1>7 DEF Write, Insert, CloudWrite, TypeOK
  <2>4. call'[c].stage = "written" /\ \A b \in Calls \ {c} : call'[b] = call[b]
    BY <2>2, <2>3 DEF TypeOK, Call
  <2> QED
    BY <1>0, <2>2, <2>4 DEF TypeOK, Sound, WaitsSound
<1>8. ASSUME NEW c \in Calls, Fail(c)
      PROVE  UNCHANGED <<table, journal, cursor, local>> /\ NoNewConflict
  BY <1>8 DEF Fail, TypeOK, Sound, WaitsSound
<1>9. ASSUME Grant \/ UNCHANGED vars
      PROVE  UNCHANGED <<table, journal, cursor, local>> /\ NoNewConflict
  BY <1>9 DEF Grant, vars
<1> QED
  BY <1>1, <1>2, <1>3, <1>4, <1>5, <1>6, <1>7, <1>8, <1>9 DEF Next, Device, Serve

LEMMA AgreementStep ==
  ASSUME WellFormed, Consented, CursorInv, Agreement, [Next]_vars
  PROVE  Agreement'
<1> USE DEF WellFormed, rows, cache
<1>0. WellFormed'
  BY TypeStep, SoundStep
<1>1. CASE UNCHANGED <<table, journal, cursor, local>> /\ NoNewConflict
  <2>1. JournalTells' /\ CaughtUpAgrees'
    BY <1>1 DEF Agreement, JournalTells, CaughtUpAgrees, CopyOf
  <2>2. ConflictAgrees'
    BY <1>1 DEF Agreement, ConflictAgrees, NoNewConflict
  <2> QED
    BY <2>1, <2>2 DEF Agreement
<1>2. ASSUME NEW d \in Devices, NEW j \in journal, Pull(d, j.seq)
      PROVE  Agreement'
  <2> DEFINE page == {i \in journal : cursor[d] < i.seq /\ i.seq <= j.seq}
  <2>1. /\ cursor' = [cursor EXCEPT ![d] = j.seq] /\ waits[d] = None
        /\ local' = [local EXCEPT ![d] = [e \in Entities |->
                       IF \E i \in page : i.entity = e THEN Pulled(page, e) ELSE @[e]]]
        /\ UNCHANGED <<table, journal, call, waits>>
    BY <1>2 DEF Pull
  <2>2. JournalTells'
    BY <2>1 DEF Agreement, JournalTells
  <2>3. ConflictAgrees'
    BY <2>1 DEF Agreement, ConflictAgrees, TypeOK
  <2>4. ASSUME NEW x \in Devices, NEW i \in journal, i.seq <= cursor'[x],
               i.seq = table[i.entity].seq
        PROVE  local'[x][i.entity] = CopyOf(table[i.entity])
    <3> DEFINE e == i.entity
    <3>1. /\ e \in Entities /\ i.seq \in Nat /\ cursor[d] \in Nat
          /\ table[e] \in Row
      BY DEF TypeOK, Entry, Sound, JournalledExist
    <3>2. \A k \in journal : k.entity = e => k.seq \in Nat /\ k.seq <= i.seq
      BY <2>4 DEF CursorInv, SeqBounds, TypeOK, Entry
    <3>3. CASE x # d
      BY <2>1, <2>4, <3>3 DEF Agreement, CaughtUpAgrees, TypeOK
    <3>4. CASE x = d /\ i \notin page
      <4>1. i.seq <= cursor[d]
        BY <2>1, <2>4, <3>1, <3>4 DEF TypeOK
      <4>2. ~ \E k \in page : k.entity = e
        BY <3>1, <3>2, <4>1
      <4>3. local'[x][e] = local[d][e]
        BY <2>1, <3>1, <3>4, <4>2 DEF TypeOK
      <4> QED
        BY <2>4, <3>4, <4>1, <4>3 DEF Agreement, CaughtUpAgrees
    <3>5. CASE x = d /\ i \in page
      <4> DEFINE gone == {k \in page : /\ k.entity = e /\ k.op = "delete"
                                       /\ \A l \in page : l.entity = e => l.seq <= k.seq}
      <4>1. local'[x][e] = Pulled(page, e)
        BY <2>1, <3>1, <3>5 DEF TypeOK
      <4>2. CASE gone = {}
        BY <4>1, <4>2 DEF Pulled
      <4>3. CASE gone # {}
        <5>1. PICK k \in gone : Pulled(page, e) = [seq |-> k.seq, vv |-> Above!Zero]
          BY <4>3 DEF Pulled
        <5>2. k \in journal /\ k.entity = e /\ k.op = "delete" /\ k.seq = table[e].seq
          BY <2>4, <3>2, <3>5, <5>1
        <5>3. table[e].deleted
          BY <5>2 DEF Agreement, JournalTells
        <5> QED
          BY <4>1, <5>1, <5>2, <5>3 DEF CopyOf
      <4> QED
        BY <4>2, <4>3
    <3> QED
      BY <3>3, <3>4, <3>5
  <2>5. CaughtUpAgrees'
    <3>1. \A e : CopyOf(table[e])' = CopyOf(table[e])
      BY <2>1 DEF CopyOf
    <3> QED
      BY <2>1, <2>4, <3>1 DEF CaughtUpAgrees
  <2> QED
    BY <2>2, <2>3, <2>5 DEF Agreement
<1>3. ASSUME NEW d \in Devices, Classify(d), call[waits[d]].stage = "conflict"
      PROVE  Agreement'
  <2> DEFINE a == call[waits[d]]
  <2>1. a \in Call /\ a.entity \in Entities
    BY <1>3 DEF Classify, TypeOK, Sound, WaitsSound, CallsSound, CallSound, Call
  <2>2. /\ local' = [local EXCEPT ![d] = [@ EXCEPT ![a.entity] = CopyOf(a.row)]]
        /\ UNCHANGED <<table, journal, cursor>>
    BY <1>3 DEF Classify
  <2>3. NoNewConflict
    BY <1>3 DEF Classify, NoNewConflict, TypeOK, Sound, WaitsSound
  <2>4. JournalTells'
    BY <2>2 DEF Agreement, JournalTells
  <2>5. ConflictAgrees'
    BY <2>2, <2>3 DEF Agreement, ConflictAgrees, NoNewConflict
  <2>6. \A j \in journal :
          (j.entity = a.entity /\ j.seq <= cursor[d] /\ j.seq = table[j.entity].seq)
            => a.row = table[j.entity]
    BY <1>3 DEF Classify, Agreement, ConflictAgrees
  <2> HIDE DEF a
  <2>7. ASSUME NEW x \in Devices, NEW j \in journal, j.seq <= cursor[x],
               j.seq = table[j.entity].seq
        PROVE  local'[x][j.entity] = CopyOf(table[j.entity])
    <3>1. j.entity \in Entities
      BY DEF TypeOK, Entry
    <3>2. CASE x = d /\ j.entity = a.entity
      <4>1. local'[x][j.entity] = CopyOf(a.row)
        BY <2>1, <2>2, <3>2 DEF TypeOK
      <4> QED
        BY <2>6, <2>7, <3>2, <4>1
    <3>3. CASE ~(x = d /\ j.entity = a.entity)
      <4>1. local'[x][j.entity] = local[x][j.entity]
        BY <2>2, <3>1, <3>3 DEF TypeOK
      <4> QED
        BY <2>7, <4>1 DEF Agreement, CaughtUpAgrees
    <3> QED
      BY <3>2, <3>3
  <2>8. CaughtUpAgrees'
    <3>1. \A e : CopyOf(table[e])' = CopyOf(table[e])
      BY <2>2 DEF CopyOf
    <3> QED
      BY <2>2, <2>7, <3>1 DEF CaughtUpAgrees
  <2> QED
    BY <2>4, <2>5, <2>8 DEF Agreement
<1>4. ASSUME NEW c \in Calls, WriteNothing(c)
      PROVE  Agreement'
  <2>1. /\ call[c] \in Call /\ call[c].entity \in Entities
        /\ UNCHANGED <<table, journal, cursor, local, waits>>
    BY <1>4 DEF WriteNothing, Call, TypeOK
  <2>2. table[call[c].entity] \in Row \cup {None}
    BY <2>1 DEF TypeOK
  <2>3. /\ \A b \in Calls \ {c} : call'[b] = call[b]
        /\ call'[c] # None =>
             /\ call'[c].stage = "conflict" => call'[c].row = table[call[c].entity]
             /\ call'[c].entity = call[c].entity
    BY <1>4, <2>2, AnswerEffect DEF WriteNothing, Answers
  <2>4. JournalTells' /\ CaughtUpAgrees'
    BY <2>1 DEF Agreement, JournalTells, CaughtUpAgrees, CopyOf
  <2>5. ConflictAgrees'
    <3>1. ASSUME NEW d \in Devices, waits[d] # None, call'[waits[d]].stage = "conflict",
                 NEW j \in journal, j.entity = call'[waits[d]].entity, j.seq <= cursor[d],
                 j.seq = table[j.entity].seq
          PROVE  call'[waits[d]].row = table[j.entity]
      <4>1. CASE waits[d] = c
        BY <1>0, <2>1, <2>3, <3>1, <4>1 DEF Sound, WaitsSound
      <4>2. CASE waits[d] # c
        <5>1. call'[waits[d]] = call[waits[d]]
          BY <2>3, <3>1, <4>2 DEF TypeOK
        <5> QED
          BY <3>1, <5>1 DEF Agreement, ConflictAgrees
      <4> QED
        BY <4>1, <4>2
    <3> QED
      BY <2>1, <3>1 DEF ConflictAgrees
  <2> QED
    BY <2>4, <2>5 DEF Agreement
<1>5. ASSUME NEW c \in Calls, Commit(c)
      PROVE  Agreement'
  <2> DEFINE row == call[c].row
             e   == call[c].entity
             new == [seq |-> row.seq, entity |-> e,
                     op |-> IF row.deleted THEN "delete" ELSE "upsert"]
  <2>1. row \in Row /\ e \in Entities
    BY <1>5 DEF Commit, Call, Sound, CallsSound, CallSound, TypeOK
  <2>2. /\ table' = [table EXCEPT ![e] = row] /\ journal' = journal \cup {new}
        /\ UNCHANGED <<waits, cursor, local>>
    BY <1>5 DEF Commit
  <2>3. /\ \A b \in Calls \ {c} : call'[b] = call[b]
        /\ call'[c] # None => call'[c].stage = "applied"
    BY <1>5, <2>1, AnswerEffect DEF Commit, Answers
  <2>4. \A d \in Devices : cursor[d] < row.seq
    BY <1>5 DEF Commit, CursorInv, DrawnIsNewest, Written
  <2>5. \A j \in journal : j.seq < row.seq /\ j.seq \in Nat /\ j.entity \in Entities
    BY <1>5 DEF Commit, CursorInv, DrawnIsNewest, TypeOK, Entry, Written
  <2> HIDE DEF row, e
  <2>6. table'[e] = row /\ \A x \in Entities \ {e} : table'[x] = table[x]
    BY <2>1, <2>2 DEF TypeOK
  <2>7. JournalTells'
    <3>1. ASSUME NEW j \in journal', j.seq = table'[j.entity].seq
          PROVE  j.op = "delete" <=> table'[j.entity].deleted
      <4>1. CASE j = new
        BY <2>1, <2>6, <4>1 DEF Row
      <4>2. CASE j \in journal
        <5>1. j.entity # e
          BY <2>1, <2>5, <2>6, <3>1, <4>2 DEF Row
        <5> QED
          BY <2>5, <2>6, <3>1, <4>2, <5>1 DEF Agreement, JournalTells
      <4> QED
        BY <2>2, <4>1, <4>2
    <3> QED
      BY <3>1 DEF JournalTells
  \* What a device has pulled is of another row.
  <2>8. ASSUME NEW d \in Devices, NEW j \in journal', j.seq <= cursor[d],
               j.seq = table'[j.entity].seq
        PROVE  j \in journal /\ table'[j.entity] = table[j.entity]
    <3>1. j # new
      BY <2>1, <2>4, <2>8 DEF TypeOK, Row
    <3>2. j.entity # e
      BY <2>1, <2>2, <2>5, <2>6, <2>8, <3>1 DEF Row
    <3> QED
      BY <2>2, <2>5, <2>6, <3>1, <3>2
  <2>9. ConflictAgrees'
    <3>1. ASSUME NEW d \in Devices, waits[d] # None, call'[waits[d]].stage = "conflict",
                 NEW j \in journal', j.entity = call'[waits[d]].entity, j.seq <= cursor[d],
                 j.seq = table'[j.entity].seq
          PROVE  call'[waits[d]].row = table'[j.entity]
      <4>1. waits[d] # c /\ waits[d] \in Calls
        BY <1>0, <2>2, <2>3, <3>1 DEF Sound, WaitsSound, TypeOK
      <4>2. j \in journal /\ table'[j.entity] = table[j.entity]
        BY <2>8, <3>1
      <4> QED
        BY <2>3, <3>1, <4>1, <4>2 DEF Agreement, ConflictAgrees
    <3> QED
      BY <2>2, <3>1 DEF ConflictAgrees
  <2>10. CaughtUpAgrees'
    <3>1. ASSUME NEW d \in Devices, NEW j \in journal', j.seq <= cursor[d],
                 j.seq = table'[j.entity].seq
          PROVE  local[d][j.entity] = CopyOf(table[j.entity])
      BY <2>8, <3>1 DEF Agreement, CaughtUpAgrees
    <3>2. \A x : CopyOf(table[x])' = CopyOf(table'[x])
      BY DEF CopyOf
    <3> QED
      BY <2>2, <2>8, <3>1, <3>2 DEF CaughtUpAgrees
  <2> QED
    BY <2>7, <2>9, <2>10 DEF Agreement
<1>6. CASE Withdraw
  BY <1>6 DEF Withdraw, Agreement, JournalTells, ConflictAgrees, CaughtUpAgrees
<1> QED
  BY <1>1, <1>2, <1>3, <1>4, <1>5, <1>6, QuietStep

\* A device that has pulled a row's last change has the row as it is on the
\* server, whatever conflicts it was answered with (client.py:479, client.py:616).
THEOREM CaughtUp == Spec => []CaughtUpAgrees
<1>1. Init => Consented /\ CursorInv /\ Agreement
  BY DEF Init, Consented, LockExclusive, WithdrawalPurges, Locks, LockHeld, CursorInv,
         SeqBounds, DrawnIsNewest, ConflictIsCurrent, CursorSkipsNothing, Written,
         Agreement, JournalTells, ConflictAgrees, CaughtUpAgrees
<1>2. WellFormed /\ Consented /\ CursorInv /\ Agreement /\ [Next]_vars
        => (Consented /\ CursorInv /\ Agreement)'
  BY ConsentedStep, CursorStep, AgreementStep
<1>3. Agreement => CaughtUpAgrees
  BY DEF Agreement
<1> QED
  BY <1>1, <1>2, <1>3, WellFormedAlways, PTL DEF Spec
-----------------------------------------------------------------------------
(***************************************************************************)
(* Vectors.  What was written once is dominated by its row ever after, so  *)
(* resolve() turns every later copy of it away, if it names its row.       *)
(***************************************************************************)
WrittenDominates ==
  \A c \in Calls : Written(c) =>
    /\ table[call[c].entity] # None =>
         Above!vv_dominates(call[c].row.vv, table[call[c].entity].vv)
    /\ call[c].mid # None =>
         /\ Above!vv_dominates(call[c].row.vv, authored[call[c].mid].vv)
         /\ IF authored[call[c].mid].entity = None
            THEN call[c].entity \in Generated /\ table[call[c].entity] = None
            ELSE /\ applied[call[c].mid] = 0
                 /\ ~(call[c].entity \in Generated /\ table[call[c].entity] = None)

AppliedIsDominated ==
  \A m \in Mutations : applied[m] > 0 =>
    /\ authored[m] # None
    /\ authored[m].entity # None =>
         /\ table[authored[m].entity] # None
         /\ Above!vv_dominates(table[authored[m].entity].vv, authored[m].vv)

VectorInv == WrittenDominates /\ AppliedIsDominated /\ AppliedAtMostOnce

LEMMA StampDominates ==
  ASSUME NEW row \in Row \cup {None}, NEW edit \in Edit \cup {None},
         NEW m \in Mutations \cup {None}
  PROVE  /\ row # None => Above!vv_dominates(Stamp(row, edit, m).vv, row.vv)
         /\ edit # None => Above!vv_dominates(Stamp(row, edit, m).vv, edit.vv)
<1> DEFINE base == IF row = None THEN Above!Zero ELSE row.vv
<1>1. base \in Above!Vector
  BY ZeroType DEF Row
<1>2. CASE edit = None
  <2>1. Stamp(row, edit, m).vv = Above!vv_bump(base, Cloud)
    BY <1>2 DEF Stamp
  <2> QED
    BY <1>1, <1>2, <2>1, BumpDominates
<1>3. CASE edit # None
  <2>1. Stamp(row, edit, m).vv = Above!vv_bump(Above!vv_merge(base, edit.vv), edit.device)
    BY <1>3 DEF Stamp
  <2>2. edit.vv \in Above!Vector /\ edit.device \in Actors
    BY <1>3 DEF Edit
  <2> QED
    BY <1>1, <1>3, <2>1, <2>2, BumpedMergeDominates
<1> QED
  BY <1>2, <1>3

\* resolve() ignores a mutation that its row dominates.
LEMMA DominatedIsIgnored ==
  ASSUME NEW row \in Row, NEW edit \in Edit, NEW m \in Mutations,
         Above!vv_dominates(row.vv, edit.vv)
  PROVE  Resolution(row, edit, m) = "ignore"
<1>1. ~Above!vv_dominates(edit.vv, row.vv)
  BY DominatesAsymmetric DEF Row, Edit
<1> QED
  BY <1>1 DEF Resolution

\* resolve() obeys causality: what the row does not know of is never thrown away, what it
\* knows is never written again, and a tombstone is revived only by an edit that has seen
\* it (conflict.py: resolve).
THEOREM ResolutionIsCausal ==
  \A row \in Row, edit \in Edit, m \in Mutations :
    /\ Above!vv_dominates(edit.vv, row.vv) => Resolution(row, edit, m) = "accept"
    /\ Above!vv_dominates(row.vv, edit.vv) => Resolution(row, edit, m) = "ignore"
    /\ (row.mid = m /\ row.vv = edit.vv) => Resolution(row, edit, m) = "ignore"
    /\ (row.deleted /\ edit.op # "delete" /\ Resolution(row, edit, m) # "ignore")
         => Above!vv_dominates(edit.vv, row.vv)
<1> SUFFICES ASSUME NEW row \in Row, NEW edit \in Edit, NEW m \in Mutations
             PROVE  /\ Above!vv_dominates(edit.vv, row.vv) => Resolution(row, edit, m) = "accept"
                    /\ Above!vv_dominates(row.vv, edit.vv) => Resolution(row, edit, m) = "ignore"
                    /\ (row.mid = m /\ row.vv = edit.vv) => Resolution(row, edit, m) = "ignore"
                    /\ (row.deleted /\ edit.op # "delete" /\ Resolution(row, edit, m) # "ignore")
                         => Above!vv_dominates(edit.vv, row.vv)
  OBVIOUS
<1>1. row.vv \in Above!Vector /\ edit.vv \in Above!Vector
  BY DEF Row, Edit
<1>2. ASSUME Above!vv_dominates(edit.vv, row.vv) PROVE Resolution(row, edit, m) = "accept"
  <2>1. edit.vv # row.vv
    BY <1>1, <1>2, DominatesAsymmetric
  <2> QED
    BY <1>2, <2>1 DEF Resolution
<1>3. ASSUME Above!vv_dominates(row.vv, edit.vv) PROVE Resolution(row, edit, m) = "ignore"
  BY <1>3, DominatedIsIgnored
<1>4. ASSUME row.mid = m, row.vv = edit.vv PROVE Resolution(row, edit, m) = "ignore"
  BY <1>4 DEF Resolution
<1>5. ASSUME row.deleted, edit.op # "delete", ~Above!vv_dominates(edit.vv, row.vv)
      PROVE  Resolution(row, edit, m) = "ignore"
  BY <1>5 DEF Resolution
<1> QED
  BY <1>2, <1>3, <1>4, <1>5

\* A step that writes nothing visible and draws nothing.
LEMMA VectorFrame ==
  ASSUME WellFormed, VectorInv, UNCHANGED <<table, applied>>,
         \A m \in Mutations : authored[m] # None => authored'[m] = authored[m],
         \A c \in Calls : Written(c)' => Written(c) /\ call'[c] = call[c]
  PROVE  VectorInv'
<1>1. WrittenDominates'
  <2>1. ASSUME NEW c \in Calls, Written(c)'
        PROVE  /\ Written(c) /\ call'[c] = call[c]
               /\ call[c].mid # None => authored'[call[c].mid] = authored[call[c].mid]
    BY <2>1 DEF WellFormed, TypeOK, Call, Sound, CallsSound, CallSound, Written
  <2> QED
    BY <2>1 DEF VectorInv, WrittenDominates
<1>2. AppliedIsDominated'
  BY DEF VectorInv, AppliedIsDominated, WellFormed, TypeOK
<1>3. AppliedAtMostOnce'
  <2>1. \A m \in Mutations : applied[m] > 1 => authored'[m] = authored[m]
    BY DEF VectorInv, AppliedIsDominated, WellFormed, TypeOK
  <2> QED
    BY <2>1 DEF VectorInv, AppliedAtMostOnce
<1> QED
  BY <1>1, <1>2, <1>3 DEF VectorInv

LEMMA VectorStep ==
  ASSUME WellFormed, Consented, VectorInv, [Next]_vars
  PROVE  VectorInv'
<1> USE DEF WellFormed, consents, rows, cache, pending, Written
<1>1. ASSUME NEW d \in Devices, NEW m \in Mutations, NEW e \in Entities \cup {None},
             NEW op \in {"upsert", "delete"}, Author(d, m, e, op)
      PROVE  VectorInv'
  <2>1. \A k \in Mutations : authored[k] # None => authored'[k] = authored[k]
    BY <1>1 DEF Author, TypeOK
  <2> QED
    BY <1>1, <2>1, VectorFrame DEF Author
<1>2. ASSUME NEW d \in Devices, NEW c \in Calls, NEW m \in Mutations, Push(d, c, m)
      PROVE  VectorInv'
  <2>1. \A b \in Calls : Written(b)' => Written(b) /\ call'[b] = call[b]
    BY <1>2 DEF Push, TypeOK
  <2> QED
    BY <1>2, <2>1, VectorFrame DEF Push
<1>3. ASSUME NEW d \in Devices, NEW j \in journal, Pull(d, j.seq)
      PROVE  VectorInv'
  BY <1>3, VectorFrame DEF Pull
<1>4. ASSUME NEW d \in Devices, GiveUp(d) \/ Classify(d)
      PROVE  VectorInv'
  <2>1. \A b \in Calls : Written(b)' => Written(b) /\ call'[b] = call[b]
    BY <1>4 DEF GiveUp, Classify, TypeOK
  <2> QED
    BY <1>4, <2>1, VectorFrame DEF GiveUp, Classify
<1>5. ASSUME NEW c \in Calls, NEW e \in CloudRows, CloudCall(c, e)
      PROVE  VectorInv'
  <2>1. \A b \in Calls : Written(b)' => Written(b) /\ call'[b] = call[b]
    BY <1>5 DEF CloudCall, TypeOK
  <2> QED
    BY <1>5, <2>1, VectorFrame DEF CloudCall
<1>6. ASSUME NEW c \in Calls, Lock(c)
      PROVE  VectorInv'
  <2>1. \A b \in Calls : Written(b)' => Written(b) /\ call'[b] = call[b]
    <3>1. CASE call' = [call EXCEPT ![c] = [@ EXCEPT !.stage = "locked"]]
      BY <1>6, <3>1 DEF Lock, TypeOK, Call
    <3>2. CASE Answer(c, "stale", None) \/ Answer(c, "consent_required", None)
      BY <1>6, <3>2, AnswerEffect DEF Lock, Answers
    <3> QED
      BY <1>6, <3>1, <3>2 DEF Lock
  <2> QED
    BY <1>6, <2>1, VectorFrame DEF Lock
<1>7. ASSUME NEW c \in Calls, WriteNothing(c)
      PROVE  VectorInv'
  <2>1. table[call[c].entity] \in Row \cup {None}
    BY <1>7 DEF WriteNothing, Call, TypeOK
  <2>2. \A b \in Calls : Written(b)' => Written(b) /\ call'[b] = call[b]
    BY <1>7, <2>1, AnswerEffect DEF WriteNothing, Answers
  <2> QED
    BY <1>7, <2>2, VectorFrame DEF WriteNothing
<1>8. ASSUME NEW c \in Calls, NEW e \in Entities, NEW row \in Row, Locks(c), Draw(c, e, row),
             table[e] # None => Above!vv_dominates(row.vv, table[e].vv),
             call[c].mid # None =>
               /\ Above!vv_dominates(row.vv, authored[call[c].mid].vv)
               /\ IF authored[call[c].mid].entity = None
                  THEN e \in Generated /\ table[e] = None
                  ELSE applied[call[c].mid] = 0 /\ ~(e \in Generated /\ table[e] = None)
      PROVE  VectorInv'
  <2>1. /\ \A b \in Calls \ {c} : call'[b] = call[b] /\ ~Locks(b)
        /\ call'[c].row = row /\ call'[c].entity = e /\ call'[c].mid = call[c].mid
        /\ UNCHANGED <<table, applied, authored>>
    <3>1. call[c] \in Call
      BY <1>8 DEF Locks, TypeOK
    <3>2. /\ [call[c] EXCEPT !.stage = "written", !.entity = e, !.row = row].row = row
          /\ [call[c] EXCEPT !.stage = "written", !.entity = e, !.row = row].entity = e
          /\ [call[c] EXCEPT !.stage = "written", !.entity = e, !.row = row].mid = call[c].mid
      BY <3>1 DEF Call
    <3> QED
      BY <1>8, <3>1, <3>2 DEF Draw, TypeOK, Consented, LockExclusive
  <2>2. \A b \in Calls : Written(b)' => b = c
    BY <2>1 DEF Locks
  <2>3. WrittenDominates'
    BY <1>8, <2>1, <2>2 DEF WrittenDominates
  <2> QED
    BY <2>1, <2>3 DEF VectorInv, AppliedIsDominated, AppliedAtMostOnce
<1>9. ASSUME NEW c \in Calls, Write(c)
      PROVE  VectorInv'
  <2> DEFINE m    == call[c].mid
             edit == authored[m]
             row  == table[call[c].entity]
  <2>1. /\ call[c] \in Call /\ call[c].entity \in Entities /\ Locks(c)
        /\ row \in Row \cup {None}
    BY <1>9 DEF Write, Keyed, Call, TypeOK, Locks
  <2>2. m \in Mutations /\ edit \in Edit /\ edit.entity = call[c].entity
    BY <1>9, <2>1 DEF Write, Call, Sound, CallsSound, CallSound, TypeOK
  <2>3. Stamp(row, edit, m) \in Row
    BY <2>1, <2>2, StampType
  <2>4. /\ row # None => Above!vv_dominates(Stamp(row, edit, m).vv, row.vv)
        /\ Above!vv_dominates(Stamp(row, edit, m).vv, edit.vv)
    BY <2>1, <2>2, StampDominates
  <2>5. applied[m] = 0
    <3>1. SUFFICES ASSUME applied[m] > 0 PROVE FALSE
      BY <2>2 DEF TypeOK
    <3>2. row # None /\ Above!vv_dominates(row.vv, edit.vv)
      BY <2>1, <2>2, <3>1, NoneAssumption DEF VectorInv, AppliedIsDominated
    <3>3. Resolution(row, edit, m) = "ignore"
      BY <2>1, <2>2, <3>2, DominatedIsIgnored
    <3> QED
      BY <1>9, <3>2, <3>3 DEF Write
  <2>6. /\ Draw(c, call[c].entity, Stamp(row, edit, m))
        /\ ~(call[c].entity \in Generated /\ row = None)
    BY <1>9 DEF Write
  <2> HIDE DEF m, edit, row
  <2>7. PICK e \in Entities : e = call[c].entity
    BY <2>1
  <2>8. PICK new \in Row : new = Stamp(row, edit, m)
    BY <2>3
  <2>9. /\ Locks(c) /\ Draw(c, e, new)
        /\ table[e] # None => Above!vv_dominates(new.vv, table[e].vv)
        /\ Above!vv_dominates(new.vv, authored[call[c].mid].vv)
        /\ authored[call[c].mid].entity # None
        /\ applied[call[c].mid] = 0 /\ ~(e \in Generated /\ table[e] = None)
    BY <2>1, <2>2, <2>4, <2>5, <2>6, <2>7, <2>8 DEF m, edit, row
  <2> QED
    BY <1>8, <2>9
<1>16. ASSUME NEW c \in Calls, Insert(c)
       PROVE  VectorInv'
  <2> DEFINE m    == call[c].mid
             edit == authored[m]
  <2>1. PICK e \in Generated : table[e] = None /\ Draw(c, e, Stamp(None, edit, m))
    BY <1>16 DEF Insert
  <2>2. /\ Locks(c) /\ m \in Mutations /\ edit \in Edit /\ edit.entity = None
        /\ Stamp(None, edit, m) \in Row
    BY <1>16, InsertStampType
       DEF Insert, Locks, Sound, CallsSound, CallSound
  <2>3. Above!vv_dominates(Stamp(None, edit, m).vv, edit.vv)
    BY <2>2, StampDominates
  <2> HIDE DEF m, edit
  <2>4. PICK new \in Row : new = Stamp(None, edit, m)
    BY <2>2
  <2>5. /\ Draw(c, e, new) /\ e \in Entities
        /\ Above!vv_dominates(new.vv, authored[call[c].mid].vv)
        /\ authored[call[c].mid].entity = None
    BY <2>1, <2>2, <2>3, <2>4 DEF m, edit
  <2> QED
    BY <1>8, <2>1, <2>2, <2>5
<1>10. ASSUME NEW c \in Calls, CloudWrite(c)
       PROVE  VectorInv'
  <2>1. /\ table[call[c].entity] \in Row \cup {None} /\ Locks(c) /\ call[c].mid = None
        /\ call[c].entity \in Entities
    BY <1>10 DEF CloudWrite, Call, TypeOK, Locks, Sound, CallsSound, CallSound
  <2>2. PICK new \in CloudStamps(table[call[c].entity]) : Draw(c, call[c].entity, new)
    BY <1>10 DEF CloudWrite
  <2>3. new \in Row /\ new.mid = None /\ new.vv = Stamp(table[call[c].entity], None, None).vv
    BY <2>1, <2>2, CloudStampType
  <2>4. table[call[c].entity] # None =>
          Above!vv_dominates(new.vv, table[call[c].entity].vv)
    BY <2>1, <2>3, StampDominates
  <2>5. PICK e \in Entities : e = call[c].entity
    BY <2>1
  <2> QED
    BY <1>8, <2>1, <2>2, <2>3, <2>4, <2>5
<1>11. ASSUME NEW c \in Calls, Commit(c)
       PROVE  VectorInv'
  <2> DEFINE row == call[c].row
             e   == call[c].entity
             m   == call[c].mid
  <2>1. /\ row \in Row /\ e \in Entities /\ row.mid = m
        /\ m # None =>
             m \in Mutations /\ authored[m] \in Edit /\ authored[m].entity \in {None, e}
    BY <1>11 DEF Commit, Call, Sound, CallsSound, CallSound, TypeOK
  <2>2. /\ table' = [table EXCEPT ![e] = row]
        /\ applied' = IF m = None THEN applied ELSE [applied EXCEPT ![m] = @ + 1]
        /\ UNCHANGED authored
    BY <1>11, <2>1 DEF Commit
  <2>3. /\ table[e] # None => Above!vv_dominates(row.vv, table[e].vv)
        /\ m # None =>
             /\ Above!vv_dominates(row.vv, authored[m].vv)
             /\ authored[m].entity # None => applied[m] = 0
    BY <1>11 DEF Commit, VectorInv, WrittenDominates
  <2>4. WrittenDominates'
    <3>1. /\ \A b \in Calls \ {c} : call'[b] = call[b] /\ ~Locks(b)
          /\ call'[c] # None => call'[c].stage = "applied"
      BY <1>11, <2>1, AnswerEffect DEF Commit, Answers, Consented, LockExclusive, Locks
    <3> QED
      BY <3>1 DEF WrittenDominates, Locks
  <2> HIDE DEF row, e, m
  <2>5. AppliedIsDominated'
    <3>1. ASSUME NEW k \in Mutations, applied'[k] > 0, authored[k].entity # None
          PROVE  /\ authored[k] # None /\ table'[authored[k].entity] # None
                 /\ Above!vv_dominates(table'[authored[k].entity].vv, authored[k].vv)
      <4>1. CASE k = m
        <5>1. m # None /\ authored[m].entity = e /\ authored[m] \in Edit
          BY <2>1, <3>1, <4>1
        <5>2. table'[e] = row /\ row # None
          BY <2>1, <2>2 DEF TypeOK
        <5> QED
          BY <2>3, <4>1, <5>1, <5>2
      <4>2. CASE k # m
        <5>1. /\ authored[k] # None /\ table[authored[k].entity] # None
              /\ Above!vv_dominates(table[authored[k].entity].vv, authored[k].vv)
          BY <2>1, <2>2, <3>1, <4>2 DEF VectorInv, AppliedIsDominated, TypeOK
        <5>2. CASE authored[k].entity # e
          BY <2>1, <2>2, <5>1, <5>2 DEF TypeOK
        <5>3. CASE authored[k].entity = e
          <6>1. table'[e] = row /\ row # None /\ table[e] \in Row /\ authored[k] \in Edit
            BY <2>1, <2>2, <5>1, <5>3 DEF TypeOK
          <6>2. Above!vv_dominates(row.vv, authored[k].vv)
            BY <2>1, <2>3, <5>1, <5>3, <6>1, DominatesTransitive DEF Row, Edit
          <6> QED
            BY <5>1, <5>3, <6>1, <6>2
        <5> QED
          BY <5>2, <5>3
      <4> QED
        BY <4>1, <4>2
    <3>2. ASSUME NEW k \in Mutations, applied'[k] > 0 PROVE authored[k] # None
      <4>1. CASE k = m
        BY <2>1, <4>1
      <4>2. CASE k # m
        BY <2>2, <3>2, <4>2 DEF VectorInv, AppliedIsDominated, TypeOK
      <4> QED
        BY <4>1, <4>2
    <3> QED
      BY <2>2, <3>1, <3>2 DEF AppliedIsDominated
  <2>6. AppliedAtMostOnce'
    BY <2>1, <2>2, <2>3 DEF VectorInv, AppliedAtMostOnce, TypeOK
  <2> QED
    BY <2>4, <2>5, <2>6 DEF VectorInv
<1>12. ASSUME NEW c \in Calls, Fail(c)
       PROVE  VectorInv'
  <2>1. \A b \in Calls : Written(b)' => Written(b) /\ call'[b] = call[b]
    BY <1>12 DEF Fail, TypeOK
  <2> QED
    BY <1>12, <2>1, VectorFrame DEF Fail
<1>13. CASE Withdraw
  <2>1. /\ \A c \in Calls : ~Locks(c)
        /\ UNCHANGED <<applied, call, authored>>
        /\ table' = [e \in Entities |-> Tombstone(table[e])]
    BY <1>13 DEF Withdraw, LockHeld
  <2>2. \A e \in Entities : table[e] # None => table'[e] # None /\ table'[e].vv = table[e].vv
    BY <2>1, TombstoneType DEF TypeOK
  <2>3. WrittenDominates'
    BY <2>1 DEF WrittenDominates, Locks
  <2>4. AppliedIsDominated'
    BY <2>1, <2>2 DEF VectorInv, AppliedIsDominated, TypeOK, Edit
  <2> QED
    BY <2>1, <2>3, <2>4 DEF VectorInv, AppliedAtMostOnce
<1>14. CASE Grant
  BY <1>14, VectorFrame DEF Grant
<1>15. CASE UNCHANGED vars
  BY <1>15, VectorFrame DEF vars
<1> QED
  BY <1>1, <1>2, <1>3, <1>4, <1>5, <1>6, <1>7, <1>9, <1>10, <1>11, <1>12, <1>13, <1>14,
     <1>15, <1>16 DEF Next, Device, Serve

VectorsAlways == WellFormed /\ Consented /\ VectorInv

LEMMA VectorsInvariant == Spec => []VectorsAlways
<1>1. Init => Consented /\ VectorInv
  BY DEF Init, Consented, LockExclusive, WithdrawalPurges, Locks, LockHeld, VectorInv,
         WrittenDominates, AppliedIsDominated, AppliedAtMostOnce, Written
<1>2. WellFormed /\ Consented /\ VectorInv /\ [Next]_vars => (Consented /\ VectorInv)'
  BY ConsentedStep, VectorStep
<1> QED
  BY <1>1, <1>2, WellFormedAlways, PTL DEF Spec, VectorsAlways

\* A push that names its row and is retried because its answer was lost, at whatever
\* time, is never applied twice: what it wrote is dominated from then on (conflict.py:46).
THEOREM RetriesAreIdempotent == Spec => []AppliedAtMostOnce
<1>1. VectorsAlways => AppliedAtMostOnce
  BY DEF VectorsAlways, VectorInv
<1> QED
  BY <1>1, VectorsInvariant, PTL

\* The stamp merges before it bumps: no row forgets a change it was based on
\* (engine.py:56), and a purge keeps the vector of the row it buries.
THEOREM HistoryIsKept == Spec => VectorsGrow
<1> DEFINE A == \A e \in Entities :
                  (table[e] # None /\ table'[e] # table[e])
                    => \/ Above!vv_dominates(table'[e].vv, table[e].vv)
                       \/ table'[e].deleted /\ table'[e].vv = table[e].vv /\ ~consent'
<1>1. VectorsAlways /\ [Next]_vars => A
  <2> SUFFICES ASSUME VectorsAlways, [Next]_vars PROVE A
    OBVIOUS
  <2> USE DEF VectorsAlways, WellFormed
  <2>1. CASE UNCHANGED table
    BY <2>1
  <2>2. ASSUME NEW c \in Calls, Commit(c) PROVE A
    <3>1. call[c].entity \in Entities /\ table' = [table EXCEPT ![call[c].entity] = call[c].row]
      BY <2>2 DEF Commit, TypeOK, Call, Sound, CallsSound, CallSound, Keyed
    <3>2. table[call[c].entity] # None =>
            Above!vv_dominates(call[c].row.vv, table[call[c].entity].vv)
      BY <2>2 DEF Commit, VectorInv, WrittenDominates, Written
    <3> QED
      BY <3>1, <3>2 DEF TypeOK
  <2>3. CASE Withdraw
    <3>1. ~consent' /\ table' = [e \in Entities |-> Tombstone(table[e])]
      BY <2>3 DEF Withdraw
    <3>2. \A e \in Entities : table[e] # None =>
            table'[e].deleted /\ table'[e].vv = table[e].vv
      BY <3>1, TombstoneType DEF TypeOK
    <3> QED
      BY <3>1, <3>2
  <2> QED
    BY <2>1, <2>2, <2>3, VisibleStep
<1>2. VectorsAlways /\ [Next]_vars => [A]_vars
  BY <1>1
<1> QED
  BY <1>2, VectorsInvariant, PTL DEF Spec, VectorsGrow
-----------------------------------------------------------------------------
(***************************************************************************)
(* Tier2Sync implements SyncLog: what commits is one write at the end of   *)
(* the log, and everything else but a pull and the user's choice stutters. *)
(***************************************************************************)
LEMMA SameDominance ==
  ASSUME NEW v, NEW w
  PROVE  Log!V!vv_dominates(v, w) <=> Above!vv_dominates(v, w)
BY DEF Log!V!vv_dominates, Above!vv_dominates, Log!V!AtLeast, Above!AtLeast

LEMMA CommitWrites ==
  ASSUME WellFormed, Consented, CursorInv, VectorInv, NEW c \in Calls, Commit(c)
  PROVE  \E e \in Entities : Log!Write(e)
<1> USE DEF WellFormed
<1> DEFINE row == call[c].row
           x   == call[c].entity
           m   == call[c].mid
<1>1. /\ row \in Row /\ x \in Entities /\ row.mid = m
      /\ IF m = None THEN x \notin Generated
         ELSE m \in Mutations /\ authored[m] # None
  BY Tier2Assumption DEF Commit, Call, Sound, CallsSound, CallSound, TypeOK
<1>2. /\ table' = [table EXCEPT ![x] = row]
      /\ journal' = journal \cup {[seq |-> row.seq, entity |-> x,
                                   op |-> IF row.deleted THEN "delete" ELSE "upsert"]}
      /\ applied' = IF m = None THEN applied ELSE [applied EXCEPT ![m] = @ + 1]
      /\ UNCHANGED <<consent, cursor, authored>>
  BY <1>1 DEF Commit, consents, cache, pending
\* The lock is held, and so no withdrawal is in force.
<1>3. consent
  BY DEF Commit, Consented, WithdrawalPurges, LockHeld, Locks
<1>4. Log!BuildsOn(row, table[x])
  BY SameDominance DEF Commit, VectorInv, WrittenDominates, Written, Log!BuildsOn
<1>5. Log!Last(row.seq)
  BY DEF Commit, CursorInv, DrawnIsNewest, Written, Log!Last
<1>6. m # None => IF authored[m].entity = None
                  THEN x \in Generated /\ table[x] = None
                  ELSE applied[m] = 0 /\ ~(x \in Generated /\ table[x] = None)
  BY DEF Commit, VectorInv, WrittenDominates, Written
<1> HIDE DEF row, x, m
<1>7. table'[x] = row /\ table' = [table EXCEPT ![x] = table'[x]]
  BY <1>1, <1>2 DEF TypeOK
<1>8. \/ row.mid = None /\ ~Log!Creates(x) /\ Done' = Done
      \/ row.mid \in Mutations \ Done /\ Log!Creates(x) /\ Done' = Done
      \/ row.mid \in Mutations \ Done /\ ~Log!Creates(x) /\ Done' = Done \cup {row.mid}
  <2>1. CASE m = None
    BY <1>1, <1>2, <2>1 DEF Done, Log!Creates
  <2>2. CASE m # None /\ authored[m].entity = None
    <3>1. m \in Mutations \ Done /\ Log!Creates(x)
      BY <1>1, <1>6, <2>2 DEF Done, Log!Creates
    <3>2. \A k \in Mutations \ {m} : applied'[k] = applied[k]
      BY <1>1, <1>2, <2>2 DEF TypeOK
    <3>3. Done' = Done
      BY <1>2, <2>2, <3>2 DEF Done
    <3> QED
      BY <1>1, <3>1, <3>3
  <2>3. CASE m # None /\ authored[m].entity # None
    <3>1. m \in Mutations \ Done /\ ~Log!Creates(x)
      BY <1>1, <1>6, <2>3 DEF Done, Log!Creates
    <3>2. \A k \in Mutations : applied'[k] > 0 <=> (applied[k] > 0 \/ k = m)
      BY <1>1, <1>2, <1>6, <2>3 DEF TypeOK
    <3>3. Done' = Done \cup {m}
      BY <1>1, <1>2, <2>3, <3>2 DEF Done
    <3> QED
      BY <1>1, <3>1, <3>3
  <2> QED
    BY <2>1, <2>2, <2>3
<1> QED
  BY <1>1, <1>2, <1>3, <1>4, <1>5, <1>7, <1>8 DEF Log!Write

LEMMA WithdrawIsAtomic ==
  ASSUME WellFormed, Withdraw
  PROVE  Log!Withdraw
<1>1. /\ consent /\ ~consent' /\ journal' = {}
      /\ table' = [e \in Entities |-> Tombstone(table[e])]
      /\ UNCHANGED <<applied, authored, cursor>>
  BY DEF Withdraw, cache, pending
<1>2. \A e \in Entities : Log!Buried(table'[e], table[e])
  BY <1>1, TombstoneType DEF WellFormed, TypeOK, Log!Buried
<1>3. table' = [e \in Entities |-> table'[e]]
  BY <1>1
<1> QED
  BY <1>1, <1>2, <1>3 DEF Log!Withdraw, Done

LEMMA LogStep ==
  ASSUME WellFormed, Consented, CursorInv, VectorInv, [Next]_vars
  PROVE  [Log!Next]_(Log!vars)
<1> USE DEF consents, rows, cache, pending, Log!Next, Log!vars
<1>1. ASSUME NEW d \in Devices, NEW j \in journal, Pull(d, j.seq)
      PROVE  Log!Read(d)
  <2>1. \E i \in journal : cursor[d] < i.seq /\ i.seq = j.seq
    BY <1>1 DEF Pull
  <2>2. consent /\ cursor' = [cursor EXCEPT ![d] = j.seq]
        /\ UNCHANGED <<consent, table, journal, applied, authored>>
    BY <1>1 DEF Pull
  <2> QED
    BY <2>1, <2>2 DEF Log!Read, Done
<1>2. ASSUME NEW d \in Devices, Device(d)
      PROVE  Log!Read(d) \/ UNCHANGED Log!vars
  <2>1. CASE \E j \in journal : Pull(d, j.seq)
    BY <1>1, <2>1
  <2>2. CASE \/ \E c \in Calls, m \in Mutations : Push(d, c, m)
             \/ GiveUp(d) \/ Classify(d)
    BY <2>2 DEF Push, GiveUp, Classify, Done
  \* A mutation that is only authored now has never been written.
  <2>3. ASSUME NEW m \in Mutations, NEW e \in Entities \cup {None},
               NEW op \in {"upsert", "delete"}, Author(d, m, e, op)
        PROVE  UNCHANGED Log!vars
    <3>1. /\ authored[m] = None /\ UNCHANGED <<consent, table, journal, cursor, applied>>
          /\ \A k \in Mutations \ {m} : authored'[k] = authored[k]
      BY <2>3 DEF Author, WellFormed, TypeOK
    <3>2. ~(applied[m] > 0)
      BY <3>1 DEF VectorInv, AppliedIsDominated
    <3>3. Done' = Done
      BY <3>1, <3>2 DEF Done
    <3> QED
      BY <3>1, <3>3
  <2> QED
    BY <1>2, <2>1, <2>2, <2>3 DEF Device
<1>3. ASSUME NEW c \in Calls, Serve(c)
      PROVE  (\E e \in Entities : Log!Write(e)) \/ UNCHANGED Log!vars
  <2>1. CASE Commit(c)
    <3>1. \E e \in Entities : Log!Write(e)
      BY <2>1, CommitWrites
    <3> QED
      BY <3>1, Zenon
  <2>2. CASE \/ \E e \in CloudRows : CloudCall(c, e)
             \/ Lock(c) \/ WriteNothing(c) \/ Fail(c)
    BY <2>2 DEF CloudCall, Lock, WriteNothing, Fail, Done
  <2>3. CASE Write(c) \/ Insert(c) \/ CloudWrite(c)
    BY <2>3 DEF Write, Insert, CloudWrite, Draw, Done
  <2> QED
    BY <1>3, <2>1, <2>2, <2>3 DEF Serve
<1>4. CASE Withdraw
  BY <1>4, WithdrawIsAtomic
<1>5. CASE Grant
  BY <1>5 DEF Grant, Log!Grant, Done
<1>6. CASE UNCHANGED vars
  BY <1>6 DEF vars, Done
<1> QED
  BY <1>2, <1>3, <1>4, <1>5, <1>6 DEF Next

\* Every behaviour of devices, transactions and the user's consent is one of a log
\* that is written one change at a time: the server's transactions are serialised by
\* the consent row's lock, retries and gaps included, and a mutation is in the log
\* once, unless it makes a row.
THEOREM Refinement == Spec => RefinesSyncLog
<1>1. Init => Log!Init
  BY DEF Init, Log!Init, Done
<1>2. Init => CursorInv
  BY DEF Init, CursorInv, SeqBounds, DrawnIsNewest, ConflictIsCurrent, CursorSkipsNothing,
         Written
<1>3. VectorsAlways /\ CursorInv /\ [Next]_vars => CursorInv'
  BY CursorStep DEF VectorsAlways
<1>4. VectorsAlways /\ CursorInv /\ [Next]_vars => [Log!Next]_(Log!vars)
  BY LogStep DEF VectorsAlways
<1> QED
  BY <1>1, <1>2, <1>3, <1>4, VectorsInvariant, PTL DEF Spec, RefinesSyncLog, Log!Spec
=============================================================================
