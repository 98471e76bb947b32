------------------------------- MODULE SyncLog -------------------------------
(***************************************************************************)
(* What Tier-2 sync promises, with nothing in between: a log of changes to *)
(* a table.  A write takes one step.  It happens under consent, builds on  *)
(* the row it replaces, carries a mutation that was never written before,  *)
(* and comes last in the log, beyond every device's cursor, so that a      *)
(* device that reads the log from its cursor on misses nothing.  No such   *)
(* promise is made of the mutations that make a row of Generated: each of  *)
(* their writes makes one of its own, and never touches another.           *)
(***************************************************************************)
EXTENDS Integers

CONSTANTS Devices, Actors, Entities, Generated, Mutations, None

V == INSTANCE VersionVector

VARIABLES
  consent,   \* the user allows it
  table,     \* the rows
  journal,   \* the log: what changed at which number
  cursor,    \* per device, how far it has read the log
  done       \* the mutations written so far, but for creations

vars == <<consent, table, journal, cursor, done>>

Init ==
  /\ consent = TRUE
  /\ table = [e \in Entities |-> None]
  /\ journal = {}
  /\ cursor = [d \in Devices |-> 0]
  /\ done = {}

\* A row is new, or knows all that the row before it knew, and more.
BuildsOn(new, old) == old = None \/ V!vv_dominates(new.vv, old.vv)

\* The number is beyond all that is in the log or was read.
Last(n) ==
  /\ \A j \in journal : j.seq < n
  /\ \A d \in Devices : cursor[d] < n

\* A row of Generated is there only once it has been made.
Creates(e) == e \in Generated /\ table[e] = None

Write(e) ==
  /\ consent
  /\ table' = [table EXCEPT ![e] = table'[e]]
  /\ LET row == table'[e]
     IN  /\ row # None
         /\ BuildsOn(row, table[e])
         /\ Last(row.seq)
         /\ journal' = journal \cup {[seq |-> row.seq, entity |-> e,
                                     op |-> IF row.deleted THEN "delete" ELSE "upsert"]}
         /\ \/ row.mid = None /\ ~Creates(e) /\ UNCHANGED done
            \/ row.mid \in Mutations \ done /\ Creates(e) /\ UNCHANGED done
            \/ row.mid \in Mutations \ done /\ ~Creates(e) /\ done' = done \cup {row.mid}
  /\ UNCHANGED <<consent, cursor>>

Read(d) ==
  /\ consent
  /\ \E j \in journal : cursor[d] < j.seq /\ cursor' = [cursor EXCEPT ![d] = j.seq]
  /\ UNCHANGED <<consent, table, journal, done>>

\* What is left of a row keeps its history, so that no old mutation gets past it.
Buried(new, old) ==
  IF old = None THEN new = None ELSE new # None /\ new.deleted /\ new.vv = old.vv

Withdraw ==
  /\ consent /\ ~consent'
  /\ table' = [e \in Entities |-> table'[e]]
  /\ \A e \in Entities : Buried(table'[e], table[e])
  /\ journal' = {}
  /\ UNCHANGED <<cursor, done>>

Grant ==
  /\ ~consent /\ consent'
  /\ UNCHANGED <<table, journal, cursor, done>>

Next ==
  \/ \E e \in Entities : Write(e)
  \/ \E d \in Devices : Read(d)
  \/ Withdraw
  \/ Grant

Spec == Init /\ [][Next]_vars
=============================================================================
