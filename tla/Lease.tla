------------------------------- MODULE Lease -------------------------------
(***************************************************************************)
(* What the shared pool promises the requests that work on its connections *)
(* with nothing of pools, locks, retries and cleanups: there are never     *)
(* more connections than slots, a request that has begun to work is not    *)
(* tried again, and its one answer is what became of its work.             *)
(***************************************************************************)
EXTENDS Naturals, FiniteSets

CONSTANTS Requests, Slots

VARIABLES
    leased,     \* requests that have a live connection
    work,       \* how far the work of a request came
    committed,  \* requests whose work is in the database
    doomed,     \* requests that were cancelled
    answer      \* the exception a request ended with, "none" for a return

vars == <<leased, work, committed, doomed, answer>>

Init ==
    /\ leased = {} /\ committed = {} /\ doomed = {}
    /\ work = [r \in Requests |-> "none"]
    /\ answer = [r \in Requests |-> "open"]

Untouched(r) == answer[r] = "open" /\ work[r] = "none" /\ r \notin committed \cup doomed

Take(r) ==
    /\ Untouched(r) /\ r \notin leased
    /\ Cardinality(leased) < Slots
    /\ leased' = leased \cup {r}
    /\ UNCHANGED <<work, committed, doomed, answer>>

\* Before it has worked, a request may start over.
GiveBack(r) ==
    /\ Untouched(r) /\ r \in leased
    /\ leased' = leased \ {r}
    /\ UNCHANGED <<work, committed, doomed, answer>>

\* The work is done only on a live connection.
Work(r) ==
    /\ Untouched(r)
    /\ \E w \in (IF r \in leased THEN {"done", "broken"} ELSE {"broken"}) :
         work' = [work EXCEPT ![r] = w]
    /\ UNCHANGED <<leased, committed, doomed, answer>>

Commit(r) ==
    /\ answer[r] = "open" /\ work[r] = "done"
    /\ committed' = committed \cup {r}
    /\ UNCHANGED <<leased, work, doomed, answer>>

\* A cancellation breaks off the work that is not done yet.
Cancel(r) ==
    /\ answer[r] = "open"
    /\ doomed' = doomed \cup {r}
    /\ \/ UNCHANGED work
       \/ work[r] = "none" /\ work' = [work EXCEPT ![r] = "broken"]
    /\ UNCHANGED <<leased, committed, answer>>

\* A return means that the work is committed; who was cancelled is told so.
Answer(r, e) ==
    /\ answer[r] = "open"
    /\ e = "none" => r \in committed
    /\ r \in doomed => e = "cancelled"
    /\ doomed' = IF e = "cancelled" THEN doomed \cup {r} ELSE doomed
    /\ leased' = leased \ {r}
    /\ answer' = [answer EXCEPT ![r] = e]
    /\ UNCHANGED <<work, committed>>

\* The connections are closed under their holders, all of them.
Terminate == leased' = {} /\ UNCHANGED <<work, committed, doomed, answer>>

Next ==
    \/ \E r \in Requests : \/ Take(r) \/ GiveBack(r) \/ Work(r) \/ Commit(r) \/ Cancel(r)
                           \/ \E e \in {"none", "lost", "failed", "cancelled"} : Answer(r, e)
    \/ Terminate

Spec == Init /\ [][Next]_vars
=============================================================================
