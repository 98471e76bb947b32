---------------------------- MODULE DatabasePool ----------------------------
(***************************************************************************)
(* The shared PostgreSQL pool of SOURCE/core/db_backend.py: get_pg_pool,   *)
(* close_pg_pool and the refresh after a lost connection, which meet on    *)
(* one lock, and the requests that hold the pool's connections in a        *)
(* transaction of their user (_RetryingAcquire).  A request can be         *)
(* cancelled at any await, also in the middle of its own cleanup, and more *)
(* than once.                                                              *)
(*                                                                         *)
(* The pool itself is asyncpg's (external): it gives out at most Slots     *)
(* connections, refuses a new one when it is closing or closed, closes     *)
(* when all of them are back, and loses them when it is terminated.        *)
(***************************************************************************)
EXTENDS Naturals, FiniteSets

CONSTANTS
    Scoped,      \* requests that hold a connection: async with pool.acquire()
    Direct,      \* callers without a user: of pool.fetch() and the like, and of
                 \* close_pg_pool() (the shutdown of the MCP hub)
    Nobody,      \* the holder of a free lock
    Slots,       \* connections per pool
    MaxPools,    \* bound: pools ever created
    MaxCancels   \* bound: cancellations delivered

ASSUME KindsAssumption ==
    /\ Scoped \cap Direct = {}
    /\ Nobody \notin Scoped \cup Direct
ASSUME BoundsAssumption ==
    /\ Slots \in Nat \ {0} /\ MaxPools \in Nat \ {0} /\ MaxCancels \in Nat

Callers == Scoped \cup Direct
Pools == 1..MaxPools

VARIABLES
    shared,     \* the global _pool; 0 is None
    status,     \* asyncpg: what has become of each pool
    out,        \* asyncpg: the requests that have a connection of each pool
    lock,       \* _pool_lock
    stage,      \* the await each caller is at
    uses,       \* the pool object each caller works with
    attempt,    \* 1, or 2 after the one retry
    error,      \* the exception each caller is on its way to raise
    body,       \* how the body of the async with ended
    committed,  \* requests whose transaction has been committed
    cancels     \* cancellations delivered

globals == <<shared, status, lock>>
work == <<body, committed>>
mine == <<uses, attempt, work>>
vars == <<globals, out, stage, error, mine, cancels>>

(***************************************************************************)
(* "get" and "close" wait for the lock, "creating" and "closing" hold it.  *)
(* A request has its connection from "begin" to the release that ends      *)
(* "undo" (of a failed setup) or "release".                                *)
(***************************************************************************)
Locking == {"creating", "closing"}
Cleanup == {"rollback", "undo", "finish", "release"}
Holding == {"begin", "setup", "body"} \cup Cleanup
Stages == {"idle", "get", "close", "acquire", "call", "ended"} \cup Locking \cup Holding
Errors == {"none", "lost", "failed", "cancelled"}

TypeOK ==
    /\ shared \in 0..MaxPools
    /\ status \in [Pools -> {"none", "open", "closing", "closed"}]
    /\ out \in [Pools -> SUBSET Scoped]
    /\ lock \in Callers \cup {Nobody}
    /\ stage \in [Callers -> Stages]
    /\ uses \in [Callers -> 0..MaxPools]
    /\ attempt \in [Callers -> 1..2]
    /\ error \in [Callers -> Errors]
    /\ body \in [Callers -> {"none", "done", "broken"}]
    /\ committed \in SUBSET Scoped
    /\ cancels \in 0..MaxCancels

Init ==
    /\ shared = 0
    /\ status = [p \in Pools |-> "none"]
    /\ out = [p \in Pools |-> {}]
    /\ lock = Nobody
    /\ stage = [r \in Callers |-> "idle"]
    /\ uses = [r \in Callers |-> 0]
    /\ attempt = [r \in Callers |-> 1]
    /\ error = [r \in Callers |-> "none"]
    /\ body = [r \in Callers |-> "none"]
    /\ committed = {}
    /\ cancels = 0

Goes(r, s) == stage' = [stage EXCEPT ![r] = s]

\* The call is over, and with it what it kept of the pool and the attempt.
Ends(r, e) ==
    /\ Goes(r, "ended")
    /\ error' = [error EXCEPT ![r] = e]
    /\ uses' = [uses EXCEPT ![r] = 0]
    /\ attempt' = [attempt EXCEPT ![r] = 1]

-----------------------------------------------------------------------------
(* The shared pool: one lock, taken by those that make or close it.        *)

\* get_pg_pool hands out the pool p: a request goes on to acquire, a direct
\* caller to its call on the raw pool.
Served(r, p) ==
    /\ Goes(r, IF r \in Scoped THEN "acquire" ELSE "call")
    /\ uses' = [uses EXCEPT ![r] = p]
    /\ UNCHANGED <<attempt, work>>

\* The check before the lock.  is_resilient_pool_usable looks at the pool's
\* loop alone: a pool that is closing, or closed, is handed out.
GetPool(r) ==
    /\ stage[r] = "idle"
    /\ \/ shared # 0 /\ Served(r, shared)
       \/ shared = 0 /\ Goes(r, "get") /\ UNCHANGED mine
    /\ UNCHANGED <<globals, out, error, cancels>>

ClosePool(r) ==
    /\ stage[r] = "idle" /\ r \in Direct
    /\ Goes(r, "close")
    /\ UNCHANGED <<globals, out, error, mine, cancels>>

\* Mutant: the check is not repeated with the lock.
GetLockedUnchecked(r) ==
    /\ stage[r] = "get" /\ lock = Nobody
    /\ Goes(r, "creating") /\ lock' = r
    /\ UNCHANGED <<shared, status, out, error, mine, cancels>>

\* With the lock, get_pg_pool checks again before it creates a pool.
GetLocked(r) ==
    /\ stage[r] = "get" /\ lock = Nobody
    /\ \/ shared # 0 /\ Served(r, shared) /\ UNCHANGED lock
       \/ shared = 0 /\ Goes(r, "creating") /\ lock' = r /\ UNCHANGED mine
    /\ UNCHANGED <<shared, status, out, error, cancels>>

Created(r) ==
    /\ stage[r] = "creating"
    /\ \E p \in Pools :
        /\ status[p] = "none" /\ \A q \in Pools : q < p => status[q] # "none"
        /\ status' = [status EXCEPT ![p] = "open"]
        /\ shared' = p
        /\ Served(r, p)
    /\ lock' = Nobody
    /\ UNCHANGED <<out, error, cancels>>

CreateFails(r) ==
    /\ stage[r] = "creating"
    /\ Ends(r, "failed")
    /\ lock' = Nobody
    /\ UNCHANGED <<shared, status, out, work, cancels>>

\* close_pg_pool returns: the hub is done, a caller that refreshes the pool
\* for its second attempt goes straight on to get_pg_pool and finds none.
AfterClose(r) ==
    \/ attempt[r] = 1 /\ Ends(r, "none")
    \/ attempt[r] = 2 /\ Goes(r, "get") /\ UNCHANGED <<error, uses, attempt>>

CloseLocked(r) ==
    /\ stage[r] = "close" /\ lock = Nobody
    /\ \/ /\ shared # 0
          /\ Goes(r, "closing") /\ lock' = r
          /\ status' = [status EXCEPT ![shared] = IF @ = "open" THEN "closing" ELSE @]
          /\ UNCHANGED <<error, uses, attempt>>
       \/ /\ shared = 0
          /\ AfterClose(r) /\ UNCHANGED <<lock, status>>
    /\ UNCHANGED <<shared, out, work, cancels>>

\* asyncpg: terminate() closes the connections under their holders.
Terminated ==
    /\ status' = [status EXCEPT ![shared] = "closed"]
    /\ out' = [out EXCEPT ![shared] = {}]

\* _close_pool_from_any_loop: every connection came back, or the wait ran
\* into PG_POOL_CLOSE_TIMEOUT_SECONDS, or close() failed, and the pool is
\* terminated.
Discard(r) ==
    /\ Terminated
    /\ shared' = 0 /\ lock' = Nobody
    /\ AfterClose(r)
    /\ UNCHANGED <<work, cancels>>

\* Mutant: close() is awaited without a timeout.
CloseTimesOutNever(r) == FALSE

CloseReturns(r) == stage[r] = "closing" /\ out[shared] = {} /\ Discard(r)
CloseTimesOut(r) == stage[r] = "closing" /\ out[shared] # {} /\ Discard(r)

-----------------------------------------------------------------------------
(* _RetryingAcquire.__aenter__: two attempts on the same pool object.      *)

Acquire(r) ==
    /\ stage[r] = "acquire" /\ status[uses[r]] = "open"
    /\ Cardinality(out[uses[r]]) < Slots
    /\ out' = [out EXCEPT ![uses[r]] = @ \cup {r}]
    /\ Goes(r, "begin")
    /\ UNCHANGED <<globals, error, mine, cancels>>

\* Mutant: a cancellation is retried like an error.
AgainAlways(r, e) ==
    \/ /\ attempt[r] = 1
       /\ attempt' = [attempt EXCEPT ![r] = 2]
       /\ Goes(r, "acquire") /\ error' = [error EXCEPT ![r] = "none"]
       /\ UNCHANGED uses
    \/ attempt[r] = 2 /\ Ends(r, e)

\* A connection error is tried once more, on the same pool.
Again(r, e) ==
    \/ /\ e = "lost" /\ attempt[r] = 1
       /\ attempt' = [attempt EXCEPT ![r] = 2]
       /\ Goes(r, "acquire") /\ error' = [error EXCEPT ![r] = "none"]
       /\ UNCHANGED uses
    \/ /\ e # "lost" \/ attempt[r] = 2
       /\ Ends(r, e)

AcquireFails(r) ==
    /\ stage[r] = "acquire"
    /\ \E e \in {"lost", "failed"} : Again(r, e)
    /\ UNCHANGED <<globals, out, work, cancels>>

\* BEGIN, then set_config('app.user_id') inside the transaction.
Begin(r) ==
    /\ stage[r] \in {"begin", "setup"} /\ status[uses[r]] # "closed"
    /\ Goes(r, IF stage[r] = "begin" THEN "setup" ELSE "body")
    /\ UNCHANGED <<globals, out, error, mine, cancels>>

\* What the failed setup of a connection has to undo: the transaction, when
\* BEGIN had succeeded, then the connection itself.
Undoing(r) == IF stage[r] = "setup" THEN "rollback" ELSE "undo"

BeginFails(r) ==
    /\ stage[r] \in {"begin", "setup"}
    /\ Goes(r, Undoing(r))
    /\ \E e \in {"lost", "failed"} : error' = [error EXCEPT ![r] = e]
    /\ UNCHANGED <<globals, out, mine, cancels>>

\* Mutant: the error of the rollback replaces a cancellation.
RolledBackRaises(r) ==
    /\ stage[r] = "rollback"
    /\ Goes(r, "undo")
    /\ \E e \in {error[r], "lost", "failed"} : error' = [error EXCEPT ![r] = e]
    /\ UNCHANGED <<globals, out, mine, cancels>>

\* The rollback returns or raises: the connection is released either way.  A
\* failed rollback is raised in place of the error, not of a cancellation.
RolledBack(r) ==
    /\ stage[r] = "rollback"
    /\ Goes(r, "undo")
    /\ \E e \in {error[r], "lost", "failed"} :
        error' = [error EXCEPT ![r] = IF @ = "cancelled" THEN @ ELSE e]
    /\ UNCHANGED <<globals, out, mine, cancels>>

\* asyncpg: the connection is reset or dropped and its slot is free again.
GivenBack(r) == out' = [out EXCEPT ![uses[r]] = @ \ {r}]

Undone(r) ==
    /\ stage[r] = "undo"
    /\ GivenBack(r)
    /\ Again(r, error[r])
    /\ UNCHANGED <<globals, work, cancels>>

-----------------------------------------------------------------------------
(* The body of the async with, and __aexit__.                              *)

BodyEnds(r) ==
    /\ stage[r] = "body"
    /\ \/ /\ status[uses[r]] # "closed"
          /\ body' = [body EXCEPT ![r] = "done"] /\ UNCHANGED error
       \/ /\ body' = [body EXCEPT ![r] = "broken"]
          /\ error' = [error EXCEPT ![r] = "failed"]
    /\ Goes(r, "finish")
    /\ UNCHANGED <<globals, out, uses, attempt, committed, cancels>>

\* Mutant: __aexit__ is not told of the exception.
FinishedBlindly(r) ==
    /\ stage[r] = "finish" /\ status[uses[r]] # "closed"
    /\ committed' = committed \cup {r}
    /\ Goes(r, "release")
    /\ UNCHANGED <<globals, out, error, uses, attempt, body, cancels>>

\* The transaction commits what a whole body did and rolls back the rest.
Finished(r) ==
    /\ stage[r] = "finish" /\ status[uses[r]] # "closed"
    /\ committed' = IF body[r] = "done" THEN committed \cup {r} ELSE committed
    /\ Goes(r, "release")
    /\ UNCHANGED <<globals, out, error, uses, attempt, body, cancels>>

\* It raises, and whether the commit arrived is not known; the connection is
\* released all the same.
FinishFails(r) ==
    /\ stage[r] = "finish"
    /\ \/ UNCHANGED committed
       \/ body[r] = "done" /\ committed' = committed \cup {r}
    /\ error' = [error EXCEPT ![r] = IF @ = "cancelled" THEN @ ELSE "failed"]
    /\ Goes(r, "release")
    /\ UNCHANGED <<globals, out, uses, attempt, body, cancels>>

Released(r) ==
    /\ stage[r] = "release"
    /\ GivenBack(r)
    /\ \/ Ends(r, error[r])
       \/ Ends(r, IF error[r] = "cancelled" THEN "cancelled" ELSE "failed")
    /\ UNCHANGED <<globals, work, cancels>>

-----------------------------------------------------------------------------
(* _call_with_retry of a caller without a user.                            *)

CallReturns(d) ==
    /\ stage[d] = "call" /\ status[uses[d]] = "open"
    /\ Cardinality(out[uses[d]]) < Slots
    /\ Ends(d, "none")
    /\ UNCHANGED <<globals, out, work, cancels>>

CallFails(d) ==
    /\ stage[d] = "call"
    /\ Ends(d, "failed")
    /\ UNCHANGED <<globals, out, work, cancels>>

\* _refresh_pool closes whatever pool is shared by now and makes a new one.
CallIsLost(d) ==
    /\ stage[d] = "call"
    /\ \/ /\ attempt[d] = 1
          /\ attempt' = [attempt EXCEPT ![d] = 2]
          /\ uses' = [uses EXCEPT ![d] = 0]
          /\ Goes(d, "close") /\ UNCHANGED error
       \/ /\ attempt[d] = 2
          /\ Ends(d, "lost")
    /\ UNCHANGED <<globals, out, work, cancels>>

-----------------------------------------------------------------------------
(* A cancellation (a deadline, a disconnected client, a shutdown).         *)

\* A caller that has no connection ends.  One that was creating or closing
\* the pool lets go of the lock; close() terminates the pool when it is
\* cancelled, and _pool is not reset.
CancelOutside(r) ==
    /\ stage[r] \in {"get", "close", "acquire", "call"} \cup Locking
    /\ Ends(r, "cancelled")
    /\ IF stage[r] = "closing" THEN Terminated ELSE UNCHANGED <<status, out>>
    /\ lock' = IF stage[r] \in Locking THEN Nobody ELSE lock
    /\ UNCHANGED <<shared, work>>

\* Mutant: a request cancelled in its setup does not release.
CancelInsideForgets(r) ==
    /\ stage[r] \in {"begin", "setup", "body"}
    /\ IF stage[r] = "body"
       THEN /\ Goes(r, "finish") /\ error' = [error EXCEPT ![r] = "cancelled"]
            /\ UNCHANGED <<uses, attempt>>
       ELSE Ends(r, "cancelled")
    /\ body' = [body EXCEPT ![r] = IF stage[r] = "body" THEN "broken" ELSE @]
    /\ UNCHANGED <<globals, out, committed>>

\* In the setup or in the body it starts the cleanup.
CancelInside(r) ==
    /\ stage[r] \in {"begin", "setup", "body"}
    /\ Goes(r, IF stage[r] = "body" THEN "finish" ELSE Undoing(r))
    /\ error' = [error EXCEPT ![r] = "cancelled"]
    /\ body' = [body EXCEPT ![r] = IF stage[r] = "body" THEN "broken" ELSE @]
    /\ UNCHANGED <<globals, out, uses, attempt, committed>>

\* In the cleanup it is remembered until the cleanup has been joined
\* (_await_pool_cleanup).
CancelCleanup(r) ==
    /\ stage[r] \in Cleanup
    /\ error' = [error EXCEPT ![r] = "cancelled"]
    /\ UNCHANGED <<globals, out, stage, mine>>

Cancel(r) ==
    /\ cancels < MaxCancels /\ cancels' = cancels + 1
    /\ CancelOutside(r) \/ CancelInside(r) \/ CancelCleanup(r)

-----------------------------------------------------------------------------
SharedSteps(r) ==
    \/ GetLocked(r) \/ Created(r) \/ CreateFails(r)
    \/ CloseLocked(r) \/ CloseReturns(r) \/ CloseTimesOut(r)
SetupSteps(r) ==
    \/ Acquire(r) \/ AcquireFails(r) \/ Begin(r) \/ BeginFails(r)
CleanupSteps(r) ==
    \/ RolledBack(r) \/ Undone(r) \/ Finished(r) \/ FinishFails(r) \/ Released(r)
CallSteps(r) == CallReturns(r) \/ CallFails(r) \/ CallIsLost(r)

Next ==
    \E r \in Callers :
        \/ GetPool(r) \/ ClosePool(r) \/ SharedSteps(r)
        \/ SetupSteps(r) \/ BodyEnds(r) \/ CleanupSteps(r)
        \/ CallSteps(r) \/ Cancel(r)

Spec == Init /\ [][Next]_vars

\* A caller at an await of its own: the loop runs what can run, the database
\* answers or times out and close() is bounded.  A body need not end (its loop
\* may be dead), and a request may wait for a connection for ever.
Runs(r) ==
    \/ SharedSteps(r) \/ CleanupSteps(r)
    \/ stage[r] \in Holding /\ SetupSteps(r)

Fairness == \A r \in Callers : WF_vars(Runs(r))

LiveSpec == Spec /\ Fairness

-----------------------------------------------------------------------------
(* No connection is lost or given back early: those that are out are       *)
(* exactly those of the requests between their acquire and the release     *)
(* that ends them, however often they were cancelled in between.           *)
NoHandleLost ==
    \A p \in Pools : status[p] # "closed" =>
        out[p] = {r \in Scoped : uses[r] = p /\ stage[r] \in Holding}

(* Callers that find no pool, or refresh it, at the same time never leave  *)
(* an open pool that nothing refers to: the only open one is the shared.   *)
OneOpenPool == \A p \in Pools : status[p] = "open" => shared = p

(* What a request reports and what it left in the database agree: a return *)
(* means that its work is committed, and the work of a body that raised or *)
(* was cancelled is not.  (A cancelled request may have committed: the     *)
(* cancellation can arrive during the commit.)                             *)
AnswersAreTrue ==
    \A r \in Scoped :
        /\ stage[r] = "ended" /\ error[r] = "none" => r \in committed
        /\ r \in committed => body[r] = "done"

(* The requests and the connections they hold implement Lease: also while  *)
(* the pool is closed, terminated and made again there are at most Slots   *)
(* connections in all, no attempt follows one that has worked, and what a  *)
(* request is told at last is what Lease lets it be told.                  *)
Leased == {r \in Scoped : \E p \in Pools : r \in out[p]}
Doomed == {r \in Scoped : error[r] = "cancelled"}
Answer == [r \in Scoped |-> IF stage[r] = "ended" THEN error[r] ELSE "open"]
Outcome == [r \in Scoped |-> body[r]]

Contract == INSTANCE Lease
              WITH Requests <- Scoped, leased <- Leased, work <- Outcome, doomed <- Doomed,
                   answer <- Answer

RefinesLease == Contract!Spec

(* A cancellation that arrives in the setup, the body or the cleanup is    *)
(* never turned into a return, an error or another attempt.                *)
CancellationIsKept ==
    [][\A r \in Callers : error[r] = "cancelled" => error'[r] = "cancelled"]_vars

(* Nobody waits for the lock for ever, although the connections of a       *)
(* closing pool may be with bodies that never end.                         *)
NoWedge ==
    \A r \in Callers :
        stage[r] \in {"get", "close"} \cup Locking ~> stage[r] \notin {"get", "close"} \cup Locking

(* A cancelled request ends, with its connection given back.               *)
CancelledEnds ==
    \A r \in Scoped : error[r] = "cancelled" ~> stage[r] = "ended"
=============================================================================
