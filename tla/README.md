# Viola: TLA+ models, model checking and proofs

TLA+ modules that model parts of Viola, a Python voice assistant with a desktop
client, a cloud back end and speakers, from its source under `src/SOURCE/`
(paths below are relative to that directory). Seven parts are modelled: the
**scheduler** that runs the user's scheduled commands, the **Tier-2 sync** that
keeps the user's preference-like rows the same on all devices, the **proactive
scheduler** of the daemon, the **background helpers** an agent run starts, the
**deferred confirmations** of its tool calls, the **database pool** they
all share, and the **call queue** of the telephone.

To run them: `tlc -config SchedulerSafety.cfg MCScheduler.tla` (or any other
.cfg with its MC module), `tlapm SchedulerProofs.tla` for the proofs.

## 1. Inventory

### Parts of the system

| part | where | state it keeps | operations | interacts through |
|---|---|---|---|---|
| Scheduler service | `services/scheduler/service.py` | in-flight ids and tasks, semaphore, running flag | start, stop, poll loop, run, record, CRUD, enable/disable | store calls in worker threads; intent pipeline; agent registry |
| Schedule store | `services/scheduler/store.py` | table of schedules (SQLite, or PostgreSQL in the cloud) | add, update, delete, due query, record_execution | the service; Tier-2 sync reads and writes the same rows in the cloud |
| Proactive scheduler | `services/scheduler/proactive_scheduler.py` | id set, tasks, rules | start, stop, tick, run | SQLite; notifications |
| Tier-2 sync engine | `services/sync/{version_vector,conflict,engine,journal,consent}.py` | rows, `sync_change_journal`, the sequence `sync_commit_seq`, consent and its era | resolve, stamp, journal, withdraw, grant | one transaction per write, behind a lock on the consent row |
| Tier-2 sync surfaces | `services/sync_surfaces/base.py` | one table per surface | upsert, delete, list | the engine; the cloud's own writers |
| Tier-2 sync client | `services/sync/client.py` | outbox, cache, cursor, known era | author, pull, push, classify, retry | HTTP `/v1/sync` (its routes are not in the repository) |
| Desktop consent gate | `services/sync/desktop_consent.py` | local consent | grant, withdraw, purge | the client |
| Multi-room failover | `services/multiroom/failover/` | roles, epochs, heartbeats, replicas | elect, fence, replicate, reconnect | messages between hub and spokes |
| Companion | `services/companion/` | connections, pending requests | connect, take over, call, answer | WebSocket |
| Agent runtime | `services/agent_runtime/registry.py` | agent records, cancel events, timers | register, complete, cancel, collect | the schedulers and the agent executor |
| Background helpers | `intent/agent_executor.py` (start_agent), `intent/agent_loop.py` | live helpers, held reports, the parent's run | start, report, deliver, combine | the registry; the user's channel |
| Deferred confirmations | `intent/approval.py` | open questions by user, each of one chat and task | defer, consume, cancel, retire, expire | every run of the executor; the classifier |
| Database pool | `core/db_backend.py` | the shared pool and its lock, connections, transactions | get, close, refresh, acquire, release | asyncpg; everything that uses PostgreSQL |
| Intent pipeline, agent loop | `intent/` | conversations, running tools | turn, tool call, approve | LLM providers, MCP hub |
| MCP hub and servers | `mcp_hub/`, `mcp_servers/` | server processes, sessions | connect, call, approve | stdio and HTTP |
| Call queue | `telephony/call_queue.py`, `telephony/call_manager.py`, `telephony/usage.py` | queue rows, live records, pump task, lock, usage rows | make_call, pump, remove, hang up, tear down | the call tasks; the usage ledger; SQLite |
| Telephony, the rest | `telephony/` | call pipelines, transcripts | answer, speak, transfer | carrier web hooks, media streams |
| Music and playback | `music/`, `playback/`, `audio_core/` | queues, positions, buffers, devices | queue, play, stream, schedule | speakers, providers |
| Voice | `voice/`, `spoke/` | wake-word, recogniser and synthesiser workers | listen, speak, cancel | audio threads |
| Persistence | `services/persistence/` | database files | open, migrate | everything |
| Auth | `auth/`, `services/oauth/` | users, sessions, tokens | log in, refresh, revoke | HTTP |
| Conversation, memory, LLM, notifications, calendar, orchestration | `services/*` | rows and caches | CRUD, search, provider calls | the agent loop |
| Messaging | `messaging/` | duplicate cache, routes | receive, route | chat providers |
| User interfaces, routes | `ui/`, `ViolaWebsite/`, `backend/` | view state | presentation | everything |
| Vendored code, assets, qualification data | `third_party/`, `espeakng_loader/`, `PUBLIC_METADATA/` | - | - | - |

`PROJECT.json` lists the same parts with the status of each, and under
`hazards`, line by line, what in the modelled and the surveyed code is hard to test.

### What is hard, and what makes it correct

*Scheduler.* The poll loop reads the due rows in a worker thread, resumes, and
spawns a task per row; the row stays due until the run has recorded itself,
often minutes and several polls later. Between the query and the end of a run
the user may edit, disable or delete the row, another run may record it, the
record may fail, stop() may cancel everything, the process may die. Correct
means: a schedule never has two runs at once; the in-flight set is neither too
large (its schedule would be silent until a restart) nor too small (a second
run); at most three runs execute; after stop() nothing runs; a due row is
eventually attempted; every run ends.

*Tier-2 sync.* Devices edit offline, pushes are lost and repeated, the server
resolves concurrent edits by version vectors and then by clocks, and consent may
be withdrawn at any moment, which must purge the cloud's rows. Commit numbers
are drawn inside a transaction and become visible when it commits. Correct
means: a repeated push of a row that has a name has no second effect; nothing live survives a withdrawal,
also not through a write that was under way; a device that follows its cursor
sees every change; no write loses causal history.

*Proactive scheduler.* The same poll, guard and semaphore in a second service, with
its own errors: a store call that fails in the middle of a check, a row whose cron
expression cannot be used, a start() that fails half-way. Correct means: it keeps
the promise of the first scheduler, and the tasks that come after a failure are
attempted all the same, by a loop that outlives every failing check.

*Background helpers.* Helpers outlive the call that started them and often the
parent's turn. Their reports go to the parent while it runs, and to the user in
one reply when it has ended; cancellation is a request with a timer behind it.
Correct means: no report is sent twice or over the parent's answer, a helper that
ends in any way is off the list of live ones, no slot of the registry stays
taken, a cancelled run stops and is never shown as completed.

*Deferred confirmations.* All runs of a user share one store of open questions,
and a run acts on one by issuing the call again, with awaits between. Correct
means: one yes lets one call through, of the chat it was asked in, not of the
run that asked; a no is final; a question is open for one turn.

*Database pool.* A request can be cancelled at every await, also twice and in its
own cleanup, while others close or refresh the pool behind one lock. Correct
means: every connection comes back, at most one pool is open, what a request
reports is what is in the database, a cancellation arrives, nobody waits for
the lock for ever.

*Call queue.* A pump takes rows out of the queue and dials them, across awaits, while
requests are made, calls end, users hang up and remove, and the process may
restart; it is woken by the ends of calls. Correct means: no call is dialed
twice or past one that waits, a queued call is somewhere until its one end, a
free line is noticed, and nobody holds the lock for ever.

*Failover.* One leader per epoch, no two rooms fenced in, state not older than
what was acknowledged. *Playback.* Chunks in order, never past the buffer's limit.

## 2. The modules

| module | models |
|---|---|
| `SingleFlight` | abstract: what any scheduler promises of its runs, one per schedule and a bounded number executing |
| `Scheduler` | SchedulerService over ScheduleStore, in full detail |
| `MCScheduler` | its instances for TLC |
| `SingleFlightProofs`, `SchedulerProofs` | theorems about both, and that Scheduler implements SingleFlight |
| `VersionVector` | `version_vector.py` |
| `SyncLog` | abstract: a log of changes to a table; a write takes one step and comes last in the log |
| `Tier2Sync` | devices, server transaction, cloud writers, consent; implements `SyncLog` |
| `MCTier2Sync` | its instances for TLC |
| `Tier2SyncProofs` | theorems about it, and that it implements SyncLog |
| `ProactiveScheduler` | ProactiveScheduler over ProactiveTaskStore; implements `SingleFlight` too |
| `Reports` | abstract: one voice at a time, and each report told once or lost with its speaker |
| `Helpers` | the agent registry, start_agent and its helpers, their parent, the scheduler runs in the same registry; implements `Reports` |
| `Confirmation` | abstract: a question is used or closed once, by one run that did not ask it |
| `Approval` | the store of deferred confirmations and the runs that share it; implements `Confirmation` |
| `Lease` | abstract: bounded connections, one attempt that works, one true answer |
| `DatabasePool` | get_pg_pool, close_pg_pool, the refresh, and the requests that hold connections; implements `Lease` |
| `CallBook` | abstract: every call ends once, first come first dialed |
| `CallQueue` | make_call, the queue and its pump, the end of a call, the usage ledger; implements `CallBook` |
| `MCProactive`, `MCHelpers`, `MCApproval`, `MCCallQueue` | their instances for TLC (`DatabasePool` needs none) |
| `ProactiveProofs`, `HelpersProofs`, `ApprovalProofs`, `PoolProofs`, `CallQueueProofs` | theorems about them; each ends in a `Refinement` |

### Scheduler and the code

Coroutines of the event loop interleave only at an await, so that the part of
`_check_and_fire` between two awaits is a phase (`checker = "scan"`) in which no
other coroutine moves. Store calls run in worker threads: their commits fall
anywhere, in the middle of a scan too.

| model | code |
|---|---|
| `rows` | the columns the code decides by. Time is reduced to three facts: `due` (next_run_at has passed), `stale` (a one-shot due for over 24 h), `cooling` (failed in the last 5 min). `plan` is the cron expression next_run_at was computed from |
| `snap`, `QueryDue`, `BeginScan`, `PassOver`, `SkipStale`, `Launch`, `ScanDone` | `_check_and_fire`: the due list as it was when it was read, and one turn of its loop per row. Rows are taken in any order |
| `jobs`, `inflight` | `_inflight_tasks` with the stage each task is in, `_inflight_ids`, and store writes in worker threads. A phase "orphan" is a write whose caller was cancelled: the thread still commits |
| `Acquire`, `Finish`, `CommitRecord`, `RecordFails`, `Release` | `_guarded_execute` and `_execute_schedule`: the semaphore, the sub-agent's outcome, record_execution (a failed "ok" is recorded as an error, another failed record is lost), the finally |
| `Retired`, `Advanced`, `RecordExecution` | `record_execution` with its circuit breaker |
| `Stop`, `GraceExpires`, `Unwind`, `OrphanEnds`, `StopReturns`, `Crash` | `stop()` step by step; process death, after which only the table is left |
| `Add`, `SetEnabled`, `Reschedule`, `Delete` | the user's edits, one commit each |
| `EnableReset`, `EnableCommit` | `enable()`, which is two commits |

Left out: the await inside `start()` (its race has a hazard entry), the cap on
enabled schedules, the agent-registry record of a run (best effort by its own
comment), the text of actions, labels and errors. `start()` while `stop()` is
still waiting is not modelled; bootstrap calls each once.

### Tier2Sync and the code

| model | code |
|---|---|
| `Author` | an edit queued as a PendingMutation; its vector and clock are those `_build_body` sends: the cached copy's vector (`Base`), bumped. A creation on a surface with `generated_pk` (schedules, proactive tasks) has no key: its entity is `None` |
| `Push`, `GiveUp`, `Classify` | `push_once`, its timeout, `_classify_push` and the conflict, rejected, stale and consent branches. The era is stamped when a mutation is pushed |
| `Pull`, `Pulled`, `CopyOf` | `pull_once` and `apply_pulled` on the in-memory cache; a deletion pops the copy and its vector |
| `CloudCall`, `CloudWrite`, `CloudStamps` | the cloud's own upserts and deletions through `upsert_surface` and `delete_surface` |
| `Lock`, `Keyed`, `WriteNothing`, `Write`, `Insert`, `Draw`, `Commit`, `Fail` | the transaction: consent row locked, mutation resolved, row stamped with a number from the sequence, row and journal visible at the commit. A mutation that names a generated key nobody made is rejected; one without a key is never compared with anything and inserts a row (`Insert`). `Fail` is a lost request or a rollback: the number is gone |
| `Resolution`, `Stamp` | `resolve()` in conflict.py, `stamp()` in engine.py |
| `Withdraw`, `Tombstone`, `Grant` | consent.py; other surfaces' numbers are gaps in the sequence |

Assumptions. The routes of `/v1/sync` are external: they call the surface and
answer what client.py classifies; a `SyncConflictError` of a strict surface is a
conflict. A push carries one mutation (the code batches them, and the server
takes them one by one); a transaction writes one row (`save_music_state` writes
several behind one lock). A device runs one sync_once at a time. Pages are read
atomically. Physical clocks are synchronised: a single `clock`. `refresh_era` is
part of `Classify` and may fail. `applied` and `since` are history that no
action reads. The comparison of the eras belongs to the external route;
consent.py describes it. Left out: payload validation, PII rejection, dead letters
(a rejected mutation just leaves the outbox), the Tier-3 filter, server-side
cursors, the local consent gate, a mutation queued without `lww_hlc` (each push
would mint it anew), and writes that go past `upsert_surface` and
`delete_surface`: the scheduler's own PostgreSQL store does not call `stamp()` and
leaves `version_vector` alone (section 5, item 7), so that `VectorsGrow` is about the
writers above and not about that one.

### ProactiveScheduler and the code

| model | code |
|---|---|
| `rows` | the table: existence, `enabled`, and `due` (next_run has passed). Ids are never reused |
| `loop`, `list` | where `start()`, `_recover_missed`, `_check_loop` and `_check_and_fire` are, and what is left of the list they read. "dead" is a start() that raised: `_running` is set and no loop exists |
| `Read`, `BeginScan`, `Launch`, `PassOver`, `Outside`, `Advance`, `Continue`, `ScanDone`, `Wake` | one check: the query in its thread, one turn per row, the await of `_advance_next_run` for a task outside its hours |
| `StoreFails` | the store raises in the query or in `_advance_next_run`: the check is given up |
| `Acquire`, `Executed`, `Record`, `RecordFails`, `Leave` | `_guarded_execute` and `_execute_task` |
| `Recorded` | `record_execution`; for a cron expression that croniter rejects (`Unusable`) nothing is written |
| `Crash` | the process ends; only the table is left. `stop()` has no caller and is left out |

### Helpers and the code

| model | code |
|---|---|
| `recs`, `timers`, `Register`, `Completed`, `Overwritten`, `Finish`, `Cancel`, `Collectable` | AgentRegistry for one user: start and register_foreground, the marks (only completion looks at the status it replaces), cancel with its call_later, the collection that every call does |
| `live`, `held`, `replying` | `_live_helpers`, `_held_helper_answers`, and the reports inside an awaited `channel.send` |
| `StartAgent`, `ReportHeld`, `Deliver`, `Sent`, `Fail`, `Interrupt` | `_handle_start_agent` and its `_runner`, by the way it ends |
| `parent`, `final`, `ParentLosesModel`, `ParentTakesReports`, `ParentAnswers`, `ParentEnds` | run_agent_loop: `_agent_loop_active`, and `_answer_from_helpers` when the model cannot be reached |
| `StartScheduled`, `EndScheduled` | scheduler runs registered in the foreground; refused ones go on unregistered |

Left out: recovery at boot, moving a foreground run to the background, idle agents, and
`send_message`, which restarts a finished or killed agent under its old id: what is
shown of a killed agent holds until that. `check_agents` is a `List`: what it shows
the parent's model of finished helpers leaves their reports held, and does not count
as telling the user, so `RefinesReports` does not say that an answer and a later
report have nothing in common.

### Approval and the code

| model | code |
|---|---|
| `pending` | `_PendingStore.confirmations` of a signed-in user. `heard` stands for `asked_at`: the runs that had begun when the question was last asked. `askers` and the state "past" are history |
| `run` | where a run of the executor is, and its task id (a resumed checkpoint keeps the old one) |
| `Ask`, `AskAgain`, `Twins` | `defer_confirmation`: a new question, or the open one rebound to the run that asks again |
| `ConsumeMatching`, `Confirm`, `Cancel`, `Answerable`, `Fits` | consumption by an identical or extended call, or by id; a no |
| `Judge` | `confirmation_holds_under_taint`: an await after the question has been taken out |
| `End`, `Expire` | `retire_unanswered_confirmations` (which helpers skip), `_prune_pending_confirmations` |

Left out: calls that no gate holds up, the inline dialogue (only its await is in
the model), the store of a manager without a user, and questions that the approval
bridge asks without a `created_task_id`, which skip the comparison with the task of
the run (`approval.py:652`, `707`): here every question has one. All runs are taken to be on
one event loop; the check and the insertion of `defer_confirmation` are two
sections of the store's lock and are one step here.

### DatabasePool and the code

| model | code |
|---|---|
| `shared`, `lock` | `_pool`, `_pool_lock` |
| `status`, `out` | asyncpg's pools (external): open, closing, closed, and who has a connection |
| `GetPool`, `GetLocked`, `Created`, `CreateFails` | `get_pg_pool`: the look before the lock, the look behind it, the creation |
| `ClosePool`, `CloseLocked`, `CloseReturns`, `CloseTimesOut`, `Discard` | `close_pg_pool`, `_close_pool_from_any_loop`: the bounded close and terminate() |
| `Acquire`, `Begin`, `Again`, `RolledBack`, `Undone` | `_RetryingAcquire.__aenter__` and the user's transaction, with the undoing of a failed setup and the one retry |
| `BodyEnds`, `Finished`, `FinishFails`, `Released` | `__aexit__` |
| `CallReturns`, `CallFails`, `CallIsLost` | `_call_with_retry`; a lost connection refreshes the pool |
| `CancelOutside`, `CancelInside`, `CancelCleanup` | a cancellation, by the await it arrives at; `_await_pool_cleanup` joins the cleanup before it is raised |

One event loop and one database URL: the path that discards a pool of another
loop or URL is left out (it uses the same close). A direct call needs a free
connection but is not counted while it uses it. Left out: acquires without a
user, the guard of tenant writes, cancellation of the cleanup task itself.

### CallQueue and the code

| model | code |
|---|---|
| `rows`, `at` | the table `phone_call_queue` and the order of `queued_at` |
| `ledger` | the usage rows that are open and whose heartbeat is fresh (`usage.py`) |
| `req`, `key` | how far a make_call has come, and what it asks for (owner, number, task) |
| `status`, `active`, `call` | the record's status (terminal or not), `_active_calls`, and where `_run_call` is: its body, its `finally` before and after the ledger is told |
| `Enter`, `Count`, `Insert`, `AnswerQueued`, `DialNow` | make_call with the lock: duplicate check, count, `_enqueue_prepared_call`, or `_make_call_unqueued` |
| `pump`, `PumpEnter`, `Pop`, `PopNone`, `PumpDial`, `Restore`, `LoopHead` | `_queue_pump_task` and the pass it makes |
| `hand`, `deferred` | what the pass has popped: the item it is about to dial, and those whose owner has no line free |
| `Schedule` | `_schedule_queue_pump`: nothing if a task is under way or the queue is paused |
| `StatusEnds`, `EndBody`, `Settle`, `Close` | the end of a call: the status (which an unconfirmed hangup leaves), the teardown, `record_call_end`, and the removal of the record with the wakeup |
| `HangUp` | `end_call`, by where the call's task is when it is cancelled |
| `Remove` | `remove_queued_call`, which does not take the lock |
| `Pause`, `Resume` | the flag `_accounting_cutover_queue_paused`, set by an observer outside the repository |
| `Restart` | a new CallManager over the same queue and ledger |

`excused` is history: it marks the ways in which a wakeup is known to be lost, so that
`WakeupComing` can say that there are no others. A start that is refused stands for
every reason (consent, opt-out, limits, a failing ledger). Left out: the preparation
of a call before the lock, the PostgreSQL queue (its pop and removal take two
statements without a row lock), `expires_at` of the usage rows, and a hosted usage
gate that suspends between the registration of a call and the creation of its task.

### The abstract specifications

Each detailed module maps its state to an abstract one and implements it. The
abstract modules know nothing of phases, locks, retries and stores: they are
what a caller of the component may rely on.

| abstract | mapping | what a step of the code may not do |
|---|---|---|
| `SingleFlight` | the stage of each job | start a second run of a schedule, or execute one without a permit |
| `SyncLog` | the visible table, journal and cursors; `applied` as the mutations written | write without consent, over history, a mutation twice (unless it makes a row), or at a number that is not past every cursor; bury a row without its history |
| `CallBook` | `Book`: where a call is, from rows, the pump's hands, dials and fates; `at` is its rank | dial a call that is not the first in line, or past the line, or again, or past the free lines; set one aside whose owner has a line free |
| `Lease` | `Leased`, `Outcome`, `Doomed`, `Answer`: the live connections, how far the body came, who was cancelled, what was raised | exceed the slots, try again after the body has worked, return without a commit, answer a cancelled request with something else |
| `Confirmation` | `Asked`, `Using`: the questions, and the call of a run that waits for the classifier | use a question twice, from another chat, by a run that asked it, or for something else; reopen it |
| `Reports` | `Report`, `Voice`: where each report is, and who may be speaking | let two speak, take a report that another has, send one that was sent, keep one that was lost |

`RefinesSingleFlight` is about runs that overlap. A schedule or task may run again after
a crash that came before the record, or from a due list read before its last run
ended (`DueRowFiresOnce` below); SingleFlight allows both, and no property excludes them.

`ToldOnce`, `AnswersItsQuestion`, `AnswersAreTrue` and `DialedOnce` are still defined in
their modules, and proved; the runs check the refinement instead, which says more.

## 3. What the runs show

| run | cfg | shows | distinct states, time |
|---|---|---|---|
| sched_safety | SchedulerSafety | `OneRunEach`, `InflightExact`, `StopIsFinal`; Scheduler implements SingleFlight (`RefinesSingleFlight`) | 0.55 million, 1 min |
| sched_live | SchedulerLive | `InstantDueIsAttempted`, `EveryRunEnds`, `StopEnds` | 211 thousand, 2 min |
| sync_retries | Tier2Retries | `AppliedAtMostOnce`, `VectorsGrow` | 2.6 million, 90 s |
| sync_consent | Tier2Consent | `WithdrawalPurges`, `CursorSkipsNothing`, `CaughtUpAgrees`; it implements SyncLog (`RefinesSyncLog`) | 0.7 million, 45 s |
| proactive | Proactive | `InflightExact`; it implements SingleFlight (`RefinesSingleFlight`); `DueIsAttempted`, `EveryRunEnds` | 9 thousand, 16 s |
| helpers | HelpersLive | `LiveIsBusy`, `SlotsAreBacked`, `ParentSpeaksFirst`, `KilledNeverCompletes`; it implements Reports (`RefinesReports`); `CancelledStops` | 208 thousand, 2 min |
| approval | Approval | `OneShot`, `NeverItsOwnAnswer`, `CancelIsFinal`, `OneTurnOnly`; it implements Confirmation (`RefinesConfirmation`) | 1.3 million, 2 min |
| pool | Pool | `NoHandleLost`, `OneOpenPool`, `CancellationIsKept`; it implements Lease (`RefinesLease`); `NoWedge`, `CancelledEnds` | 108 thousand, 35 s |
| call_queue | CallQueue | `NothingVanishes`, `JumpsNoQueue`, `WakeupComing`; it implements CallBook (`RefinesCallBook`); `EveryRequestIsAnswered` | 1.0 million, 3 min |

Every module states a type invariant; they are proved (section 4) and no run repeats them.

Three more runs each find a behaviour that contradicts what the repository says of
itself:

| run | said | done |
|---|---|---|
| disabled_never_fires | disable(): "it won't fire until re-enabled" | a run launched from the due list, or waiting for the semaphore, does not look at its row again |
| purged_era | a pre-withdrawal mutation is rejected as stale | its client refreshes its era and pushes it again, and it is applied |
| queued_calls_move | a queued call "will dial automatically when the current call ends" | a call whose hangup is not confirmed keeps its record ACTIVE and wakes nobody; a hang-up during the teardown cancels the wakeup with the rest of it |

`findings` in `PROJECT.json` quotes the lines.

**Stated and refuted.** The modules state nine more promises, which the code makes or a user
would take for granted, and which TLC refutes; no run of the list repeats them. To see one, name it in a cfg in
place of the property there:

| property | cfg to take | said | done |
|---|---|---|---|
| `DueRowFiresOnce` | DisabledNeverFires | the in-flight guard keeps a due row from firing twice (`service.py:620`) | a run that records between the query and the resumed scan has left the guard while its old row is in the due list |
| `RecordKeepsPlan` | DisabledNeverFires | "If cron_expr is changed, next_run_at is recomputed" (`service.py:418`) | a run in progress records the next_run_at of the old expression over it |
| `FreshStart` | DisabledNeverFires | re-enabling resets the failure counter (`service.py:476`) | the schedule_update tool re-enables through update(enabled=True), which does not |
| `LaterEditWins` | Tier2Retries | concurrent edits are ordered by when they were authored (`client.py:127`) | the server stores its own clock at arrival and compares the next edit with that |
| `CreatedOnce` | Tier2Consent | nothing says it; a user expects that one creation makes one row | a creation without a key looks up no row (`base.py:779`), so that neither its mutation id nor `resolve()` is asked: pushed again after a lost answer, it inserts another row, and the journal, unique per row, takes both |
| `KilledIsTerminal` | HelpersLive | "killed IS terminal" (`registry.py:37`) | a runner that fails after cancel() overwrites it with "failed" |
| `LastHelperDelivers` | HelpersLive | "the last helper to finish delivers one reply for all of them" (`agent_executor.py:9840`) | one that fails or is cancelled raises past the delivery, and the reports of the others stay in the list |
| `NextTurnAnswers` | Approval | a question is one "the next conversational turn can satisfy" (`approval.py:505`) | any run of the chat with another task id can, also one that was under way when it was asked: a background helper of the asking turn |
| `NotDropped` | CallQueue | "keep the item queued (NOT dropped)" when its owner has no line free (`call_manager.py:5355`) | the pump counts live records and the usage gate open rows: an item whose owner has just hung up is dialed, refused by the gate, and dropped |

### Bounds, and why they are enough

*Scheduler.* Two schedules, a recurring one with an instant action and a
one-shot that needs the LLM, cover every branch of the scan. Two jobs and one
permit: a run waits while another one executes, and a run competes with a write
that its cancelled predecessor left in a worker thread. `MaxFailures` 2 (the code
has 3) lets the breaker count and trip. In the safety run the recurring schedule
is edited (`Editable`) and has one cron expression; the run of `DisabledNeverFires`
has two. The liveness run leaves the edits out: an edit that takes the row away makes
its properties true. The state is finite without constraints, and the runs check
deadlock (the process can always crash and start again).

*Tier2Sync.* Two devices and a lenient or a strict row let two edits be
concurrent; the cloud's row gives a third writer. Two calls: one call served
while another one waits for the lock, or a call whose client has given up and
pushed it again. `MaxEra` = 1 gives an era before and one after a withdrawal.
Two properties need different crowds: retries need two mutations and no cloud
writer, consent and cursors need the cloud's writes and a single mutation.
`Generated` bounds how many rows can be made on a surface whose keys the database
draws: one in the retries run, beside a lenient and a strict row, for edits that
arrive before and after it is made; two in the consent run, so that a creation
that is pushed twice makes both. The third run makes none.
Commit numbers are unbounded where transactions roll back, so both runs stop at
`MaxSeq` = 3 (constraint `Bounded`): enough for a first write, a purge and a
write after it, and for a number that is lost. Deadlock is not checked: once every
mutation is authored and answered the system may really stop.

*ProactiveScheduler.* Two tasks, one of them unusable, two jobs and one permit: a
run waits for the other, and a check meets a task in each of its states.

*Helpers.* Three helpers, so that a report can be held by one, sent by another and
taken by the parent; one scheduler run and three slots, one less than there are
agents. Each id is started once (the code draws fresh ones).

*Approval.* Two turns and a helper in one chat, a run in another one, two questions,
and two calls of which one extends the other: a question can be asked again by
a second run while a third consumes it. Each run begins once, ids are drawn
once, so that the state is finite.

*DatabasePool.* Two scoped requests and one direct caller that may lose its connection
and refresh the pool; one connection, so that requests wait for each other; three
cancellations, so that one request can be cancelled in its body, in its cleanup,
and another one besides. `MaxPools` = 2 is all that these callers can create.

*CallQueue.* Three calls of two owners, one of which may ask twice for the same; one
or two lines and one call per owner, so that the pump dials, defers and is
refused, and a deferred call has others behind it. `MaxOutside` = 1 restart or
pause, anywhere. The run of the refuted liveness property has the limits of
`LocalPhoneUsage` (25 for all), where nothing is ever deferred.

Deadlock is not checked in the last five: their runs end, and the system may stop.

### Fairness

Five runs assume some, and only what the event loop gives. *sched_live*: the poll loop's
steps are weakly fair (`Check`): it loops, its query and its skips run in worker
threads that finish. So are stop()'s steps with the unwinding of cancelled
tasks (the grace period is a timer), worker threads' writes, and the end of the
five-minute backoff. A run's own steps are strongly fair because a scan or a full
semaphore disables them now and then, while the event loop and
`asyncio.Semaphore` serve waiters in order; a sub-agent ends because
`asyncio.wait_for` bounds it at 60 s. Nobody is obliged to start, to stop, to
edit, or to make the LLM healthy: hence `InstantDueIsAttempted` is stated of
instant actions only.

*proactive*: the loop's own steps and its timer are weakly fair; the query, a row's
turn, the runs' steps and `_advance_next_run` strongly, because other rows' failures
interrupt a check now and then and the list is ordered by next_run; so a store
that is asked again and again works at some time. A run ends because the pipeline
is under a 120 s timeout; its delivery has none and is taken to return.
*helpers*: the timer of a cancellation, the parent's bounded wait and bounded last
call, and scheduler runs (bounded too). Nothing makes a child run or a channel
answer, which is why `CancelledStops` rests on the timer.
*pool*: the steps of the lock, of creation and the bounded close, of the cleanup, and
of the setup while the connection is held (commands have a timeout). A body
need not end and a waiting acquire need not be served: `NoWedge` and
`CancelledEnds` hold without.
*call_queue*: the steps of a make_call that has been asked for, of the pump and of a
call's end are weakly fair: they wait for the event loop, for SQLite, for the lock
or for a call with a maximal duration. `asyncio.Lock` is first come, first served,
but that is not needed: every pass ends, and there are finitely many requests.

## 4. What is proved

For any schedules, jobs, permits, devices, rows, mutations and calls, under the
named assumptions of the modules: the special values (`None`, `Nobody`) are none of
the others, the numbers of permits, slots and pools are positive, the sets that
are counted are finite, helpers and scheduled runs, scoped and direct callers are
disjoint.

* `SingleFlightProofs`: `NoTwoRuns`, `PermitsSuffice`. The two facts that the
  abstract specification is named for; `PermitsSuffice` carries the finiteness of
  the executing set along, so that its cardinality can be reasoned about.
* `SchedulerProofs`
  * `TypeCorrect`, then `InflightIsExact`: the in-flight set is the set of
    schedules with a live task. It is not inductive alone: `Release` and
    `Unwind` remove an id, which is right only if no *other* task has the same
    schedule. So it is proved together with `OneRunEach`, and that one needs it
    back in `Launch`, whose guard looks at the set and not at the tasks.
  * `NoTwoRunsOfASchedule`, from the same invariant.
  * `StopKeepsItsWord` (`StopIsFinal`): the poll loop is off whenever the
    service does not run, hence no task can be added while stop() waits.
  * `Refinement`: every step maps to a step of SingleFlight or a stutter, with
    the invariant above for `Launch`, and "holding a permit" mapped to
    "executing".
* `Tier2SyncProofs`
  * `WellFormedAlways`, `TypeCorrect`. Types alone are not inductive: a step
    reads `authored[m]` for the m of a call or of an outbox. `Sound` adds that
    queued mutations are authored, calls carry what their stage needs, a
    device waits for a call of its own, journalled rows exist.
  * `WithdrawalHolds`: `WithdrawalPurges` with `LockExclusive`. At most one call
    holds the consent lock, and none while a withdrawal commits.
  * `NoChangeIsSkipped`: `CursorSkipsNothing` with `SeqBounds`, `DrawnIsNewest`
    (the number of an uncommitted write is larger than any visible one, since
    the lock serialises draw and commit) and `ConflictIsCurrent` (the row a
    conflict answer brings is not older than the copy it replaces). This is
    the argument for drawing the number *behind* the lock.
  * `RetriesAreIdempotent`: `AppliedAtMostOnce` with `WrittenDominates` and
    `AppliedIsDominated`: the row's vector is at least that of every mutation
    of its name ever applied to it, hence a second arrival is never accepted,
    also when the row has been written by others in between. Of a creation
    without a key there is only its key to know it by, and it has none:
    that it is written once is false (`CreatedOnce`), and both facts except it.
  * `HistoryIsKept`: the action property `VectorsGrow`.
  * `CaughtUp`: `CaughtUpAgrees`, which needs to know what the two ways into a cache
    bring. `JournalTells`: the entry with a row's own number says rightly whether
    that row is deleted, so that the last entry of a page decides.
    `ConflictAgrees`: a conflict that reaches a device which has pulled the last
    change of the row brings that very row, since the device has not pulled
    between its push and the answer.
  * `Refinement` of SyncLog: draw, write and journal of one transaction become one
    step at its commit. That it is a step there takes the lock (nothing else
    committed since it was drawn), `WrittenDominates` (it builds on the row, and
    either makes one or its mutation is new). SyncLog takes a mutation that makes
    a row as often as it comes, each time for a row that was not there.
  * `MergeIsLeastUpperBound` and `ResolutionIsCausal`, about the operators
    themselves, for every vector, row and edit.

* `ProactiveProofs`: `TypeCorrect`; `IdsAreRuns` (`InflightExact` is inductive here,
  both halves together: a launch looks at the set, an end at the runs);
  `Refinement` of SingleFlight, the second detailed specification shown to
  implement it.
* `HelpersProofs`
  * `TypeCorrect`; `Slots`: an active record has a busy task. A cancelled record is
    not active, so a runner that ends always finds its record killed or running,
    and the limit is counted before the insertion; the count needs the finiteness
    of the agents.
  * `KilledStays`, an action property, from the typing alone.
  * `LiveHelpersAreBusy`, `OneVoice`, `NothingIsToldTwice` from one invariant: where
    a report is (nowhere yet, held, in a reply, in the parent's answer, sent) is
    unique, and a helper delivers only as the last live one, hence alone.
  * `Refinement` of Reports, with one more invariant: a helper in its send is one of
    those it speaks for (`Delivering`), so that a send that is cut off ends the
    report of its own helper too. The end of the parent is `Finish` with whatever
    it has in hand; tasks, records, timers and scheduler runs are stutters.
* `ApprovalProofs`
  * `OneUse`, `NoOtherQuestion`, `NobodyAnswersItself`, `CancellationIsFinal` from
    `UseInv`. What a run is about to act on is out of the store and in no other
    run's hands; it fits, and is of the run's chat; and the runs that asked a
    question and are still going have its task id or are about to end, which is
    why rebinding it on a second asking does no harm.
  * `QuestionsEnd` (`OneTurnOnly`).
  * `Refinement` of Confirmation: consumption by id or by match is one `Use`,
    `UseInv` excludes that the run asked, and expiry, retirement and a no are all
    `Close`.
* `PoolProofs`
  * `HandlesAreKept`, with what is known of each stage (a pool in use has been
    created, a closing pool is the shared one and the lock is held).
  * `NoPoolIsOrphaned`: a pool is created with the lock and only when none is
    shared.
  * `AnswersHold`: an error once set is reported, and no commit follows it.
  * `CancellationsReachTheCaller`, an action property.
  * `NeverMoreThanSlots`: what is out of one pool, whatever its state.
  * `Refinement` of Lease, from `Safe`, which gathers the invariants above and adds
    `OnlyLive`: a closed pool has nothing out. With the one open pool, the leases
    of all pools are those of one, and the guard of its acquire bounds them; that
    `AnswersAreTrue` holds is not enough for a step, which needs `Progress`: what
    the body and the transaction can be at each stage.
* `CallQueueProofs`: `TypeCorrect`, and four theorems from one invariant. `Lock` (one
  holder, a make_call or the pump) and `Carried` (what a pass holds, by its stage)
  give `JumpsNoQueueAlways`: whoever counts the rows has the lock, so the pump's
  hands are empty and the rows are the whole queue. `Accounting` ties where a call
  is to what became of it, for `DialedOnceAlways` and `NothingVanishesAlways`.
  `WakeupComingAlways` needs both: a dialing that fills a line finds no row, and
  every other step that frees a line or ends a pass either leaves somebody who
  will wake the pump, or is one of the named exceptions. The count of lines is
  never opened. `Refinement` of CallBook adds `RankInv`: who has not been
  queued has no rank, those that wait have different ones, no larger than the
  number of ranks given, and the item in the pump's hand is before all rows.

Stays with TLC: the liveness properties (liveness under fairness and ENABLED are
beyond the prover: `InstantDueIsAttempted`, `EveryRunEnds`, `StopEnds`,
`DueIsAttempted`, `CancelledStops`, `NoWedge`, `CancelledEnds`,
`EveryRequestIsAnswered`), and the runs that find a contradiction. Every invariant,
every action property and every refinement that a run checks is proved.

## 5. What is not modelled, and the plan

What could follow, in this order:

1. `Failover`: leader election, heartbeats, fencing and split brain over lossy
   messages, with an abstract "one leader per epoch" to implement and to prove.
2. The call queue on PostgreSQL: several processes that pop and remove.
3. `StreamingTools`: order and exclusivity of concurrent tool calls.
4. `Companion`: connection takeover, pending requests and late answers.
5. `Playback`: chunk order and buffer limits; the music queue's cursor under
   removal, shuffle and repeat.
6. `SchedulerLifecycle`: start() split at its await, two starts, stop in the window.
7. `Schedules`: the composition of Scheduler and Tier2Sync over the schedules
   surface, where the scheduler's own writes leave the version vector alone;
   with the desktop consent gate and the copies that outlive a withdrawal.

Within the modelled parts: `enable()` and `ProactiveScheduler.stop()` have no caller
in the repository; the cap on enabled schedules, recovery of interrupted agents
at boot, the inline approval dialogue and a second event loop over the pool are
left out, as the tables above say.

Not planned: media pipelines and carriers (the rest of telephony, voice), provider and
operating-system I/O (LLM, notifications, MCP processes), sequential CRUD
(memory, calendar), presentation (interfaces, routes) and vendored code.
