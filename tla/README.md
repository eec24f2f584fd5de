# TLA+ models of Relux / Relix

A verification development for the control logic of two programs of the
repository. Of the Relux control plane (`src/crates/relux-kernel`): tasks, runs
and orchestrations, the jobs that drive them, the watchdog and the transient
retries. Of the Relix runtime (`src/crates/relix-runtime`): scheduled jobs, tool
calls that leave a ledger and can be rolled back, and human approvals. Each
module is written from the Rust source; `PROJECT.json` maps every definition to
the lines it models.

Run a model with `tlc -workers 2 -config MCCron.cfg MCCron`, and the proofs of
a module with `tlapm CronProofs.tla`.

## 1. Inventory

The repository is a Rust workspace: `relix-core` (shared types, event log,
rate limiting), `relix-runtime` (nodes, scheduling, planning, approvals,
workflows, identity, transport), `relux-kernel` (a single-user control plane),
a web bridge, a CLI, SDKs and a dashboard. A deployment is a mesh of node
processes. Each node is a multi-threaded tokio process that keeps its state in
SQLite files behind mutexes; nodes call one another's *capabilities* over
libp2p. A handler awaits network calls, timers and other handlers between
store calls, and holds no lock across an await: every pair of store calls in
one handler is a place where another handler, a timer or a crash gets in.

The Relux server is built the other way round. There is one kernel value and
one lock; a handler loads the whole kernel from SQLite, works on it and saves
it in one transaction, so handlers that stay under the lock are atomic. What is
hard is what leaves the lock: a background job saves its briefs as Running,
frees the lock while the adapter processes run, and merges their results into
whatever the kernel has become. The autonomy loop reads the registries of live
runs *before* it takes the lock. And a handler that executes several runs under
the lock loses all of them when its one save fails.

| Component | State | Operations | Interacts with | Hard behaviour |
|---|---|---|---|---|
| Schedule expressions (`cron/schedule.rs`) | none | `parse`, `next_after` | cron table and scheduler | calendar edges, 64-bit casts |
| Cron job table (`cron/store.rs`, `handlers.rs`) | table `cron_jobs` | create, update, delete, due query, stamp, status | scheduler, operators | stale rows, edits during a fire |
| Cron scheduler (`cron/scheduler.rs`) | semaphore, fires in flight | tick, trigger, `fire_job`, spawned AI dispatch | job table, task ledger, AI node | interleaved fires, timeouts, crashes |
| Tool dispatcher (`tool/dispatcher.rs`) | calls in flight | `dispatch`, `dispatch_with_options` | ledger, broker, secrets, tools | check-then-act around an await |
| Gateway ledger (`execution/transaction_store.rs`, `gateway.rs`, `gateway_tier.rs`) | table `gateway_actions`, in-memory ledger | record, lookup, list, mark | dispatcher, rollback | unique index, lost on restart |
| Rollback (`execution/rollback.rs`) | rollbacks in flight | `execution.rollback` | ledger, compensating tools | half-done walks, two at once |
| Approval delivery (`approval/delivery.rs`, `store.rs`, `caps.rs`) | table `approval_delivery`, timers, map of cancel senders | deliver, decide, escalate | channels, mirrors | timers against decisions and re-dispatch |
| Plan approvals (`planning/approval.rs`, `coordinator.rs`) | table `plan_approvals` | open, approve, reject, expire | workflow, mirrors | two operators at once |
| Decision mirrors (`approval/mirror.rs`) | none | copy a decision to the other store | both stores | echo, partial failure |
| Relux kernel: tasks and runs (`relux-kernel/src/state.rs`) | the kernel: tasks, runs, retry lineages | start, execute, settle, retry, resume, assign, reopen, set status | jobs, ticks, operators | the end of a run is written whatever became of its task |
| Relux kernel: orchestrations (`state.rs`, `relux-core/src/orchestration.rs`) | outcome and run of each brief, status | prepare a round, record an outcome, propagate blocks, finalize | jobs, the batch route | dependencies, two drivers of one orchestration |
| Relux server: jobs (`server.rs`) | `JobRegistry`, worker threads | start, cancel, `run_parallel_round` | kernel, registries, adapters | a window without the lock, failing saves, panics, restarts |
| Relux server: live logs and cancel tokens (`live_run_log.rs`, `run_cancel.rs`) | runs in flight | begin, finish, request | jobs, watchdog | leaks; stale reads |
| Relux server: autonomy loop (`server.rs`, `run_watchdog.rs`) | none of its own | sweep, retry, pick up queued tasks | kernel, registries | registries read before the lock, backoff, retry budget |
| Relux store and adapter processes (`store.rs`, `adapter.rs`) | SQLite file; child processes | load, save; spawn, poll, kill | every handler; jobs | a save that fails; a process that times out or is killed |
| Task ledger (`coordinator/mod.rs`) | tasks, attempts | create, update, claim | everything | large; external to the present models |
| Messaging, delegation, workflow executor, identity, credentials, budgets, event log, replay guard, access broker | tables of their own | see the plan | | not modelled yet |
| Transport, AI node, memory, channels, plugins, SOL and flow languages, the kernel's conversation, bridges, CLI | | | | I/O, text or interpreters: left out |

What makes the modelled components correct:

* kernel: a Running task has a Running run, a merged run tells how its process
  ended whatever was made of it meanwhile, tokens do not leak but for two faults,
  a completed brief really ran, retry lineages descend and the retry budget is
  kept, a cancelled run stays cancelled, an orchestration's status is true of its
  briefs, a brief gets one final outcome after those it depends on, a job ends,
  an orphaned run is recovered unless a leaked token shields it;
* schedules: the next run is in the future and no named minute is lost;
* cron: permits are conserved, counters are exact, a row points to its own
  task, a one-shot fires once, a dispatch ends and a due job is fired;
* gateway: what is undone really happened, what happened is recorded, retries
  and rollbacks do nothing twice, a rollback accounts for its whole snapshot;
* approvals: a decision stands, reaches both stores, starts the workflow at
  most once, and an undecided request is escalated.

`PROJECT.json` lists every component, modelled or not, with the reason, and
the hazards of the code at their lines with the properties that watch them.

## 2. Modules and how they correspond to the code

### Schedule, ScheduledJob, MCSchedule

Pure operators. `Parse` takes the token the parser recognises (a number with a
unit, five fields, an instant) and does the range checks and the saturating
multiplication of `parse_duration`; `NextAfter` is `next_after`, with the cast
to the signed width in `AsI64` and the walk over 366 days in `NextCronAfter`
(written as a minimum over matching days and minutes instead of a loop).
`Token` is the set of inputs the parser tells apart and `ParsedSchedule` the set
of values it may return. `CivilDate` stands for the calendar of the `time`
crate and is anchored by four known dates. `ScheduledJob` drives one job by its
schedule alone: it is created at some instant and then found due by a scheduler
that may be late, each fire recomputing `next_run_at`; its properties compare
`next_run_at` with `MatchesAt`, a field-by-field reading of the expression.
`MCSchedule` holds the constants for TLC. The integer width is the constant
`MaxI64`, small enough for TLC's integers.

### Cron

One variable per table or in-memory object: `jobs` is `cron_jobs`, `task` the
part of the task ledger a fire touches (external), `permits` the semaphore,
`due` the rows a tick has read and not handled. A *fire* is one call of
`fire_job` together with the dispatch it spawns; `pc[f]` is the store call it
makes next and `snap[f]` the row it was started from, as read then. The
actions follow the code in order:

| Action | Code |
|---|---|
| `CronCreate`, `CronSetEnabled`, `CronSetSchedule`, `CronDelete`, `CronTrigger` | the `cron.*` handlers and the statements behind them |
| `TickQuery`, `TickSpawn`, `TickDefer` | `tick`: read the due rows, take a permit or drop the row until the next tick |
| `CheckPasses`, `CheckSkips`, `CheckLookupFails` | the look at the previous task |
| `CreateTask`, `RecordFire` and their failures | `task_store.create`, `record_fire` |
| `DispatchEnds`, `CloseFails`, `RecordStatus`, `RecordStatusFails` | the spawned dispatch with its timeout |
| `TaskUpdate` | another component updates the task (external) |
| `AdvanceClock`, `Crash` | time; a restart that keeps the two tables only |

### ExecutionGateway

Calls of one tool in one transaction. `row` is `gateway_actions` by the call
that inserted it, `completed` and `failed` the in-memory ledger. A call goes
through `Dispatch`, the lookup of its key (`Replay`, `FreshKey`,
`LookupFails`), `Handle` and `Record` or `RecordFails`; a rollback through
`RollbackStart` (snapshot), `Compensate` or `CompensateFails` newest first,
`MarkRolledBack` or `MarkFails`, and `RollbackEnd`. Tools and compensating
calls are external and may fail. A refusal by the blocked list, Tier C or the
broker is a call that does not begin. `started` is the wall clock in
milliseconds, which may not have moved between two calls: starts may tie, and a
rollback takes tied actions in either order, as the code's random identifiers
do. `before` and `earlier` are history: the calls that had returned when a call
began, and when it returned.

`NeedsRollbackNotification` looks at two lists, completed and failed, that keep
no order between them. The comments speak of an irreversible action that
completed *before* a failure (`gateway.rs:16-19` and `89-91`,
`dispatcher.rs:573-575`). `IrreversibleIsAnnounced` states the sentence in
that order, and it holds; the converse does not: the code notifies as well when
the failure came first and the irreversible action was called and completed
afterwards, although `gateway.rs:17` says that it "only fires when irreversible
actions completed before a failure" and `gateway.rs:89-90` that an action must
have "failed afterwards". That is a notification too many and never one too few; it is
recorded here as a difference between comment and code, without a run.

### Approvals

One identifier, which is an `approval_id` and a `plan_id` at once: no
statement touches rows of two identifiers. `row` and `plan` are the rows in
the two tables, `slot` the entry of the identifier in `escalation_cancels`,
`signalled[d]` says whether the receiver of timer `d` is ready (a signal, or a
dropped sender, which wakes it just as well). `Upsert ... SpawnTimer` is
`dispatch_request`, `TimerFires ... TimerExit` the spawned timer,
`BeginRecordDecision`, `BeginApprove`, `BeginReject` and the steps up to
`Return` the three decision capabilities with the mirrors between them, and
`OpenPlan` and `ExpirePlan` the other writers of the plan store. `landed[k]`
says whether a write of call `k` has changed a row yet, which tells its first
write from a mirrored one.

### KernelRuns

`disk` is the saved kernel, `k` the copy of whoever holds the lock (equal to
`disk` when nobody does), `txn` what the holder is doing: the operation, its
orchestration, its phase and what it has still to do. A handler that executes at
most one run is one step (`Handler`); the ones that go through several runs are
cut at every run, so that a failing save or a crash comes in between. A run's
status and retry state are one value: `retry` and `spent` are transient failures
with and without a retry left, `stale` is the watchdog's.

| Definitions | Code |
|---|---|
| `StartRun`, `Executions`, `Settle`, `RunAfter`, `TaskAfter` | `start_run`, `execute_assigned_run`, `execute_local_run`, `finalize_cli_run`, `complete_run`, `fail_run_classified`, `cancel_run` |
| `Retries`, `Link`, `Attempt`, `Planned`, `RetryReady` | `retry_run`, `transient_attempt_for`, `RunRetryState::plan`, `transient_retry_ready` |
| `Ready`, `Round`, `Blocking`, `RecordOutcome`, `StatusOf` | `prepare_orchestration_round`, `propagate_dependency_blocks`, `record_brief_outcome`, `finalize_orchestration_batch` |
| `StartJob`, `JobCheck`, `BeginPrepare` ... `CommitPrepare`, `Spawn`, `ProcEnds`, `BeginMerge` ... `CommitMerge`, `Finish`, `JobRecords` | `start_orchestration_job`, `drive_orchestration_job`, `run_parallel_round` with its three phases, the adapter's poll loop |
| `BeginSync` ... `CommitSync` | `run_orchestration_batch` |
| `BeginTick`, `TickRetry`, `TickPick`, `TickRun`, `CommitTick` | `one_autonomy_tick` |
| `SweepRead`, `SweepRecover`, `Quiet` | the watchdog of `run_autonomy_loop`: the registries first, then, after a wait for the lock of any length, `recover_stale_runs` under it; a stall window passes |
| `Assign`, `SetTaskStatus`, `Reopen`, `ReopenAndRun`, `ExecuteTask`, `PrimeStartRun`, `RetryRun`, `ResumeRun` | the operator's routes |
| `RoundFails`, `SaveFails`, `Panic` (`PanicInThread`, `PanicOfWorker`), `Crash` | `store.save` returns an error; a brief's thread dies and is joined, or the worker that runs a single brief itself dies; a restart |

`Spawn` waits for the lock: between the save of the prepare step and the first
process the worker takes it once more, to tell the pollers of its job which
briefs are in flight (`locked_read`, `server.rs:7732`). A panic in one of
several briefs leaves the others and their merge alone; a panic of the single
brief of a round unwinds the worker, so that nobody merges the brief, drops its
token or ends the job. `leaky` says that this, or a failing save of a merge, has
left tokens behind since the last restart.

A request to cancel a job or a run only sets a flag that is read in one place,
so it is a choice made where the flag is read.

### BriefBoard

The abstract specification of an orchestration: each brief gets one outcome, it
is final, a brief is executed only after everything it depends on completed, and
one that is not executed is blocked because of one it depends on. `KernelRuns`
implements it with `outcome <- disk.step` (`BoardImplemented`); a save publishes
several outcomes at once, every other step stutters.

### PlanGate

The abstract specification of plan approval: a plan is opened once, decided once
and for good, and its workflow is started at most once, while it is approved.
`Approvals` implements it with `status <- plan, runs <- executed`
(`PlanGateImplemented`).

## 3. Runs

| Run | Instance | What it shows |
|---|---|---|
| `schedule` | 16 expressions, 5 starts around a leap day, 2 fires, ticks up to 61 s late | `DueAtOnce`, `NoMinuteSkipped`, `YearlyExpressionMatches` |
| `cron` | 1 job, 2 fires, 1 permit, 3 instants, 1 edit, 1 failure or crash, fair | permits, counters, ownership of `last_task_id`, status, one-shots, enabling, that a stamped fire uses its due instant up, `DispatchCloses` and `DueJobFires` |
| `gateway` | 2 calls, 2 rollbacks, 1 key, 1 failing store call, 1 crash | the eight safety properties of the gateway |
| `approvals` | 2 requests, 1 decision, 1 failure or crash, fair | the mirror, the map of senders, decisions that stand, `PlanGateImplemented` and `EscalationHappens` |
| `kernel` | 2 briefs, the second depends on the first, 2 runs, 1 upset, fair | the eight invariants of the kernel, `CancelStands`, `BoardImplemented`, `JobEnds`, `OrphanRecovered` |

Seven further runs each refute a sentence of the repository's own comments;
they are the findings:

* `cron_pile_up`: the check that "prevents pile-ups" looks for a previous task
  in status `running`, but a task is `pending` until its dispatch closes it.
* `schedule_leap_day`: an expression for 29 February created after the leap
  day gets an instant a year ahead that it does not name, on a branch the
  comment calls impossible. `YearlyExpressionMatches` is the other half: for
  every expression that names a weekday or a date of every year the branch is
  indeed never taken, although a leap day in between puts the date into the very
  last minute of the walk (the start `YearBefore`).
* `gateway_key_race`: two overlapping calls with one idempotency key both run
  the tool, because the lookup precedes the awaited handler and the insert
  follows it.
* `approvals_redispatch`: a timer that ends removes the entry of its
  identifier even when a later request put it there; the later timer wakes and
  ends without escalating.
* `kernel_double_execution`: "two concurrent runs of the same orchestration can
  never double-execute a brief", but a brief that a job has running off the lock
  is still pending in the saved kernel, and a batch called then finds its
  Running run and executes it again. With `SyncInWindow` FALSE, when no batch
  is called in that window, the sentence is a theorem (`NeverExecutedTwice`).
* `kernel_false_stale`: live runs "are excluded so an executing run is never
  falsely flagged", but the sweep reads the registries before it waits for the
  lock, and a worker enters its runs there only after it has waited for the lock
  too. Holders of the lock execute adapters under it and may keep it for longer
  than a stall window (180 s, or 30 s if so configured); the sweep then marks
  stale a run that is spawned all the same. What the code does keep is
  `VerdictGivesWay`: the merge writes how the process ended over the watchdog's
  verdict, and nothing takes that back.
* `kernel_dead_job`: the watchdog is to close the gap "in every case", that of "a
  background orchestration job that dies mid-flight" included, but the token of
  a dead worker's brief, or of a round whose merge could not be saved, stays in
  the registries and every sweep passes the run over: it is Running until the
  server restarts. `OrphanRecovered` is what remains true, without leaked tokens.

*Why the bounds are enough.* Every hazard here needs two actors that meet on
one row: two fires of a job, two calls with a key, two rollbacks, two requests
under an identifier, a decision and its timer. Two of each, with one failure or
crash at any point, contain every pairwise order; a second failure mostly repeats
what the first one does. One permit makes the semaphore a contended resource: of
two fires of the one job, a tick's and an operator's, one has to wait for the
other; three instants let a recurring job become due again during its own
dispatch. Several jobs share nothing but the permits, and several decisions meet
on the rows that a decision, its mirror and the expiry sweep already contend for.
The theorems below remove the bounds for the safety properties; the
liveness properties are checked on these instances only.

In `kernel` two dependent briefs make both ends of a dependency meet a job, a
batch and a tick; two runs make a retry and a lineage; MaxTransient is 1, so that
a retry can spend the budget. The one upset is shared by operators' calls,
saves that fail in a round, panics and restarts, which keeps the state graph
(about 183,000 states) small enough for the two liveness properties; ticks,
sweeps, processes and saves that fail in a batch or a tick are not bounded by
it. Because the briefs are dependent, a round of this instance has one brief at
most; rounds of several are left to the theorems.

*Deadlock* is not checked: the instances are bounded by the number of calls,
so that every behaviour ends when the budgets are used up. In `kernel` a worker
that a panic took down leaves nothing to do.

*Fairness.* `Cron`: weak fairness of the tick loop (a tokio interval in a loop
that never returns) and of the steps of every fire (a spawned task that tokio
keeps polling; `ai.chat` is inside a timeout, so the wait ends). The clock,
operators, failures and crashes are not fair. `Approvals`: weak fairness of
the steps of timers and of `dispatch_request`, for the same reasons (a sleep
ends, a send is awaited with an error or a result). Decisions are the
operators' and are not fair. `KernelRuns`: weak fairness of the holder of the
lock (it computes and releases), of a worker's own steps (a thread of its own),
of the end of a process (its poll loop kills it at the timeout) and of the
sweep's look at the registries (a timer loop that never returns); strong
fairness of whoever needs the lock (it is released again and again, and waiters
are not starved) and of the passing of time for a run without a sign of life.
Operators, jobs that are started, ticks, failing saves, panics and restarts are
not fair. The fairness of a process's end is a little generous: after the kill the
adapter joins the threads that read its pipes (`adapter.rs:500-501`), which ends
only when no grandchild keeps a pipe open.

*Assumptions of the kernel model.* The watchdog is switched on. `SyncInWindow` is
FALSE except in the run that shows what happens otherwise. Nothing is assumed of
the time a wait for the lock takes: a stall window may pass (`Quiet`) at any
moment a run shows no sign of life.

*What else checking the kernel brought to light*, besides the three findings:

* A retry for which no run can be started (a permission is missing) still takes
  the highest-numbered run for the new one: it links that run, which may be
  another task's, and writes a sign of life there. A retry that is refused on
  every tick so keeps another task's orphan from being found stale; this is the
  exception in `OrphanRecovered`.
* `NoTokenLeak` has two exceptions until the next restart, both the cause of
  `kernel_dead_job`: a save that fails in the merge returns before the tokens are
  dropped, and a panic in a round of one brief takes down the worker that would
  drop them.
* After such a panic the job also stays active, and no other job of the
  orchestration can be started (`JobEnds` says so).
* After the watchdog has recovered a brief's run the brief is pending and its
  task blocked; the next round records it as failed, there being no active run.
* The end of a process overwrites a status the operator set meanwhile, and the
  run recorded with an outcome is the newest of the task, not always the one
  that earned it; `CompletedBriefRan` is what remains true.

Every property of a passing run comes with a mutant: a variant of one modelled
definition that breaks the property as a plausible mistake in that code would
(a guard dropped, an order swapped, a reset forgotten). The variants stand
next to the definitions they alter, marked `Mutant`, and no action uses them.

## 4. Proofs

All safety properties and action properties that the passing runs check, in all
five components, and the refinements of `BriefBoard` and `PlanGate`, are proved
by TLAPS for every value of the constants, from the named assumptions of the
modules: bounds are naturals; there is at least one permit, one job and one
schedule, schedules are values `parse` can return, and the clock ends before the
integer range does; tokens are the ones the parser tells apart, and starts lie at
least a year before the end of the range; the integer range is not empty;
`NoKey` is not a key; a brief depends on earlier briefs of its own
orchestration. None of the properties is inductive alone.

**ScheduleProofs.** What `parse` and `next_after` compute, for every token and
every clock reading. The calendar comes first: `YearStep` (the start of a year
is the start of the one before and its length) and a least counterexample give
`CalendarTotal`, every day has a date; `CalendarInverse` says that `CivilDate`
finds that date again. `WalkFindsFirst` then shows that the search over days
and minutes in `NextCronAfter` is the loop of the code: it returns the first
minute of the 366-day window that matches field by field, and a year from now if
there is none. Least elements are taken from `WellFoundedInduction`'s statement
on the order of the naturals (`LeastExists`), since induction over an operator
is out of the prover's reach. `NextAfterIsInstant` and `NextAfterIsLater` are
what other modules use.

**ScheduledJobProofs.** The inductive invariant `Tracks` says that `next_run_at`
is what `next_after` made of the schedule and the last clock reading, which is
within range. `DueAtOnce` and `NoMinuteSkipped` follow from it by the theorems
above. `YearlyExpressionMatches` needs a case split on the fields: a weekday
comes back within seven days and a date of every year within 366, and the window
that starts in the minute after the date reaches, across a leap day, exactly to
that date's minute in the next year.

**KernelRunsProofs.** The argument has two layers. Below, one lemma for each
operator of the kernel says that it keeps `Sound` (runs are numbered in the
order they start, a quiet run is running, a running task has a running run,
lineages descend, a completed brief was earned) and what becomes of the runs it
finds. A kernel `Grows` when runs keep their numbers and tasks; it is `Steady`
when, moreover, the state of a settled run stands, but for a transient failure
whose retry is planned anew. Every operator is both (`Evolves`) except the merge
of a run, which only grows the kernel: it writes the end of the process over
whatever it finds. Above, `IInv` says `Sound` of `k` and `disk` and `Grows` from
`disk` to `k`, and adds who holds the lock for which job (`Lock`), that what the
holder has to do can be done (`Todo`), what a worker has in hand (`Prepared`,
`Workers`, `LiveProcs`: only a job between its spawn and its end has runs in
hand, so that a dead worker has none) and `NoTokenLeak` itself. Steps of
a holder, saves, and steps that begin or let go of a job share a lemma each
(`HolderStep`, `PublishStep`, `BeginStep`, `LetGo`).

**KernelRetryProofs.** `CancelStands` follows a tick: `TickSpares` says that what
it has still to retry are newest runs of their tasks, and what it has still to
start is queued. `RetryMatchesLineage` is about `Attempt`, a recursive function
that is defined because lineages descend; that the depths exist and that a new
link changes only its own is shown by a least counterexample, since induction
over an operator is out of the prover's reach.

**KernelBoardProofs.** `BInv` (only the holder's own orchestration is worked on)
gives `StatusTellsTruth` without any condition. `VInv` carries the end of a
process from the merge to its save and on: the holder's copy tells it of every
run a merge has gone through (`Merged`), and the copy and the disk tell it of every
merged round (`Tells`). It is kept because a run of a merged round is settled and
every other step is `Steady`, and because a merge settles runs of its own job
only, which are no other worker's; `VerdictsGiveWay` follows. With `SyncInWindow` FALSE,
`WInv` says that whoever holds briefs - a prepare step, a worker in its window, a
merge - holds *open* ones: different briefs, pending, with all dependencies
completed. A merge that records outcomes without looking therefore still
publishes what the board allows (`BoardRefined`), and no brief is decided while
its process is alive (`NeverExecutedTwice`). `BeginHands` is the one step that
needs the condition.

**CronProofs.** `PermitsConserved` needs the cardinality of the holders before
and after one fire enters or leaves `fire_job`. The other proofs rest on
`FireProgress`: what a fire has created and stamped, and which task exists, by
the place it has reached; from it follow `LastTaskIsOwn`, `RunCountExact`
(a fire that stamps is counted exactly then) and `RunningStatusIsLive`.
`OneShotRetires` needs `SnapshotsAgree` (without edits a snapshot has the
schedule of its row) and `OneShotsDisabled`. `FireConsumesDue`, that a stamp
leaves no due instant behind it, whatever row the fire was started from, rests
on `NextAfterIsLater`; that `next_run_at` is an integer at all, once an
assumption of the module, is `NextAfterIsInstant`.

**ExecutionGatewayProofs.** `LedgerInv` joins the types, `CallInv` (what a
call has done by the time it is where it is, and what its row then says) and
`WalkInv` (what a rollback has still to undo may be undone, and the rest of
its scope is undone or among the errors). Even type correctness needs it: a
mark writes to a row that must exist. On top of it stand `UndoneInv` (only
successful rows of Tier A are undone), `AloneInv` (while rollbacks do not
overlap, an action that was undone is marked or is the one about to be
marked), `KeyInv` (a call that returned has left its key in the ledger, and a
call past its lookup began before any call with its key returned),
`RecordedInv` and `MemoryInv` (until a crash, a call that returned is on its list
in memory, whichever call returned first). `RollbacksUnwindInReverse` is stated beside its
proof: a rollback turns to an action only when all later ones of its snapshot
were undone or are among its errors.

**ApprovalsProofs.** `DecisionStands` is an action property: every write of
the row but an upsert is guarded by `status = 'pending'`. `NoLeakedSender`
follows the entry of the map, `UndecidedTimerWaits` needs `TimerOrder` (a
timer exists only after its request, and a lone request's sender is touched
only after a decision landed). `PlanRunsOnce` needs `RunInv`: at most one
decision call won the update of the pending plan, and only it may start the
workflow. The same invariant gives `PlanGateRefined`: a step of a decision call
that changes the plan is the gate's `Decide`, the return that starts the workflow
is its `Run` (the caller is the one that flipped the plan, so that the plan is
approved and has not run), opening and expiry are `Open` and `Decide`, and every
other step stutters. `DecisionIsMirrored` needs `ChainInv`, which follows an undisturbed
decision from its first write over the mirror to its return.

*Model-checked only.* `JobEnds`, `OrphanRecovered`, `DispatchCloses`,
`DueJobFires` and `EscalationHappens` are liveness properties under fairness,
which the prover does not reach.

## 5. Abstractions and what is left out

* Text (prompts, names, notification wording, previews, JSON) and logging.
* Identifiers are drawn at random by the code and never reused in the models.
* One SQL statement, or one transaction, is one step; SQLite's own crash
  safety is assumed. The stores' failures are modelled as calls that change
  nothing and return an error.
* The calendar of the code ends with the year 9999, where the conversion of a
  timestamp fails; the model's goes on. `ClockEnd` bounds the clock so that a
  year more still fits the integer.
* A crash loses tasks, timers and in-memory maps and keeps the tables.
* `dispatch_with_contract` (argument checks before `dispatch`), the rule matrix
  of approval delivery (here: the rule asks for escalation or does not), the
  caller check of `approval.record_decision`, and approval tokens.
* Of the kernel: permissions and tool approvals (a start may be refused), plans
  (the briefs and their dependencies are constants), transcripts, sessions,
  diffs and artifacts of a run, tasks without an agent and their automatic
  assignment, eviction of the registries at 32 live runs (a job has at most four
  briefs in flight), a second process that opens the same database, and child
  processes that outlive a crash of the server.
* Transport, the AI node, memory, channels, plugins, languages, user
  interfaces: I/O, text processing or interpreters without protocol state of
  their own.

## 6. Plan

Done: `Schedule` with `ScheduledJob`, `Cron`, `ExecutionGateway`, `Approvals`
with `PlanGate`, `KernelRuns` with `BriefBoard`, their runs and proofs. The repository is far larger than this: the
rest is left in the order in which it would be taken up.

1. `KernelApprovals`: the gate of `call_tool` and the one-shot continuation of a
   Prime turn (`state.rs`), composed with `KernelRuns` through the runs that wait.
2. `Messaging`: mailboxes of `coordinator/messaging/store.rs` (send, claim,
   acknowledge, expiry), with an abstract at-most-once mailbox it implements.
3. `Workflow`: the step graph of `workflow/executor.rs` with retries and
   failure policy; every step ends, none runs before its dependencies.
4. `Tasks`: status transitions and attempts of the task ledger, which replaces
   the external `TaskUpdate` of `Cron`.
5. `Broker`, `ReplayGuard`, `Sessions`, `Budget`: caches and counters at their
   limits.
6. `EventLog`: the hash chain of `relix-core` and recovery of a torn tail.
7. Abstract specifications for the gateway (a ledger in which effect and row
   appear together) and for the pair of approval stores (one decision register),
   and refinements under the conditions the present properties name.
