------------------------------ MODULE KernelRuns ------------------------------
(***************************************************************************)
(* Tasks, runs and orchestrations of the Relux kernel (relux-kernel        *)
(* state.rs) under the server that drives them (server.rs): the background *)
(* orchestration jobs, the synchronous batch, the autonomy loop with its   *)
(* run watchdog, the registry of live runs and the operator's routes.      *)
(*                                                                         *)
(* Every handler takes the one kernel lock, loads the whole kernel from    *)
(* SQLite, works on that copy and saves it in one transaction.  Here disk  *)
(* is the saved kernel, k the copy of whoever holds the lock (equal to     *)
(* disk when nobody does) and txn what the holder is doing.  A handler     *)
(* that executes at most one run is a single step; the ones that go        *)
(* through several runs are cut at every run, so that a crash or a failing *)
(* save can come in between.  A job leaves the lock while its adapter      *)
(* processes run, and everyone else then works on the same kernel.         *)
(***************************************************************************)
EXTENDS Naturals, FiniteSets, FiniteSetsExt

CONSTANTS
    Tasks,              \* task numbers; an orchestration's briefs, in index order
    Orchs,              \* orchestrations
    NoOrch,             \* what OrchOf says of a task that is not a brief
    OrchOf,             \* the orchestration each task is a brief of
    Deps,               \* the briefs each brief depends on: depends_on
    Concurrency,        \* briefs per round
    Budget,             \* briefs per job or batch: user_max
    MaxActiveJobs,      \* PrimeAgentPolicy.max_active_jobs
    MaxTransient,       \* MAX_TRANSIENT_RETRIES
    MaxPerTick,         \* PrimeAutonomyConfig.max_tasks_per_tick
    Results,            \* how an execution under the lock can end
    SyncInWindow,       \* may the batch route be called while a job's briefs run?
    MaxRuns,            \* bound on runs
    MaxUpsets           \* bound on operator's calls, failing saves, panics and restarts

ASSUME KernelAssumption ==
    /\ Tasks \subseteq Nat /\ IsFiniteSet(Tasks)
    /\ NoOrch \notin Orchs
    /\ OrchOf \in [Tasks -> Orchs \cup {NoOrch}]
    /\ Deps \in [Tasks -> SUBSET Tasks]
    /\ \A t \in Tasks : \A d \in Deps[t] : d < t /\ OrchOf[d] = OrchOf[t] /\ OrchOf[t] # NoOrch
    /\ {Concurrency, Budget, MaxActiveJobs, MaxPerTick} \subseteq Nat \ {0}
    /\ {MaxTransient, MaxRuns, MaxUpsets} \subseteq Nat
    /\ Results \subseteq {"ok", "error", "transient", "config", "unsupported", "dangling"}
    /\ SyncInWindow \in BOOLEAN

Runs == 1 .. MaxRuns
NoRun == 0

VARIABLES
    k,                  \* the kernel as the holder of the lock has it
    disk,               \* the kernel as it is saved
    txn,                \* what the holder of the lock is doing
    jobs,               \* JobRegistry and the worker thread: the newest job of each orchestration
    proc,               \* the adapter process of each run that runs off the lock
    tokens,             \* live_run_logs and run_cancellations: the runs they hold
    sweep,              \* the watchdog sweep: what active_off_lock_run_ids returned
    leaky,              \* history: a fault has kept a worker from dropping its tokens
    upsets              \* how much of the bound is used

memory == << jobs, proc, tokens, sweep >>
bounds == << leaky, upsets >>
vars == << k, disk, txn, memory, bounds >>

-----------------------------------------------------------------------------
(* The kernel.  A task that is Created counts as queued: no code here      *)
(* tells the two apart.  The state of a run is its status with, for a      *)
(* failed run, what its failure class and retry state say: "retry" and     *)
(* "spent" are transient failures with and without a retry left, "stale"   *)
(* is the watchdog's, "failed" any other.                                  *)

TaskStatus == {"queued", "running", "completed", "failed", "blocked", "cancelled"}
RunState == {"absent", "running", "completed", "failed", "retry", "spent", "stale", "cancelled"}
StepOutcome == {"pending", "completed", "failed", "blocked"}
OrchStatus == {"planned", "running", "attention", "completed"}

Kernel ==
    [task : [Tasks -> TaskStatus],
     rtask : [Runs -> Tasks \cup {0}],      \* Run.task_id
     rstat : [Runs -> RunState],
     from : [Runs -> Runs \cup {NoRun}],    \* Run.retried_from
     quiet : SUBSET Runs,                   \* last_activity_at is a stall window ago
     next : 0 .. MaxRuns,                   \* next_run
     step : [Tasks -> StepOutcome],         \* OrchestrationStep.outcome
     srun : [Tasks -> Runs \cup {NoRun}],   \* OrchestrationStep.run_id
     orch : [Orchs -> OrchStatus]]

FreshKernel ==
    [task |-> [t \in Tasks |-> "queued"],
     rtask |-> [r \in Runs |-> 0],
     rstat |-> [r \in Runs |-> "absent"],
     from |-> [r \in Runs |-> NoRun],
     quiet |-> {},
     next |-> 0,
     step |-> [t \in Tasks |-> "pending"],
     srun |-> [t \in Tasks |-> NoRun],
     orch |-> [o \in Orchs |-> "planned"]]

Newest(S) == IF S = {} THEN NoRun ELSE Max(S)
RunsOf(K, t) == {r \in Runs : K.rstat[r] # "absent" /\ K.rtask[r] = t}
NewestRun(K, t) == Newest(RunsOf(K, t))
ActiveRun(K, t) == Newest({r \in RunsOf(K, t) : K.rstat[r] = "running"})

\* start_run, once the permissions are granted.  The new run's transcript
\* event is its first sign of life.
StartRun(K, t) ==
    LET r == K.next + 1 IN
    [K EXCEPT !.next = r, !.rtask[r] = t, !.rstat[r] = "running", !.task[t] = "running"]

\* transient_attempt_for: how many retries led to this run.
Attempt(K, r) ==
    LET depth[s \in Runs] == IF K.from[s] = NoRun THEN 0 ELSE 1 + depth[K.from[s]]
    IN  depth[r]

\* RunRetryState::plan for a transient failure.
Planned(K, r) == IF Attempt(K, r) < MaxTransient THEN "retry" ELSE "spent"

\* Mutant: a run is cancelled under the name that jobs use.
RunAfterAsJob(K, r, res) ==
    CASE res = "ok" -> "completed"
      [] res = "cancelled" -> "canceled"
      [] res = "transient" -> Planned(K, r)
      [] OTHER -> "failed"

\* What the end of an execution makes of the run: complete_run,
\* fail_run_classified, cancel_run.
RunAfter(K, r, res) ==
    CASE res = "ok" -> "completed"
      [] res = "cancelled" -> "cancelled"
      [] res = "transient" -> Planned(K, r)
      [] OTHER -> "failed"

\* ... of its task (complete_task, fail_task; a goal the local adapter
\* cannot do parks the task), and of the brief (record_brief_outcome).
TaskAfter(res) ==
    CASE res = "ok" -> "completed"
      [] res = "unsupported" -> "blocked"
      [] OTHER -> "failed"

\* Mutant: a brief with nothing left to execute counts as done.
OutcomeAfterNoRun(res) ==
    CASE res \in {"ok", "none"} -> "completed"
      [] res \in {"config", "refused"} -> "blocked"
      [] OTHER -> "failed"

OutcomeAfter(res) ==
    CASE res = "ok" -> "completed"
      [] res \in {"config", "refused"} -> "blocked"
      [] OTHER -> "failed"

\* execute_local_run and finalize_cli_run write the run and its task whatever
\* their statuses are by then.  The echo call of a local run leaves both as
\* they are when it fails ("dangling").
Settle(K, r, res) ==
    IF res = "dangling" THEN [K EXCEPT !.quiet = @ \ {r}]
    ELSE [K EXCEPT !.rstat[r] = RunAfter(K, r, res),
                   !.task[K.rtask[r]] = TaskAfter(res),
                   !.quiet = @ \ {r}]

Ended(K, res) == [k |-> K, res |-> res]

\* execute_assigned_run under the lock: start a run if the task is queued (the
\* agent may lack a permission), then execute the newest running one.  R is
\* how the execution can end.
Executions(K, t, R) ==
    LET queued == K.task[t] = "queued"
        s == IF queued THEN StartRun(K, t) ELSE K
        r == ActiveRun(s, t)
    IN  IF queued
        THEN {Ended(K, "refused")} \cup
             {Ended(Settle(s, r, res), res) : res \in IF K.next < MaxRuns THEN R ELSE {}}
        ELSE IF r = NoRun THEN {Ended(K, "none")}
        ELSE {Ended(Settle(s, r, res), res) : res \in R}

Requeue(K, t) == [K EXCEPT !.task[t] = "queued"]

\* Mutant: the link is written on the wrong run.
LinkBackwards(K, r) ==
    IF K.next = r THEN K ELSE [K EXCEPT !.from[r] = K.next, !.quiet = @ \ {K.next}]

\* Mutant: the retry state is left as it was planned before the link.
LinkWithoutPlan(K, r) ==
    IF K.next = r THEN K ELSE [K EXCEPT !.from[K.next] = r, !.quiet = @ \ {K.next}]

\* The end of retry_run: the highest-numbered run is taken for the new one,
\* linked to the retried run, and planned again at its real depth.
Link(K, r) ==
    LET n == K.next
        L == [K EXCEPT !.from[n] = r, !.quiet = @ \ {n}]
    IN  IF n = r THEN K
        ELSE IF K.rstat[n] \in {"retry", "spent"} THEN [L EXCEPT !.rstat[n] = Planned(L, n)]
        ELSE L

Failed == {"failed", "retry", "spent", "stale"}

Retries(K, r) ==
    {Link(e.k, r) : e \in Executions(Requeue(K, K.rtask[r]), K.rtask[r], Results)}

\* Mutant: every failed run is looked at, not only a task's newest.
RetryReadyOfAny(K) == {r \in Runs : K.rstat[r] = "retry"}

\* transient_retry_ready, before the clock is looked at.
RetryReady(K) == {r \in Runs : K.rstat[r] = "retry" /\ r = NewestRun(K, K.rtask[r])}

\* Mutant: only the run is marked.
RecoveredRunOnly(K, live) ==
    LET stale == {r \in K.quiet : K.rstat[r] = "running" /\ r \notin live} IN
    [K EXCEPT !.rstat = [r \in Runs |-> IF r \in stale THEN "stale" ELSE @[r]],
              !.quiet = @ \ stale]

\* Mutant: the run of a brief that is still pending counts as executing.
RecoveredUnlessBrief(K, live) ==
    LET stale == {r \in K.quiet : /\ K.rstat[r] = "running" /\ r \notin live
                                  /\ K.step[K.rtask[r]] # "pending"}
        hit == {K.rtask[r] : r \in stale}
    IN  [K EXCEPT !.rstat = [r \in Runs |-> IF r \in stale THEN "stale" ELSE @[r]],
                  !.task = [t \in Tasks |-> IF t \in hit /\ @[t] = "running" THEN "blocked" ELSE @[t]],
                  !.quiet = @ \ stale]

\* mark_run_stale for every candidate of recover_stale_runs.
Recovered(K, live) ==
    LET stale == {r \in K.quiet : K.rstat[r] = "running" /\ r \notin live}
        hit == {K.rtask[r] : r \in stale}
    IN  [K EXCEPT !.rstat = [r \in Runs |-> IF r \in stale THEN "stale" ELSE @[r]],
                  !.task = [t \in Tasks |-> IF t \in hit /\ @[t] = "running" THEN "blocked" ELSE @[t]],
                  !.quiet = @ \ stale]

-----------------------------------------------------------------------------
(* Orchestrations.                                                         *)

Briefs(o) == {t \in Tasks : OrchOf[t] = o}

RecordOutcome(K, t, res) ==
    [K EXCEPT !.step[t] = OutcomeAfter(res), !.srun[t] = NewestRun(K, t)]

\* One pass of propagate_dependency_blocks.
Blocking(K, o) ==
    {t \in Briefs(o) : /\ K.step[t] = "pending"
                       /\ \E d \in Deps[t] : K.step[d] \in {"failed", "blocked"}}

Block(K, S) == [K EXCEPT !.step = [t \in Tasks |-> IF t \in S THEN "blocked" ELSE @[t]]]

\* Mutant: the dependencies are not looked at.
ReadyAnyPending(K, o) == {t \in Briefs(o) : K.step[t] = "pending"}

Ready(K, o) ==
    {t \in Briefs(o) : /\ K.step[t] = "pending"
                       /\ \A d \in Deps[t] : K.step[d] = "completed"}

\* The first n of S in index order.
FirstN(S, n) == {t \in S : Cardinality({u \in S : u < t}) < n}

\* Mutant: only failures need attention.
StatusOfFailures(K, o) ==
    CASE \E t \in Briefs(o) : K.step[t] = "pending" -> "running"
      [] \A t \in Briefs(o) : K.step[t] # "failed" -> "completed"
      [] OTHER -> "attention"

\* The status finalize_orchestration_batch computes.
StatusOf(K, o) ==
    CASE \E t \in Briefs(o) : K.step[t] = "pending" -> "running"
      [] \A t \in Briefs(o) : K.step[t] = "completed" -> "completed"
      [] OTHER -> "attention"

WithStatus(K, o) == [K EXCEPT !.orch[o] = StatusOf(K, o)]

-----------------------------------------------------------------------------
(* The server.                                                             *)

NoTxn == [op |-> "none", orch |-> NoOrch, phase |-> "none", todo |-> {}, ran |-> 0, runs |-> {}]
LockFree == txn.op = "none"
NoSweep == [on |-> FALSE, seen |-> {}]

NoJob == [state |-> "none", pc |-> "idle", ran |-> 0, more |-> FALSE, live |-> {}]
NewJob == [NoJob EXCEPT !.state = "active", !.pc = "top"]
Active(o) == jobs[o].state = "active"

\* How an adapter process or its thread can have ended.
ProcessEnd == {"ok", "error", "transient", "cancelled", "gone"}

Init ==
    /\ k = FreshKernel /\ disk = FreshKernel
    /\ txn = NoTxn
    /\ jobs = [o \in Orchs |-> NoJob]
    /\ proc = [r \in Runs |-> "none"]
    /\ tokens = {}
    /\ sweep = NoSweep
    /\ leaky = FALSE /\ upsets = 0

Upset == upsets < MaxUpsets /\ upsets' = upsets + 1

\* locked_save_persisting around a handler that executes at most one run.
Handler(K) == LockFree /\ k' = K /\ disk' = K /\ UNCHANGED txn

-----------------------------------------------------------------------------
(* drive_orchestration_job and run_parallel_round.                         *)

SetJob(o, job) == jobs' = [jobs EXCEPT ![o] = job]

\* start_orchestration_job: one active job per orchestration, a cap on all.
StartJob(o) ==
    /\ LockFree /\ ~Active(o)
    /\ Cardinality({p \in Orchs : Active(p)}) < MaxActiveJobs
    /\ SetJob(o, NewJob)
    /\ UNCHANGED << k, disk, txn, proc, tokens, sweep, bounds >>

\* Mutant: a cancelled worker returns at once, and records no final state.
JobCheckReturns(o, canceled) ==
    /\ jobs[o].pc = "top"
    /\ SetJob(o, [jobs[o] EXCEPT !.pc =
          IF canceled THEN "idle"
          ELSE IF jobs[o].ran >= Budget THEN "completed" ELSE "prepare"])
    /\ UNCHANGED << k, disk, txn, proc, tokens, sweep, bounds >>

\* The top of the loop.  The flag cancel_orchestration_job sets is read only
\* here, so the operator's request is a choice made here.
JobCheck(o, canceled) ==
    /\ jobs[o].pc = "top"
    /\ SetJob(o, [jobs[o] EXCEPT !.pc =
          IF canceled THEN "canceled"
          ELSE IF jobs[o].ran >= Budget THEN "completed" ELSE "prepare"])
    /\ UNCHANGED << k, disk, txn, proc, tokens, sweep, bounds >>

\* After the loop: a last locked_read, then the final state.
JobRecords(o) ==
    /\ LockFree /\ jobs[o].pc \in {"canceled", "completed"}
    /\ SetJob(o, [NoJob EXCEPT !.state = jobs[o].pc])
    /\ UNCHANGED << k, disk, txn, proc, tokens, sweep, bounds >>

BeginPrepare(o) ==
    /\ LockFree /\ jobs[o].pc = "prepare"
    /\ txn' = [NoTxn EXCEPT !.op = "prepare", !.orch = o, !.phase = "propagate"]
    /\ UNCHANGED << k, disk, memory, bounds >>

\* A pass of propagate_dependency_blocks that finds something to block: it
\* comes first in a round, and last when a batch is finalized.
Propagating == txn.phase = "propagate" /\ txn.todo = {}
Stable == Blocking(k, txn.orch) = {}

PropagatePass ==
    /\ Propagating /\ ~Stable
    /\ k' = Block(k, Blocking(k, txn.orch))
    /\ UNCHANGED << disk, txn, memory, bounds >>

\* The briefs of the round: up to Concurrency of the ready ones, within what
\* is left of the budget.
Spent == IF txn.op = "sync" THEN txn.ran ELSE jobs[txn.orch].ran
Round == FirstN(Ready(k, txn.orch), Min({Concurrency, Budget - Spent}))

PickBriefs ==
    /\ txn.op \in {"prepare", "sync"} /\ Propagating /\ Stable
    /\ txn.op = "sync" => Round # {}
    /\ txn' = [txn EXCEPT !.phase = "briefs", !.todo = Round, !.ran = @ + Cardinality(Round)]
    /\ UNCHANGED << k, disk, memory, bounds >>

\* A brief that ends under the lock: a local run, one that cannot be spawned,
\* or any brief of a synchronous batch.
BriefInline ==
    /\ txn.phase = "briefs" /\ txn.todo # {}
    /\ LET t == Min(txn.todo) IN
          /\ \E e \in Executions(k, t, Results) : k' = RecordOutcome(e.k, t, e.res)
          /\ txn' = [txn EXCEPT !.todo = @ \ {t}]
    /\ UNCHANGED << disk, memory, bounds >>

\* prepare_cli_run succeeds: the brief will run off the lock.
BriefPrepared ==
    /\ txn.op = "prepare" /\ txn.phase = "briefs" /\ txn.todo # {}
    /\ LET t == Min(txn.todo)
           s == IF k.task[t] = "queued" THEN StartRun(k, t) ELSE k
           r == ActiveRun(s, t)
       IN  /\ k.task[t] = "queued" => k.next < MaxRuns
           /\ r # NoRun
           /\ k' = [s EXCEPT !.srun[t] = r, !.quiet = @ \ {r}]
           /\ txn' = [txn EXCEPT !.todo = @ \ {t}, !.runs = @ \cup {r}]
    /\ UNCHANGED << disk, memory, bounds >>

Commit(K) == k' = K /\ disk' = K /\ txn' = NoTxn

CommitPrepare ==
    /\ txn.op = "prepare" /\ txn.phase = "briefs" /\ txn.todo = {}
    /\ Commit(k)
    /\ SetJob(txn.orch, [jobs[txn.orch] EXCEPT !.pc = "spawn", !.live = txn.runs,
                                               !.ran = @ + txn.ran, !.more = txn.ran > 0])
    /\ UNCHANGED << proc, tokens, sweep, bounds >>

\* The worker waits for the lock once more, for the locked_read that tells the
\* job's pollers of the briefs in flight, then run_briefs_in_parallel_streaming
\* makes a token and a process for each.  (Whoever takes the lock between the
\* two could as well have taken it before the read, or after the spawn.)
Spawn(o) ==
    /\ jobs[o].live # {} => LockFree
    /\ jobs[o].pc = "spawn"
    /\ tokens' = tokens \cup jobs[o].live
    /\ proc' = [r \in Runs |-> IF r \in jobs[o].live THEN "live" ELSE proc[r]]
    /\ SetJob(o, [jobs[o] EXCEPT !.pc = "exec"])
    /\ UNCHANGED << k, disk, txn, sweep, bounds >>

\* The poll loop of run_adapter_command_streaming_cancellable: the process may
\* exit, be killed by the timeout, or be killed because the operator's request
\* has set the flag of its token: the flag is read only here, so that request
\* is a choice made here too.
ProcEnds(r) ==
    /\ proc[r] = "live"
    /\ \E res \in ProcessEnd \ {"gone"} :
          /\ res = "cancelled" => r \in tokens
          /\ proc' = [proc EXCEPT ![r] = res]
    /\ UNCHANGED << k, disk, txn, jobs, tokens, sweep, bounds >>

\* A panic in the thread of one of several briefs: it is joined and dropped.
PanicInThread(o, r) ==
    /\ jobs[o].live # {r}
    /\ proc' = [proc EXCEPT ![r] = "gone"]
    /\ UNCHANGED << jobs, leaky >>

\* A single brief runs on the worker itself: the panic unwinds the worker, so
\* nobody merges the brief, drops its token or ends the job.
PanicOfWorker(o, r) ==
    /\ jobs[o].live = {r}
    /\ proc' = [proc EXCEPT ![r] = "none"]
    /\ SetJob(o, [jobs[o] EXCEPT !.pc = "dead", !.live = {}])
    /\ leaky' = TRUE

Panic(o, r) ==
    /\ jobs[o].pc = "exec" /\ r \in jobs[o].live /\ proc[r] = "live"
    /\ Upset
    /\ PanicInThread(o, r) \/ PanicOfWorker(o, r)
    /\ UNCHANGED << k, disk, txn, tokens, sweep >>

BeginMerge(o) ==
    /\ LockFree /\ jobs[o].pc = "exec"
    /\ \A r \in jobs[o].live : proc[r] # "live"
    /\ txn' = [NoTxn EXCEPT !.op = "merge", !.orch = o, !.phase = "propagate",
                            !.todo = {r \in jobs[o].live : proc[r] # "gone"}]
    /\ UNCHANGED << k, disk, memory, bounds >>

\* Mutant: a run that is no longer Running is left as it is.
MergeBriefIfRunning ==
    /\ txn.op = "merge" /\ txn.todo # {}
    /\ LET r == Min(txn.todo) IN
          /\ k' = IF k.rstat[r] = "running"
                  THEN RecordOutcome(Settle(k, r, proc[r]), k.rtask[r], proc[r]) ELSE k
          /\ txn' = [txn EXCEPT !.todo = @ \ {r}]
    /\ UNCHANGED << disk, memory, bounds >>

\* finalize_prepared_brief
MergeBrief ==
    /\ txn.op = "merge" /\ txn.todo # {}
    /\ LET r == Min(txn.todo) IN
          /\ k' = RecordOutcome(Settle(k, r, proc[r]), k.rtask[r], proc[r])
          /\ txn' = [txn EXCEPT !.todo = @ \ {r}]
    /\ UNCHANGED << disk, memory, bounds >>

\* finalize_orchestration_batch and the save.
CommitMerge ==
    /\ txn.op = "merge" /\ Propagating /\ Stable
    /\ Commit(WithStatus(k, txn.orch))
    /\ SetJob(txn.orch, [jobs[txn.orch] EXCEPT !.pc = "finish",
                          !.more = @ /\ StatusOf(k, txn.orch) = "running"])
    /\ UNCHANGED << proc, tokens, sweep, bounds >>

\* Mutant: a run that was cancelled keeps its token.
FinishUncancelled(o) ==
    /\ jobs[o].pc = "finish"
    /\ tokens' = tokens \ {r \in jobs[o].live : proc[r] # "cancelled"}
    /\ proc' = [r \in Runs |-> IF r \in jobs[o].live THEN "none" ELSE proc[r]]
    /\ SetJob(o, [jobs[o] EXCEPT !.pc = IF jobs[o].more THEN "top" ELSE "completed", !.live = {}])
    /\ UNCHANGED << k, disk, txn, sweep, bounds >>

\* The tokens are dropped once the outcomes are saved, then the loop goes on
\* or ends.
Finish(o) ==
    /\ jobs[o].pc = "finish"
    /\ tokens' = tokens \ jobs[o].live
    /\ proc' = [r \in Runs |-> IF r \in jobs[o].live THEN "none" ELSE proc[r]]
    /\ SetJob(o, [jobs[o] EXCEPT !.pc = IF jobs[o].more THEN "top" ELSE "completed", !.live = {}])
    /\ UNCHANGED << k, disk, txn, sweep, bounds >>

-----------------------------------------------------------------------------
(* The other holders of the lock for several runs: run_orchestration_batch *)
(* and one_autonomy_tick.                                                  *)

\* The operator can call the batch route at any time.  While a job's briefs
\* run off the lock this executes them again, so it is a parameter.
BeginSync(o) ==
    /\ LockFree /\ Upset
    /\ SyncInWindow \/ jobs[o].pc \notin {"spawn", "exec"}
    /\ txn' = [NoTxn EXCEPT !.op = "sync", !.orch = o, !.phase = "propagate"]
    /\ UNCHANGED << k, disk, memory, leaky >>

NextRound ==
    /\ txn.op = "sync" /\ txn.phase = "briefs" /\ txn.todo = {}
    /\ txn' = [txn EXCEPT !.phase = "propagate"]
    /\ UNCHANGED << k, disk, memory, bounds >>

CommitSync ==
    /\ txn.op = "sync" /\ Propagating /\ Stable /\ Round = {}
    /\ Commit(WithStatus(k, txn.orch))
    /\ UNCHANGED << memory, bounds >>

\* The backoff of any of the retryable runs may have elapsed.  A tick that
\* finds nothing to do changes nothing, and is left out.
BeginTick ==
    /\ LockFree
    /\ RetryReady(k) # {} \/ \E t \in Tasks : k.task[t] = "queued"
    /\ \E elapsed \in SUBSET RetryReady(k) :
          txn' = [NoTxn EXCEPT !.op = "tick", !.phase = "retries",
                              !.todo = FirstN(elapsed, MaxPerTick)]
    /\ UNCHANGED << k, disk, memory, bounds >>

TickRetry ==
    /\ txn.phase = "retries" /\ txn.todo # {}
    /\ LET r == Min(txn.todo) IN
          /\ k' \in Retries(k, r)
          /\ txn' = [txn EXCEPT !.todo = @ \ {r}]
    /\ UNCHANGED << disk, memory, bounds >>

TickPick ==
    /\ txn.phase = "retries" /\ txn.todo = {}
    /\ txn' = [txn EXCEPT !.phase = "tasks",
                !.todo = FirstN({t \in Tasks : k.task[t] = "queued"}, MaxPerTick)]
    /\ UNCHANGED << k, disk, memory, bounds >>

TickRun ==
    /\ txn.phase = "tasks" /\ txn.todo # {}
    /\ LET t == Min(txn.todo) IN
          /\ \E e \in Executions(k, t, Results) : k' = e.k
          /\ txn' = [txn EXCEPT !.todo = @ \ {t}]
    /\ UNCHANGED << disk, memory, bounds >>

CommitTick ==
    /\ txn.phase = "tasks" /\ txn.todo = {}
    /\ Commit(k)
    /\ UNCHANGED << memory, bounds >>

\* store.save fails: the work done under the lock is lost.  A job's round
\* returns the error there and then, so what comes after it in the round (the
\* tokens of a merge) is not done.
RoundFails ==
    /\ txn.op \in {"prepare", "merge"} /\ Upset
    /\ k' = disk /\ txn' = NoTxn
    /\ SetJob(txn.orch, [NoJob EXCEPT !.state = "failed"])
    /\ proc' = [r \in Runs |-> IF r \in jobs[txn.orch].live THEN "none" ELSE proc[r]]
    /\ leaky' = (leaky \/ txn.op = "merge")
    /\ UNCHANGED << disk, tokens, sweep >>

SaveFails ==
    /\ txn.op \in {"sync", "tick"}
    /\ k' = disk /\ txn' = NoTxn
    /\ UNCHANGED << disk, memory, bounds >>

-----------------------------------------------------------------------------
(* The operator's routes on one task or run.                               *)

Edit(K) == Handler(K) /\ Upset /\ UNCHANGED << memory, leaky >>

Assign(t) == Edit(Requeue(k, t))

SetTaskStatus(t, s) ==
    /\ k.task[t] \notin {"completed", "failed", "cancelled"}
    /\ Edit([k EXCEPT !.task[t] = s])

Reopen(t) == k.task[t] = "blocked" /\ Edit(Requeue(k, t))

ReopenAndRun(t) ==
    /\ k.task[t] = "blocked"
    /\ \E e \in Executions(Requeue(k, t), t, Results) : Edit(e.k)

\* start_task and execute_assigned_task
ExecuteTask(t) == \E e \in Executions(k, t, Results) : Edit(e.k)

\* PrimeAction::StartRun starts a run whatever the task's status is.
PrimeStartRun(t) ==
    /\ k.next < MaxRuns
    /\ \E e \in Executions(StartRun(k, t), t, Results) : Edit(e.k)

RetryRun(r) == k.rstat[r] \in Failed /\ \E K \in Retries(k, r) : Edit(K)

\* Only a command-line adapter has sessions to resume.
ResumeRun(r) ==
    /\ k.rstat[r] \in Failed \cup {"completed"}
    /\ \E e \in Executions(Requeue(k, k.rtask[r]), k.rtask[r], Results \ {"unsupported", "dangling"}) :
          Edit(e.k)

-----------------------------------------------------------------------------
(* The run watchdog.                                                       *)

\* A stall window (30 s at least) passes without a sign of life of a running
\* run.  Holders of the lock execute adapters under it, so any wait for the
\* lock may be longer than that, the sweep's own included.  A window that
\* passes while the lock is held is noticed once it is free, as the sweep does.
Quiet(r) ==
    /\ LockFree
    /\ k.rstat[r] = "running" /\ r \notin k.quiet
    /\ k' = [k EXCEPT !.quiet = @ \cup {r}] /\ disk' = k'
    /\ UNCHANGED << txn, memory, bounds >>

\* run_autonomy_loop reads the registries before it takes the lock.  A sweep
\* that starts while no run is Running may as well start later: until one is,
\* only tokens of ended runs come and go.
SweepRead ==
    /\ ~sweep.on /\ \E r \in Runs : disk.rstat[r] = "running"
    /\ sweep' = [on |-> TRUE, seen |-> tokens]
    /\ UNCHANGED << k, disk, txn, jobs, proc, tokens, bounds >>

SweepRecover ==
    /\ sweep.on /\ Handler(Recovered(k, sweep.seen))
    /\ sweep' = NoSweep
    /\ UNCHANGED << jobs, proc, tokens, bounds >>

\* The server stops and starts again: what was not saved is gone.
Crash ==
    /\ Upset /\ leaky' = FALSE
    /\ k' = disk /\ txn' = NoTxn /\ UNCHANGED disk
    /\ jobs' = [o \in Orchs |-> NoJob]
    /\ proc' = [r \in Runs |-> "none"]
    /\ tokens' = {}
    /\ sweep' = NoSweep

-----------------------------------------------------------------------------
LockHolder ==
    \/ PropagatePass \/ PickBriefs \/ BriefInline \/ BriefPrepared \/ CommitPrepare
    \/ MergeBrief \/ CommitMerge
    \/ NextRound \/ CommitSync
    \/ TickRetry \/ TickPick \/ TickRun \/ CommitTick

\* A worker's own steps, and the ones for which it takes the kernel lock.
Works(o) == (\E c \in BOOLEAN : JobCheck(o, c)) \/ Finish(o)
Locks(o) == BeginPrepare(o) \/ Spawn(o) \/ BeginMerge(o) \/ JobRecords(o)

Job(o) == StartJob(o) \/ Works(o) \/ Locks(o) \/ \E r \in Runs : Panic(o, r)

Operator(t) ==
    \/ Assign(t) \/ Reopen(t) \/ ReopenAndRun(t) \/ ExecuteTask(t) \/ PrimeStartRun(t)
    \/ \E s \in {"blocked", "cancelled"} : SetTaskStatus(t, s)

OnRun(r) == ProcEnds(r) \/ RetryRun(r) \/ ResumeRun(r) \/ Quiet(r)

Next ==
    \/ LockHolder
    \/ \E o \in Orchs : Job(o) \/ BeginSync(o)
    \/ BeginTick \/ RoundFails \/ SaveFails
    \/ \E t \in Tasks : Operator(t)
    \/ \E r \in Runs : OnRun(r)
    \/ SweepRead \/ SweepRecover
    \/ Crash

Spec == Init /\ [][Next]_vars

\* The holder of the lock, the worker threads and the autonomy loop keep
\* going, and a process ends (its timeout sees to that).  Whoever waits for
\* the lock gets it if it becomes free again and again, and time passes.
Fairness ==
    /\ WF_vars(LockHolder) /\ WF_vars(SweepRead) /\ SF_vars(SweepRecover)
    /\ \A o \in Orchs : WF_vars(Works(o)) /\ SF_vars(Locks(o))
    /\ \A r \in Runs : WF_vars(ProcEnds(r)) /\ SF_vars(Quiet(r))

FairSpec == Spec /\ Fairness

-----------------------------------------------------------------------------
(* Properties.                                                             *)

Txn ==
    [op : {"none", "prepare", "merge", "sync", "tick"},
     orch : Orchs \cup {NoOrch},
     phase : {"none", "propagate", "briefs", "retries", "tasks"},
     todo : SUBSET (Tasks \cup Runs),
     ran : Nat,
     runs : SUBSET Runs]

JobRecord ==
    [state : {"none", "active", "completed", "failed", "canceled"},
     pc : {"idle", "top", "prepare", "spawn", "exec", "finish", "canceled", "completed", "dead"},
     ran : Nat, more : BOOLEAN, live : SUBSET Runs]

\* Every variable has the shape its handlers expect.
TypeOK ==
    /\ k \in Kernel /\ disk \in Kernel
    /\ txn \in Txn
    /\ jobs \in [Orchs -> JobRecord]
    /\ proc \in [Runs -> {"none", "live"} \cup ProcessEnd]
    /\ tokens \in SUBSET Runs
    /\ sweep \in [on : BOOLEAN, seen : SUBSET Runs]
    /\ leaky \in BOOLEAN /\ upsets \in 0 .. MaxUpsets

\* In the saved kernel a task that is Running has a Running run: whatever the
\* operator, a job, the watchdog and a crash do to the task in turn, no task is
\* left that claims to run and has nothing for the watchdog to recover.
RunningTaskHasRun ==
    \A t \in Tasks : disk.task[t] = "running" => ActiveRun(disk, t) # NoRun

\* "Excluded so an executing run is never falsely flagged" (run_autonomy_loop):
\* the watchdog does not recover a run whose process is alive.
LiveNeverStale ==
    \A r \in Runs : proc[r] = "live" => disk.rstat[r] # "stale"

\* The run states that tell how a process ended.
Verdict(end) ==
    CASE end = "ok" -> {"completed"}
      [] end = "cancelled" -> {"cancelled"}
      [] end = "transient" -> {"retry", "spent"}
      [] OTHER -> {"failed"}

\* When it does, its verdict does not outlive the execution it was wrong about:
\* once a round is merged, each of its runs says how its process ended, whatever
\* the watchdog, the operator and other holders of the lock made of it meanwhile
\* and make of the kernel now.
VerdictGivesWay ==
    \A o \in Orchs : jobs[o].pc = "finish" =>
        \A r \in jobs[o].live : proc[r] # "gone" => disk.rstat[r] \in Verdict(proc[r])

\* The brief of some worker.
InHand(r) == \E o \in Orchs : r \in jobs[o].live

\* A token belongs to a brief some worker still has in hand: a leaked one would
\* shield its run from the watchdog.  Until the next restart there are two
\* exceptions, in which the worker never comes to drop its tokens: the save of
\* a merge failed, or the panic of a round's single brief took the worker down.
NoTokenLeak ==
    ~leaky => \A r \in tokens : InHand(r)

\* A brief recorded as completed has a run of its task that completed, whatever
\* other runs of the task came and went while it ran.
CompletedBriefRan ==
    \A t \in Tasks : disk.step[t] = "completed" =>
        \E r \in RunsOf(disk, t) : disk.rstat[r] = "completed" /\ r <= disk.srun[t]

\* Retry lineages descend: retry_run links the highest-numbered run to an
\* earlier one, even when no new run was started, so transient_attempt_for
\* always ends.
LineageDescends ==
    \A r \in Runs : disk.from[r] # NoRun => disk.from[r] < r /\ disk.rstat[r] # "absent"

\* The retry state of a transient failure agrees with the run's place in its
\* lineage, although the failure is recorded before the lineage is: no run is
\* scheduled for a retry that the budget does not have.
RetryMatchesLineage ==
    \A r \in Runs :
        /\ disk.rstat[r] = "retry" => Attempt(disk, r) < MaxTransient
        /\ disk.rstat[r] = "spent" => Attempt(disk, r) >= MaxTransient

\* An orchestration that says Completed has only completed briefs, and one that
\* needs attention has no brief left to run.
StatusTellsTruth ==
    \A o \in Orchs :
        /\ disk.orch[o] = "completed" => \A t \in Briefs(o) : disk.step[t] = "completed"
        /\ disk.orch[o] = "attention" => \A t \in Briefs(o) : disk.step[t] # "pending"

\* A run the operator cancelled is not retried behind his back: a tick leaves
\* a task alone whose newest run was cancelled, even if an older one of its
\* runs is still waiting for its retry.
CancelStands ==
    [][\A t \in Tasks :
          /\ txn.op = "tick" /\ disk.task[t] = "failed" /\ NewestRun(disk, t) # NoRun
          /\ disk.rstat[NewestRun(disk, t)] = "cancelled"
          => disk'.task[t] = "failed"]_vars

\* The saved outcomes of the briefs follow the abstract board: see BriefBoard.
Board == INSTANCE BriefBoard WITH outcome <- disk.step
BoardImplemented == Board!Spec

\* A background job ends, unless a panic took its worker down.
JobEnds == \A o \in Orchs : Active(o) ~> ~Active(o) \/ jobs[o].pc = "dead"

\* A Running run does not stay so: it is settled, or the watchdog recovers it,
\* or a worker has it in hand.  There are two exceptions.  A leaked token (see
\* NoTokenLeak) shields its run from every sweep.  And when no run can be
\* started for a retry, retry_run takes the highest-numbered run for the new one
\* and writes a transcript event there, so a retry that is refused on every tick
\* keeps some other task's run from ever being found stale.
OrphanRecovered ==
    \A r \in Runs :
        []<>(disk.rstat[r] # "running" \/ InHand(r) \/ leaky \/ RetryReady(disk) # {})

\* "A background orchestration job that dies mid-flight. In every case the run
\* sits in Running forever ... The watchdog is the server-side backstop that
\* closes this gap" (run_watchdog.rs): a Running run that no worker has in hand
\* is recovered, refused retries apart.
DeadJobRunRecovered ==
    \A r \in Runs :
        []<>(disk.rstat[r] # "running" \/ InHand(r) \/ RetryReady(disk) # {})

\* "two concurrent runs of the same orchestration can never double-execute a
\* brief" (run_orchestration_batch): the outcome of a brief whose process is
\* alive is still open.
NoDoubleExecution ==
    \A o \in Orchs : \A r \in jobs[o].live :
        proc[r] = "live" => disk.step[disk.rtask[r]] = "pending"
=============================================================================
