--------------------------------- MODULE Cron ---------------------------------
(***************************************************************************)
(* The cron scheduler of the coordinator node                              *)
(* (crates/relix-runtime/src/nodes/coordinator/cron): the durable job      *)
(* table (store.rs), the cron.* capabilities (handlers.rs), the tick loop  *)
(* and the fire pipeline it shares with cron.trigger (scheduler.rs).       *)
(*                                                                         *)
(* A fire is one call of fire_job with the AI dispatch it spawns.  Each of *)
(* its steps is one call on a store; tokio runs fires, ticks and handlers  *)
(* on several threads, so steps of different actors interleave freely.     *)
(* Both stores are SQLite files and survive a crash; the rest does not.    *)
(***************************************************************************)
EXTENDS Schedule, FiniteSets

CONSTANTS
    Jobs,               \* job ids, minted at random and never reused
    Schedules,          \* schedules cron.create and cron.update are given
    MaxFires,           \* bound on the calls of fire_job that create a task
    MaxConcurrent,      \* cfg.max_concurrent.max(1), the semaphore's permits
    TickSecs,           \* step of the clock
    MaxNow,             \* bound on the clock
    MaxEdits,           \* bound on cron.update and cron.delete calls
    MaxFailures         \* bound on failing store calls and crashes together

ASSUME CronAssumption ==
    /\ Jobs # {} /\ Schedules # {} /\ Schedules \subseteq ParsedSchedule
    /\ MaxConcurrent \in Nat \ {0}
    /\ TickSecs \in Nat \ {0}
    /\ {MaxFires, MaxNow, MaxEdits, MaxFailures} \subseteq Nat
    /\ MaxNow < MaxI64

VARIABLES
    now,                \* unix_now()
    jobs,               \* table cron_jobs
    task,               \* status of the coordinator task each fire created
    pc,                 \* where each fire is
    snap,               \* the row each fire was started from, as read then
    holds,              \* whether a fire holds a permit of the semaphore
    stamped,            \* history: whether record_fire found the fire's row
    due,                \* rows the current tick has read and not yet handled
    permits,            \* free permits of the semaphore
    edits, faults, crashes  \* how much of each bound is used

fireVars == << pc, snap, holds, stamped >>
loopVars == << due, permits >>
boundVars == << edits, faults, crashes >>
vars == << now, jobs, task, fireVars, loopVars, boundVars >>

(* The calls of fire_job.  A call creates at most one task, which is named *)
(* after it; a call that ends without creating one gives its name back.    *)
Fires == 1 .. MaxFires

TaskStatus == {"none", "pending", "running", "completed", "failed"}

(* Where a fire is: in fire_job before its check of the previous task,     *)
(* before task_store.create or before record_fire; in the spawned dispatch *)
(* inside ai.chat, or between the closing update and record_status.        *)
InFireJob == {"check", "create", "stamp"}
InDispatch == {"ai", "report_ok", "report_failed"}
Ended == {"done", "lost"}
Pc == {"idle"} \cup InFireJob \cup InDispatch \cup Ended

Task == 0 .. MaxFires
NoTask == 0
LastStatus == {"null", "running", "ok", "failed"}

Rows == [row : {"unborn", "live", "deleted"}, schedule : Schedules, enabled : BOOLEAN,
         next_run_at : Int, run_count : Nat,
         last_task_id : Task, last_status : LastStatus]

\* The columns of a CronJob that are used after it was read.
Snapshots == [job : Jobs, schedule : Schedules, last_task_id : Task]

Live(j) == jobs[j].row = "live"

Snap(j) == [job |-> j, schedule |-> jobs[j].schedule,
            last_task_id |-> jobs[j].last_task_id]

\* CronStore::due_jobs
Due(j) == Live(j) /\ jobs[j].enabled /\ jobs[j].next_run_at <= now

-----------------------------------------------------------------------------
NoSnap == [job |-> CHOOSE j \in Jobs : TRUE, schedule |-> CHOOSE s \in Schedules : TRUE,
           last_task_id |-> NoTask]

NewRow == [row |-> "unborn", schedule |-> CHOOSE s \in Schedules : TRUE,
           enabled |-> FALSE, next_run_at |-> 0,
           run_count |-> 0, last_task_id |-> NoTask, last_status |-> "null"]

Init ==
    /\ now = 0
    /\ jobs = [j \in Jobs |-> NewRow]
    /\ task = [f \in Fires |-> "none"]
    /\ pc = [f \in Fires |-> "idle"]
    /\ snap = [f \in Fires |-> NoSnap]
    /\ holds = [f \in Fires |-> FALSE]
    /\ stamped = [f \in Fires |-> FALSE]
    /\ due = {}
    /\ permits = MaxConcurrent
    /\ edits = 0
    /\ faults = 0
    /\ crashes = 0

-----------------------------------------------------------------------------
(* The cron.* capabilities.  Each is one statement on the job table.       *)

\* cron.create with a name, template and subject that are not empty
CronCreate(j, s) ==
    /\ jobs[j].row = "unborn"
    /\ jobs' = [jobs EXCEPT ![j] = [NewRow EXCEPT !.row = "live", !.schedule = s,
                                      !.enabled = TRUE, !.next_run_at = NextAfter(s, now)]]
    /\ UNCHANGED << now, task, fireVars, loopVars, boundVars >>

Edit == edits < MaxEdits /\ edits' = edits + 1

\* cron.update of field "enabled"
CronSetEnabled(j, b) ==
    /\ Live(j)
    /\ jobs' = [jobs EXCEPT ![j].enabled = b]
    /\ Edit
    /\ UNCHANGED << now, task, fireVars, loopVars, faults, crashes >>

\* cron.update of field "schedule"
CronSetSchedule(j, s) ==
    /\ Live(j)
    /\ jobs' = [jobs EXCEPT ![j] = [@ EXCEPT !.schedule = s, !.next_run_at = NextAfter(s, now)]]
    /\ Edit
    /\ UNCHANGED << now, task, fireVars, loopVars, faults, crashes >>

\* cron.delete
CronDelete(j) ==
    /\ Live(j)
    /\ jobs' = [jobs EXCEPT ![j] = [NewRow EXCEPT !.row = "deleted"]]
    /\ Edit
    /\ UNCHANGED << now, task, fireVars, loopVars, faults, crashes >>

\* The next call of fire_job starts on the row r, with or without a permit.
StartFire(f, r, withPermit) ==
    /\ pc[f] = "idle" /\ \A g \in Fires : g < f => pc[g] # "idle"
    /\ pc' = [pc EXCEPT ![f] = "check"]
    /\ snap' = [snap EXCEPT ![f] = r]
    /\ holds' = [holds EXCEPT ![f] = withPermit]
    /\ UNCHANGED stamped

\* cron.trigger: the row is read whether or not the job is enabled.
CronTrigger(f, j) ==
    /\ Live(j)
    /\ StartFire(f, Snap(j), FALSE)
    /\ UNCHANGED << now, jobs, task, loopVars, boundVars >>

-----------------------------------------------------------------------------
(* The tick loop, run_one_tick.                                            *)

TickQuery ==
    /\ due = {}
    /\ due' = {[row |-> Snap(j), at |-> jobs[j].next_run_at] : j \in {j \in Jobs : Due(j)}}
    /\ UNCHANGED << now, jobs, task, fireVars, permits, boundVars >>

\* The tick handles its rows in the order of next_run_at.
NextInTick(d) == d \in due /\ \A e \in due : d.at <= e.at

\* Mutant: the tick spawns without a free permit.
TickSpawnUnbounded(f, d) ==
    /\ NextInTick(d)
    /\ permits' = permits - 1
    /\ due' = due \ {d}
    /\ StartFire(f, d.row, TRUE)
    /\ UNCHANGED << now, jobs, task, boundVars >>

TickSpawn(f, d) ==
    /\ NextInTick(d)
    /\ permits > 0
    /\ permits' = permits - 1
    /\ due' = due \ {d}
    /\ StartFire(f, d.row, TRUE)
    /\ UNCHANGED << now, jobs, task, boundVars >>

\* try_acquire_owned found no permit: the row waits for a later tick.
TickDefer(d) ==
    /\ NextInTick(d)
    /\ permits = 0
    /\ due' = due \ {d}
    /\ UNCHANGED << now, jobs, task, fireVars, permits, boundVars >>

-----------------------------------------------------------------------------
(* fire_job and run_ai_then_complete.                                      *)

Failure == faults + crashes < MaxFailures

Fault == Failure /\ faults' = faults + 1

Goto(f, l) == pc' = [pc EXCEPT ![f] = l]

\* Mutant: the permit is forgotten instead of dropped.
ReturnForgetsPermit(f) ==
    /\ holds' = [holds EXCEPT ![f] = FALSE]
    /\ UNCHANGED permits

\* fire_job returns, which drops the permit the spawned task owns.
ReturnFromFireJob(f) ==
    /\ holds' = [holds EXCEPT ![f] = FALSE]
    /\ permits' = IF holds[f] THEN permits + 1 ELSE permits

\* Mutant: the early return keeps the permit.
GiveUpKeepsPermit(f) ==
    /\ Goto(f, "idle")
    /\ snap' = [snap EXCEPT ![f] = NoSnap]
    /\ UNCHANGED << holds, permits >>

\* fire_job returns without having created a task.
GiveUp(f) ==
    /\ Goto(f, "idle")
    /\ snap' = [snap EXCEPT ![f] = NoSnap]
    /\ ReturnFromFireJob(f)

\* Step 1: skip when the previous task of the snapshot is running.
PreviousRunning(f) ==
    /\ snap[f].last_task_id # NoTask
    /\ task[snap[f].last_task_id] = "running"

\* Mutant: the row is stamped before the task is created.
CheckPassesToStamp(f) ==
    /\ pc[f] = "check"
    /\ ~PreviousRunning(f)
    /\ Goto(f, "stamp")
    /\ UNCHANGED << now, jobs, task, snap, holds, stamped, loopVars, boundVars >>

CheckPasses(f) ==
    /\ pc[f] = "check"
    /\ ~PreviousRunning(f)
    /\ Goto(f, "create")
    /\ UNCHANGED << now, jobs, task, snap, holds, stamped, loopVars, boundVars >>

\* `let Ok(Some(view)) = ...`: a lookup that fails counts as not running.
CheckLookupFails(f) ==
    /\ pc[f] = "check"
    /\ snap[f].last_task_id # NoTask
    /\ Fault
    /\ Goto(f, "create")
    /\ UNCHANGED << now, jobs, task, snap, holds, stamped, loopVars, edits, crashes >>

CheckSkips(f) ==
    /\ pc[f] = "check"
    /\ PreviousRunning(f)
    /\ GiveUp(f)
    /\ UNCHANGED << now, jobs, task, stamped, due, boundVars >>

\* Steps 2 and 3: TaskStore::create inserts the task as 'pending'.
CreateTask(f) ==
    /\ pc[f] = "create"
    /\ task' = [task EXCEPT ![f] = "pending"]
    /\ Goto(f, "stamp")
    /\ UNCHANGED << now, jobs, snap, holds, stamped, loopVars, boundVars >>

CreateTaskFails(f) ==
    /\ pc[f] = "create"
    /\ Fault
    /\ GiveUp(f)
    /\ UNCHANGED << now, jobs, task, stamped, due, edits, crashes >>

\* Mutant: the next run is counted from the one that was due.
StampFromDue(j, f) ==
    [jobs[j] EXCEPT !.next_run_at = NextAfter(snap[f].schedule, @),
                    !.run_count = @ + 1,
                    !.last_task_id = f,
                    !.last_status = "running"]

\* What record_fire writes for every schedule.
Stamp(j, f) ==
    [jobs[j] EXCEPT !.next_run_at = NextAfter(snap[f].schedule, now),
                    !.run_count = @ + 1,
                    !.last_task_id = f,
                    !.last_status = "running"]

\* Mutant: only scheduled fires are counted.
FiredRowCountsEnabled(j, f) ==
    [Stamp(j, f) EXCEPT !.run_count = IF jobs[j].enabled THEN @ ELSE @ - 1,
                        !.enabled = @ /\ snap[f].schedule.kind # "oneshot"]

\* Mutant: a one-shot stays enabled.
FiredRowKeepsOneShot(j, f) == Stamp(j, f)

\* Mutant: the column enabled is written back instead of kept.
FiredRowWritesEnabled(j, f) ==
    [Stamp(j, f) EXCEPT !.enabled = (snap[f].schedule.kind # "oneshot")]

\* The UPDATE of CronStore::record_fire for the schedule of the snapshot.
FiredRow(j, f) == [Stamp(j, f) EXCEPT !.enabled = @ /\ snap[f].schedule.kind # "oneshot"]

\* Steps 4 and 5: stamp the row, if it still exists, and spawn the dispatch.
RecordFire(f) ==
    LET j == snap[f].job
    IN /\ pc[f] = "stamp"
       /\ jobs' = IF Live(j) THEN [jobs EXCEPT ![j] = FiredRow(j, f)] ELSE jobs
       /\ stamped' = [stamped EXCEPT ![f] = Live(j)]
       /\ Goto(f, "ai")
       /\ ReturnFromFireJob(f)
       /\ UNCHANGED << now, task, snap, due, boundVars >>

\* A failing record_fire is only logged; the dispatch is spawned all the same.
RecordFireFails(f) ==
    /\ pc[f] = "stamp"
    /\ Fault
    /\ Goto(f, "ai")
    /\ ReturnFromFireJob(f)
    /\ UNCHANGED << now, jobs, task, snap, stamped, due, edits, crashes >>

\* Mutant: a dispatch that times out leaves its task as it is.
DispatchEndsWithoutFailure(f) ==
    /\ pc[f] = "ai"
    /\ \/ task' = [task EXCEPT ![f] = "completed"] /\ Goto(f, "report_ok")
       \/ task' = task /\ Goto(f, "report_failed")
    /\ UNCHANGED << now, jobs, snap, holds, stamped, loopVars, boundVars >>

\* The dispatch replies, fails, or runs into max_job_secs; the closing
\* update overwrites whatever status the task has.
DispatchEnds(f) ==
    /\ pc[f] = "ai"
    /\ \/ task' = [task EXCEPT ![f] = "completed"] /\ Goto(f, "report_ok")
       \/ task' = [task EXCEPT ![f] = "failed"] /\ Goto(f, "report_failed")
    /\ UNCHANGED << now, jobs, snap, holds, stamped, loopVars, boundVars >>

\* `let _ = task_store.update(..)`: a failing update is not even logged.
CloseFails(f) ==
    /\ pc[f] = "ai"
    /\ Fault
    /\ \E l \in {"report_ok", "report_failed"} : Goto(f, l)
    /\ UNCHANGED << now, jobs, task, snap, holds, stamped, loopVars, edits, crashes >>

\* Mutant: only successes are reported to the row.
RecordStatusOnSuccess(f) ==
    LET j == snap[f].job
    IN /\ pc[f] \in {"report_ok", "report_failed"}
       /\ jobs' = IF Live(j) /\ pc[f] = "report_ok"
                  THEN [jobs EXCEPT ![j].last_status = "ok"] ELSE jobs
       /\ Goto(f, "done")
       /\ UNCHANGED << now, task, snap, holds, stamped, loopVars, boundVars >>

RecordStatus(f) ==
    LET j == snap[f].job
        status == IF pc[f] = "report_ok" THEN "ok" ELSE "failed"
    IN /\ pc[f] \in {"report_ok", "report_failed"}
       /\ jobs' = IF Live(j) THEN [jobs EXCEPT ![j].last_status = status] ELSE jobs
       /\ Goto(f, "done")
       /\ UNCHANGED << now, task, snap, holds, stamped, loopVars, boundVars >>

RecordStatusFails(f) ==
    /\ pc[f] \in {"report_ok", "report_failed"}
    /\ Fault
    /\ Goto(f, "done")
    /\ UNCHANGED << now, jobs, task, snap, holds, stamped, loopVars, edits, crashes >>

-----------------------------------------------------------------------------
(* The surroundings.                                                       *)

\* task.update by whoever works on a task that was created.
TaskUpdate(f) ==
    /\ task[f] = "pending"
    /\ task' = [task EXCEPT ![f] = "running"]
    /\ UNCHANGED << now, jobs, fireVars, loopVars, boundVars >>

AdvanceClock ==
    /\ now + TickSecs <= MaxNow
    /\ now' = now + TickSecs
    /\ UNCHANGED << jobs, task, fireVars, loopVars, boundVars >>

\* The coordinator dies and its loop respawns; only the two stores survive.
Crash ==
    /\ Failure
    /\ crashes' = crashes + 1
    /\ pc' = [f \in Fires |-> CASE pc[f] \in {"check", "create"} -> "idle"
                               [] pc[f] \in {"stamp"} \cup InDispatch -> "lost"
                               [] OTHER -> pc[f]]
    /\ snap' = [f \in Fires |-> IF pc[f] \in {"check", "create"} THEN NoSnap ELSE snap[f]]
    /\ holds' = [f \in Fires |-> FALSE]
    /\ permits' = MaxConcurrent
    /\ due' = {}
    /\ UNCHANGED << now, jobs, task, stamped, edits, faults >>

Operator ==
    \/ \E j \in Jobs, s \in Schedules : CronCreate(j, s) \/ CronSetSchedule(j, s)
    \/ \E j \in Jobs : (\E b \in BOOLEAN : CronSetEnabled(j, b)) \/ CronDelete(j)
    \/ \E f \in Fires, j \in Jobs : CronTrigger(f, j)

TickTake == \E d \in due : TickDefer(d) \/ \E f \in Fires : TickSpawn(f, d)

FireStep(f) ==
    \/ CheckPasses(f) \/ CheckLookupFails(f) \/ CheckSkips(f)
    \/ CreateTask(f) \/ CreateTaskFails(f)
    \/ RecordFire(f) \/ RecordFireFails(f)
    \/ DispatchEnds(f) \/ CloseFails(f)
    \/ RecordStatus(f) \/ RecordStatusFails(f)

Next ==
    \/ Operator
    \/ TickQuery
    \/ TickTake
    \/ \E f \in Fires : FireStep(f) \/ TaskUpdate(f)
    \/ AdvanceClock
    \/ Crash

(* The loop keeps ticking and tokio keeps polling what it spawned; an      *)
(* ai.chat that never answers is ended by tokio::time::timeout.  Operators *)
(* and whoever works on a task are under no obligation.                    *)
Fairness ==
    /\ WF_vars(TickQuery)
    /\ WF_vars(TickTake)
    /\ \A f \in Fires : WF_vars(FireStep(f))

Spec == Init /\ [][Next]_vars /\ Fairness

-----------------------------------------------------------------------------
TypeOK ==
    /\ now \in 0 .. MaxNow
    /\ jobs \in [Jobs -> Rows]
    /\ task \in [Fires -> TaskStatus]
    /\ pc \in [Fires -> Pc]
    /\ snap \in [Fires -> Snapshots]
    /\ holds \in [Fires -> BOOLEAN]
    /\ stamped \in [Fires -> BOOLEAN]
    /\ due \in SUBSET [row : Snapshots, at : Int]
    /\ permits \in Nat
    /\ edits \in 0 .. MaxEdits
    /\ faults \in Nat
    /\ crashes \in Nat
    /\ faults + crashes <= MaxFailures

(* The semaphore neither leaks nor duplicates a permit: every path out of  *)
(* fire_job, early returns and a crash included, gives back the permit the *)
(* tick acquired for it, and only running calls of fire_job hold one.      *)
PermitsConserved ==
    /\ permits + Cardinality({f \in Fires : holds[f]}) = MaxConcurrent
    /\ \A f \in Fires : holds[f] => pc[f] \in InFireJob

(* run_count is the number of fires that were stamped on the row: fires    *)
(* started from the same stale snapshot do not lose each other's count     *)
(* (record_fire increments in SQL instead of writing back what it read).   *)
RunCountExact ==
    \A j \in Jobs : Live(j) =>
        jobs[j].run_count = Cardinality({f \in Fires : stamped[f] /\ snap[f].job = j})

(* last_task_id names a task that exists and that this very job created,   *)
(* across deletes, crashes and fires that overtake each other.             *)
LastTaskIsOwn ==
    \A j \in Jobs : Live(j) /\ jobs[j].last_task_id # NoTask =>
        LET f == jobs[j].last_task_id
        IN f \in Fires /\ task[f] # "none" /\ stamped[f] /\ snap[f].job = j

(* last_status 'running' is never a leftover: the dispatch of the last     *)
(* task is still under way, or died with the coordinator (or a store call  *)
(* has failed: record_status is best-effort).                              *)
RunningStatusIsLive ==
    faults = 0 => \A j \in Jobs : Live(j) /\ jobs[j].last_status = "running" =>
        jobs[j].last_task_id # NoTask /\ pc[jobs[j].last_task_id] \in InDispatch \cup {"lost"}

(* docs/scheduler.md: one-shot jobs are disabled after their first fire.   *)
(* As long as no operator edits a job, a one-shot that was stamped is      *)
(* never due again, whoever else held a snapshot of it.                    *)
OneShotRetires ==
    edits = 0 => \A j \in Jobs :
        Due(j) /\ jobs[j].schedule.kind = "oneshot" => jobs[j].run_count = 0

(* One due instant is one stamp: once record_fire has stamped its row the  *)
(* job is not due at this clock reading, however late the tick, whichever  *)
(* schedule an operator has set since the row was read, and although       *)
(* next_run_at and enabled are written from the schedule that was read.    *)
(* Durations beyond the signed range, which the cast makes negative, are   *)
(* left out.                                                               *)
FireConsumesDue ==
    [][\A f \in Fires :
          /\ ~stamped[f] /\ stamped'[f]
          /\ snap[f].schedule.kind = "duration" => snap[f].schedule.secs <= MaxI64
          => ~Due(snap[f].job)']_vars

(* A fire in flight never undoes an operator's disable: a job goes from    *)
(* disabled to enabled only by cron.create or cron.update (record_fire     *)
(* keeps the column with CASE WHEN ... ELSE enabled).                      *)
OnlyOperatorsEnable ==
    [][\A j \in Jobs : ~jobs[j].enabled /\ jobs'[j].enabled =>
          CronSetEnabled(j, TRUE) \/ \E s \in Schedules : CronCreate(j, s)]_vars

(* max_job_secs: a dispatch that was started comes to its end and closes   *)
(* its task (unless the closing update fails), or dies with the            *)
(* coordinator.                                                            *)
DispatchCloses ==
    \A f \in Fires :
        pc[f] = "ai" ~> \/ pc[f] = "done" /\ (task[f] \in {"completed", "failed"} \/ faults > 0)
                        \/ pc[f] = "lost"

NoFireLeft == \A f \in Fires : pc[f] # "idle"

(* docs/scheduler.md: "next_run_at is durable in SQLite so missed deadlines *)
(* fire on the next tick": a due job is fired (or its row edited) even when *)
(* the semaphore defers it or the coordinator crashes in between, unless    *)
(* its previous task is marked running.                                     *)
DueJobFires ==
    \A j \in Jobs : Due(j) ~> \/ ~Due(j)
                               \/ NoFireLeft
                               \/ /\ jobs[j].last_task_id # NoTask
                                  /\ task[jobs[j].last_task_id] = "running"

(* scheduler.rs: the check of the previous task "prevents pile-ups when a  *)
(* long-running flow stretches past the next fire": a fire started from a  *)
(* row that names a dispatch still under way does not dispatch as well.    *)
NoPileUp ==
    \A f, g \in Fires : pc[f] = "ai" /\ snap[f].last_task_id = g => pc[g] # "ai"
=============================================================================
