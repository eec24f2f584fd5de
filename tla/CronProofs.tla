------------------------------ MODULE CronProofs ------------------------------
(***************************************************************************)
(* Proofs about Cron: the safety properties of the scheduler for every set *)
(* of jobs and schedules, every number of permits and every bound.         *)
(***************************************************************************)
EXTENDS Cron, ScheduleProofs, FiniteSetTheorems, TLAPS

\* The blank row of a job is a row, disabled and never run.
LEMMA NewRowType == NewRow \in Rows /\ NewRow.row = "unborn" /\ NewRow.run_count = 0
                    /\ NewRow.last_task_id = NoTask /\ NewRow.last_status = "null"
                    /\ ~NewRow.enabled /\ NoTask \in Task
BY CronAssumption DEF NewRow, Rows, NoTask, Task, LastStatus

\* The snapshot of an idle fire is a snapshot.
LEMMA NoSnapType == NoSnap \in Snapshots
BY CronAssumption DEF NoSnap, Snapshots, NoTask, Task

\* What due_jobs and cron.trigger read of a row is a snapshot of it.
LEMMA SnapType ==
    ASSUME jobs \in [Jobs -> Rows], NEW j \in Jobs
    PROVE  /\ Snap(j) \in Snapshots
           /\ Snap(j).job = j
           /\ Snap(j).schedule = jobs[j].schedule
BY DEF Snap, Snapshots, Rows

\* next_after gives an instant for every schedule the program is given.
LEMMA NextAfterType ==
    ASSUME now \in 0 .. MaxNow, NEW s \in Schedules
    PROVE  NextAfter(s, now) \in Int
BY CronAssumption, NextAfterIsInstant

\* cron.update of the schedule writes a well-formed row.
LEMMA RowReschedule ==
    ASSUME NEW r \in Rows, NEW s \in Schedules, NEW n \in Int
    PROVE  [r EXCEPT !.schedule = s, !.next_run_at = n] \in Rows
BY DEF Rows

\* The columns record_fire writes leave a well-formed row.
LEMMA RowStamp ==
    ASSUME NEW r \in Rows, NEW n \in Int, NEW c \in Nat, NEW t \in Task, NEW st \in LastStatus
    PROVE  [r EXCEPT !.next_run_at = n, !.run_count = c, !.last_task_id = t,
                     !.last_status = st] \in Rows
BY DEF Rows

\* record_fire writes a well-formed row.
LEMMA FiredRowType ==
    ASSUME TypeOK, NEW f \in Fires
    PROVE  FiredRow(snap[f].job, f) \in Rows
<1> DEFINE j == snap[f].job
<1>1. j \in Jobs /\ snap[f].schedule \in Schedules
  BY DEF TypeOK, Snapshots
<1>2. jobs[j] \in Rows
  BY <1>1 DEF TypeOK
<1>3. NextAfter(snap[f].schedule, now) \in Int
  BY <1>1, NextAfterType DEF TypeOK
<1>4. f \in Task
  BY DEF Fires, Task
<1>5. Stamp(j, f) \in Rows
  <2> DEFINE n == NextAfter(snap[f].schedule, now)
             r == jobs[j]
             c == r.run_count + 1
  <2>1. r \in Rows /\ n \in Int /\ c \in Nat /\ f \in Task /\ "running" \in LastStatus
    BY <1>2, <1>3, <1>4 DEF LastStatus, Rows
  <2>2. Stamp(j, f) = [r EXCEPT !.next_run_at = n, !.run_count = c, !.last_task_id = f,
                                !.last_status = "running"]
    BY DEF Stamp
  <2> HIDE DEF n, r, c
  <2>3. [r EXCEPT !.next_run_at = n, !.run_count = c, !.last_task_id = f,
                  !.last_status = "running"] \in Rows
    BY ONLY <2>1, RowStamp, Zenon
  <2> QED
    BY ONLY <2>2, <2>3
<1> QED
  BY <1>5 DEF FiredRow, Rows

-----------------------------------------------------------------------------
\* The empty tables and the full semaphore are of their types.
LEMMA TypeOKInit == Init => TypeOK
BY CronAssumption, NewRowType, NoSnapType
   DEF Init, TypeOK, TaskStatus, Pc, Rows

\* Every step keeps the types; permits stay natural as a spawn needs one.
LEMMA TypeOKNext == TypeOK /\ [Next]_vars => TypeOK'
<1> SUFFICES ASSUME TypeOK, [Next]_vars PROVE TypeOK'
  OBVIOUS
<1> USE CronAssumption
<1>1. ASSUME NEW j \in Jobs, NEW s \in Schedules, CronCreate(j, s) PROVE TypeOK'
  <2>1. [NewRow EXCEPT !.row = "live", !.schedule = s, !.enabled = TRUE,
                       !.next_run_at = NextAfter(s, now)] \in Rows
    BY NewRowType, NextAfterType DEF Rows, TypeOK
  <2> QED
    BY <1>1, <2>1 DEF TypeOK, CronCreate, fireVars, loopVars, boundVars
<1>2. ASSUME NEW j \in Jobs, NEW s \in Schedules, CronSetSchedule(j, s) PROVE TypeOK'
  <2>1. jobs[j] \in Rows /\ NextAfter(s, now) \in Int
    BY NextAfterType DEF TypeOK
  <2>2. [jobs[j] EXCEPT !.schedule = s, !.next_run_at = NextAfter(s, now)] \in Rows
    BY <2>1, RowReschedule
  <2>3. jobs' \in [Jobs -> Rows]
    BY <1>2, <2>2 DEF CronSetSchedule, TypeOK
  <2> QED
    BY <1>2, <2>3 DEF TypeOK, CronSetSchedule, Edit, fireVars, loopVars
<1>3. ASSUME NEW j \in Jobs, NEW b \in BOOLEAN, CronSetEnabled(j, b) PROVE TypeOK'
  BY <1>3 DEF TypeOK, CronSetEnabled, Edit, Rows, fireVars, loopVars
<1>4. ASSUME NEW j \in Jobs, CronDelete(j) PROVE TypeOK'
  <2>1. [NewRow EXCEPT !.row = "deleted"] \in Rows
    BY NewRowType DEF Rows
  <2> QED
    BY <1>4, <2>1 DEF TypeOK, CronDelete, Edit, fireVars, loopVars
<1>5. ASSUME NEW f \in Fires, NEW j \in Jobs, CronTrigger(f, j) PROVE TypeOK'
  BY <1>5, SnapType DEF TypeOK, CronTrigger, StartFire, Pc, InFireJob, loopVars, boundVars
<1>6. CASE TickQuery
  <2>1. due' \in SUBSET [row : Snapshots, at : Int]
    BY <1>6, SnapType DEF TypeOK, TickQuery, Rows
  <2> QED
    BY <1>6, <2>1 DEF TypeOK, TickQuery, fireVars, boundVars
<1>7. ASSUME NEW f \in Fires, NEW d \in due, TickSpawn(f, d) PROVE TypeOK'
  BY <1>7 DEF TypeOK, TickSpawn, StartFire, Pc, InFireJob, boundVars
<1>8. ASSUME NEW d \in due, TickDefer(d) PROVE TypeOK'
  BY <1>8 DEF TypeOK, TickDefer, fireVars, boundVars
<1>9. ASSUME NEW f \in Fires, CheckPasses(f) \/ CheckLookupFails(f) PROVE TypeOK'
  BY <1>9 DEF TypeOK, CheckPasses, CheckLookupFails, Goto, Fault, Failure, Pc, InFireJob,
              loopVars, boundVars
<1>10. ASSUME NEW f \in Fires, CheckSkips(f) \/ CreateTaskFails(f) PROVE TypeOK'
  <2>1. GiveUp(f) /\ UNCHANGED << now, jobs, task, stamped, due, edits, crashes >>
    BY <1>10 DEF CheckSkips, CreateTaskFails, boundVars
  <2>2. pc' \in [Fires -> Pc] /\ snap' \in [Fires -> Snapshots] /\ holds' \in [Fires -> BOOLEAN]
    BY <2>1, NoSnapType DEF TypeOK, GiveUp, ReturnFromFireJob, Goto, Pc
  <2>3. permits' \in Nat
    BY <2>1 DEF TypeOK, GiveUp, ReturnFromFireJob
  <2>4. faults' \in Nat /\ faults' + crashes' <= MaxFailures
    BY <1>10 DEF TypeOK, CheckSkips, CreateTaskFails, Fault, Failure, boundVars
  <2> QED
    BY <2>1, <2>2, <2>3, <2>4 DEF TypeOK
<1>11. ASSUME NEW f \in Fires, CreateTask(f) PROVE TypeOK'
  BY <1>11 DEF TypeOK, CreateTask, Goto, Pc, InFireJob, TaskStatus, loopVars, boundVars
<1>12. ASSUME NEW f \in Fires, RecordFire(f) PROVE TypeOK'
  <2>1. jobs' \in [Jobs -> Rows]
    BY <1>12, FiredRowType DEF TypeOK, RecordFire
  <2> QED
    BY <1>12, <2>1 DEF TypeOK, RecordFire, ReturnFromFireJob, Goto, Pc, InDispatch, Live, boundVars
<1>13. ASSUME NEW f \in Fires, RecordFireFails(f) PROVE TypeOK'
  BY <1>13 DEF TypeOK, RecordFireFails, ReturnFromFireJob, Goto, Fault, Failure, Pc, InDispatch
<1>14. ASSUME NEW f \in Fires, DispatchEnds(f) PROVE TypeOK'
  BY <1>14 DEF TypeOK, DispatchEnds, Goto, Pc, InDispatch, TaskStatus, loopVars, boundVars
<1>15. ASSUME NEW f \in Fires, CloseFails(f) \/ RecordStatusFails(f) PROVE TypeOK'
  BY <1>15 DEF TypeOK, CloseFails, RecordStatusFails, Goto, Fault, Failure, Pc, InDispatch, Ended,
               loopVars
<1>16. ASSUME NEW f \in Fires, RecordStatus(f) PROVE TypeOK'
  <2>1. jobs' \in [Jobs -> Rows]
    <3>1. snap[f].job \in Jobs /\ "ok" \in LastStatus /\ "failed" \in LastStatus
      BY DEF TypeOK, Snapshots, LastStatus
    <3>2. ASSUME NEW st \in LastStatus
          PROVE  [jobs EXCEPT ![snap[f].job].last_status = st] \in [Jobs -> Rows]
      BY <3>1 DEF TypeOK, Rows
    <3> QED
      BY <1>16, <3>1, <3>2 DEF TypeOK, RecordStatus
  <2> QED
    BY <1>16, <2>1 DEF TypeOK, RecordStatus, Goto, Pc, Ended, loopVars, boundVars
<1>17. ASSUME NEW f \in Fires, TaskUpdate(f) PROVE TypeOK'
  BY <1>17 DEF TypeOK, TaskUpdate, TaskStatus, fireVars, loopVars, boundVars
<1>18. CASE AdvanceClock
  BY <1>18 DEF TypeOK, AdvanceClock, fireVars, loopVars, boundVars
<1>19. CASE Crash
  <2>1. pc' \in [Fires -> Pc]
    BY <1>19 DEF TypeOK, Crash, Pc, InDispatch, Ended
  <2>2. snap' \in [Fires -> Snapshots]
    BY <1>19, NoSnapType DEF TypeOK, Crash
  <2> QED
    BY <1>19, <2>1, <2>2 DEF TypeOK, Crash, Failure
<1>20. CASE UNCHANGED vars
  BY <1>20 DEF TypeOK, vars, fireVars, loopVars, boundVars
<1> QED
  BY <1>1, <1>2, <1>3, <1>4, <1>5, <1>6, <1>7, <1>8, <1>9, <1>10, <1>11, <1>12, <1>13, <1>14,
     <1>15, <1>16, <1>17, <1>18, <1>19, <1>20
     DEF Next, Operator, TickTake, FireStep

(* Type correctness: whatever operators, ticks, fires, failing stores and  *)
(* crashes do, every row, fire and permit count stays in its domain; in    *)
(* particular the semaphore never goes below zero.                         *)
THEOREM TypeCorrect == Spec => []TypeOK
<1>1. TypeOK /\ [Next]_vars => TypeOK'
  BY TypeOKNext
<1> QED
  BY <1>1, TypeOKInit, PTL DEF Spec

-----------------------------------------------------------------------------
(* The semaphore.                                                          *)

Holders == {f \in Fires : holds[f]}

\* The fires that hold a permit can be counted.
LEMMA HoldersFinite == IsFiniteSet(Holders) /\ Cardinality(Holders) \in Nat
<1>1. IsFiniteSet(Fires)
  BY CronAssumption, FS_Interval DEF Fires
<1>2. Holders \in SUBSET Fires
  BY DEF Holders
<1> QED
  BY <1>1, <1>2, FS_Subset, FS_CardinalityType

\* A tick that spawns moves one permit to the new fire.
LEMMA StartFirePermits ==
    ASSUME TypeOK, PermitsConserved, NEW f \in Fires, NEW r, NEW w \in BOOLEAN, StartFire(f, r, w)
    PROVE  /\ Cardinality(Holders') = Cardinality(Holders) + (IF w THEN 1 ELSE 0)
           /\ \A g \in Fires : holds'[g] => pc'[g] \in InFireJob
<1>1. f \notin Holders
  BY DEF StartFire, PermitsConserved, Holders, InFireJob
<1>2. Holders' = IF w THEN Holders \cup {f} ELSE Holders
  BY <1>1 DEF StartFire, Holders, TypeOK
<1>3. \A g \in Fires : holds'[g] => pc'[g] \in InFireJob
  BY DEF StartFire, PermitsConserved, TypeOK, InFireJob
<1>4. Cardinality(Holders \cup {f}) = Cardinality(Holders) + 1
  BY <1>1, HoldersFinite, FS_AddElement
<1>5. CASE w
  BY <1>2, <1>3, <1>4, <1>5
<1>6. CASE ~w
  BY <1>2, <1>3, <1>6, HoldersFinite
<1> QED
  BY <1>5, <1>6

\* A return from fire_job moves the permit of the fire back.
LEMMA ReturnPermits ==
    ASSUME TypeOK, PermitsConserved, NEW f \in Fires, ReturnFromFireJob(f), NEW l, Goto(f, l)
    PROVE  PermitsConserved'
<1>1. Holders' = Holders \ {f}
  BY DEF ReturnFromFireJob, Holders, TypeOK
<1>2. Cardinality(Holders') = IF f \in Holders THEN Cardinality(Holders) - 1 ELSE Cardinality(Holders)
  BY <1>1, HoldersFinite, FS_RemoveElement
<1>3. permits + Cardinality(Holders) = MaxConcurrent
  BY DEF PermitsConserved, Holders
<1>4. permits' = IF f \in Holders THEN permits + 1 ELSE permits
  BY DEF ReturnFromFireJob, Holders
<1>5. permits' + Cardinality(Holders') = MaxConcurrent
  BY <1>2, <1>3, <1>4, HoldersFinite, CronAssumption DEF TypeOK
<1>6. \A g \in Fires : holds'[g] => pc'[g] \in InFireJob
  BY DEF ReturnFromFireJob, Goto, PermitsConserved, TypeOK
<1> QED
  BY <1>5, <1>6 DEF PermitsConserved, Holders

\* At the start all permits are free.
LEMMA PermitsInit == Init => PermitsConserved
<1> SUFFICES ASSUME Init PROVE PermitsConserved
  OBVIOUS
<1>1. Holders = {}
  BY DEF Init, Holders
<1> QED
  BY <1>1, FS_EmptySet, CronAssumption DEF Init, PermitsConserved, Holders

\* No step, early return or crash loses or duplicates a permit.
LEMMA PermitsNext == TypeOK /\ PermitsConserved /\ [Next]_vars => PermitsConserved'
<1> SUFFICES ASSUME TypeOK, PermitsConserved, [Next]_vars PROVE PermitsConserved'
  OBVIOUS
<1>0. permits + Cardinality(Holders) = MaxConcurrent
  BY DEF PermitsConserved, Holders
<1>1. ASSUME NEW f \in Fires, NEW j \in Jobs, CronTrigger(f, j) PROVE PermitsConserved'
  <2>1. StartFire(f, Snap(j), FALSE) /\ permits' = permits
    BY <1>1 DEF CronTrigger, loopVars
  <2>2. Cardinality(Holders') = Cardinality(Holders) + 0
        /\ \A g \in Fires : holds'[g] => pc'[g] \in InFireJob
    BY <2>1, StartFirePermits
  <2> QED
    BY <1>0, <2>1, <2>2, HoldersFinite DEF PermitsConserved, Holders
<1>2. ASSUME NEW f \in Fires, NEW d \in due, TickSpawn(f, d) PROVE PermitsConserved'
  <2>1. StartFire(f, d.row, TRUE) /\ permits' = permits - 1
    BY <1>2 DEF TickSpawn
  <2>2. Cardinality(Holders') = Cardinality(Holders) + 1
        /\ \A g \in Fires : holds'[g] => pc'[g] \in InFireJob
    BY <2>1, StartFirePermits
  <2>3. permits' + Cardinality(Holders') = MaxConcurrent
    BY <1>0, <2>1, <2>2, HoldersFinite, CronAssumption DEF TypeOK
  <2> QED
    BY <2>2, <2>3 DEF PermitsConserved, Holders
<1>3. ASSUME NEW f \in Fires,
             CheckSkips(f) \/ CreateTaskFails(f) \/ RecordFire(f) \/ RecordFireFails(f)
      PROVE  PermitsConserved'
  BY <1>3, ReturnPermits DEF CheckSkips, CreateTaskFails, RecordFire, RecordFireFails, GiveUp
<1>4. CASE Crash
  <2>1. Holders' = {}
    BY <1>4 DEF Crash, Holders
  <2>2. \A g \in Fires : ~holds'[g]
    BY <1>4 DEF Crash
  <2>3. MaxConcurrent \in Nat
    BY CronAssumption
  <2> QED
    BY <1>4, <2>1, <2>2, <2>3, FS_EmptySet DEF Crash, PermitsConserved, Holders
<1>5. ASSUME NEW f \in Fires, CheckPasses(f) \/ CheckLookupFails(f) \/ CreateTask(f)
      PROVE  PermitsConserved'
  <2>1. UNCHANGED << holds, permits >> /\ \E l \in InFireJob : Goto(f, l)
    BY <1>5 DEF CheckPasses, CheckLookupFails, CreateTask, loopVars, InFireJob
  <2> QED
    BY <2>1 DEF Goto, PermitsConserved, TypeOK
<1>6. ASSUME NEW f \in Fires,
             DispatchEnds(f) \/ CloseFails(f) \/ RecordStatus(f) \/ RecordStatusFails(f)
      PROVE  PermitsConserved'
  <2>1. UNCHANGED << holds, permits >> /\ pc[f] \notin InFireJob /\ \E l : Goto(f, l)
    BY <1>6 DEF DispatchEnds, CloseFails, RecordStatus, RecordStatusFails, loopVars, InFireJob
  <2> QED
    BY <2>1 DEF Goto, PermitsConserved, TypeOK
<1>7. CASE UNCHANGED << holds, permits, pc >>
  BY <1>7 DEF PermitsConserved
<1> QED
  BY <1>1, <1>2, <1>3, <1>4, <1>5, <1>6, <1>7
     DEF Next, Operator, TickTake, FireStep, CronCreate, CronSetSchedule, CronSetEnabled, CronDelete,
         TickQuery, TickDefer, TaskUpdate, AdvanceClock, vars, fireVars, loopVars

(* The semaphore is conserved for every number of permits, jobs and fires: *)
(* no path out of fire_job, no failing store call and no crash loses or    *)
(* duplicates a permit.                                                    *)
THEOREM PermitsAreConserved == Spec => []PermitsConserved
<1>1. TypeOK /\ PermitsConserved /\ [Next]_vars => (TypeOK /\ PermitsConserved)'
  BY TypeOKNext, PermitsNext
<1>2. Init => TypeOK /\ PermitsConserved
  BY TypeOKInit, PermitsInit
<1> QED
  BY <1>1, <1>2, PTL DEF Spec

-----------------------------------------------------------------------------
(* What the row of a job says about its fires.                             *)

Created == {"stamp"} \cup InDispatch \cup Ended

\* What lies behind a fire: its task exists, and once its row is stamped the
\* snapshot it was started from is kept and names a job that was created.
FireProgress ==
    \A f \in Fires :
        /\ pc[f] \in Created => task[f] # "none"
        /\ stamped[f] => pc[f] \in InDispatch \cup Ended
        /\ stamped[f] => jobs[snap[f].job].row # "unborn"

\* The columns of a row after record_fire.
LEMMA FiredRowFields ==
    ASSUME TypeOK, NEW f \in Fires
    PROVE  LET j == snap[f].job
           IN /\ j \in Jobs
              /\ FiredRow(j, f).row = jobs[j].row
              /\ FiredRow(j, f).schedule = jobs[j].schedule
              /\ FiredRow(j, f).run_count = jobs[j].run_count + 1
              /\ FiredRow(j, f).last_task_id = f
              /\ FiredRow(j, f).last_status = "running"
              /\ FiredRow(j, f).enabled <=> (jobs[j].enabled /\ snap[f].schedule.kind # "oneshot")
<1>1. snap[f].job \in Jobs /\ jobs[snap[f].job] \in Rows
  BY DEF TypeOK, Snapshots
<1> QED
  BY <1>1 DEF FiredRow, Stamp, Rows

\* Rows change only under these actions, and only as told here.
LEMMA RowFrame ==
    ASSUME TypeOK, [Next]_vars, NEW j \in Jobs
    PROVE  \/ jobs'[j] = jobs[j]
           \/ jobs[j].row = "unborn" /\ \E s \in Schedules : CronCreate(j, s)
           \/ Live(j) /\ \E s \in Schedules : CronSetSchedule(j, s)
           \/ Live(j) /\ \E b \in BOOLEAN : CronSetEnabled(j, b)
           \/ Live(j) /\ CronDelete(j)
           \/ Live(j) /\ \E f \in Fires : snap[f].job = j /\ RecordFire(f)
           \/ Live(j) /\ \E f \in Fires : snap[f].job = j /\ RecordStatus(f)
<1>1. ASSUME NEW i \in Jobs, NEW s \in Schedules, CronCreate(i, s), i # j PROVE jobs'[j] = jobs[j]
  BY <1>1 DEF CronCreate, TypeOK
<1>2. ASSUME NEW i \in Jobs, NEW s \in Schedules, CronSetSchedule(i, s), i # j
      PROVE  jobs'[j] = jobs[j]
  BY <1>2 DEF CronSetSchedule, TypeOK
<1>3. ASSUME NEW i \in Jobs, NEW b \in BOOLEAN, CronSetEnabled(i, b), i # j
      PROVE  jobs'[j] = jobs[j]
  BY <1>3 DEF CronSetEnabled, TypeOK
<1>4. ASSUME NEW i \in Jobs, CronDelete(i), i # j PROVE jobs'[j] = jobs[j]
  BY <1>4 DEF CronDelete, TypeOK
<1>5. ASSUME NEW f \in Fires, RecordFire(f), ~(Live(j) /\ snap[f].job = j)
      PROVE  jobs'[j] = jobs[j]
  BY <1>5 DEF RecordFire, TypeOK
<1>6. ASSUME NEW f \in Fires, RecordStatus(f), ~(Live(j) /\ snap[f].job = j)
      PROVE  jobs'[j] = jobs[j]
  BY <1>6 DEF RecordStatus, TypeOK
<1>7. ASSUME NEW s \in Schedules, CronCreate(j, s) PROVE jobs[j].row = "unborn"
  BY <1>7 DEF CronCreate
<1>8. ASSUME (\E s \in Schedules : CronSetSchedule(j, s)) \/ (\E b \in BOOLEAN : CronSetEnabled(j, b))
             \/ CronDelete(j)
      PROVE  Live(j)
  BY <1>8 DEF CronSetSchedule, CronSetEnabled, CronDelete
<1>9. CASE UNCHANGED jobs
  BY <1>9
<1> QED
  BY <1>1, <1>2, <1>3, <1>4, <1>5, <1>6, <1>7, <1>8, <1>9
     DEF Next, Operator, TickTake, FireStep, CronTrigger, TickQuery, TickSpawn, TickDefer,
         CheckPasses, CheckLookupFails, CheckSkips, CreateTask, CreateTaskFails, RecordFireFails,
         DispatchEnds, CloseFails, RecordStatusFails, TaskUpdate, AdvanceClock, Crash, vars

\* A row is never unborn again, and no action but RecordFire touches what a
\* stamped fire remembers.
LEMMA UnbornOnce ==
    ASSUME TypeOK, [Next]_vars, NEW j \in Jobs, jobs[j].row # "unborn"
    PROVE  jobs'[j].row # "unborn"
<1>1. ASSUME NEW s \in Schedules, CronSetSchedule(j, s) PROVE jobs'[j].row = jobs[j].row
  BY <1>1 DEF CronSetSchedule, TypeOK, Rows
<1>2. ASSUME NEW b \in BOOLEAN, CronSetEnabled(j, b) PROVE jobs'[j].row = jobs[j].row
  BY <1>2 DEF CronSetEnabled, TypeOK, Rows
<1>3. ASSUME CronDelete(j) PROVE jobs'[j].row = "deleted"
  BY <1>3, NewRowType DEF CronDelete, TypeOK, Rows
<1>4. ASSUME NEW f \in Fires, snap[f].job = j, Live(j), RecordFire(f) PROVE jobs'[j].row = jobs[j].row
  BY <1>4, FiredRowFields DEF RecordFire, TypeOK
<1>5. ASSUME NEW f \in Fires, snap[f].job = j, RecordStatus(f) PROVE jobs'[j].row = jobs[j].row
  BY <1>5 DEF RecordStatus, TypeOK, Rows
<1> QED
  BY <1>1, <1>2, <1>3, <1>4, <1>5, RowFrame

Dispatched == InDispatch \cup Ended

\* What a step does to a fire.
FireFrame(f) ==
    /\ task[f] # "none" => task'[f] # "none"
    /\ pc'[f] \in Created => pc[f] \in Created \/ task'[f] # "none"
    /\ pc[f] \in Dispatched => pc'[f] \in Dispatched /\ snap'[f] = snap[f]
    /\ stamped'[f] = stamped[f] \/ RecordFire(f)
    /\ RecordFire(f) => pc'[f] = "ai" /\ snap'[f] = snap[f] /\ (stamped'[f] <=> Live(snap[f].job))

\* The start of a fire changes no other fire.
LEMMA StartFireFrame ==
    ASSUME TypeOK, NEW f \in Fires, NEW g \in Fires, NEW r, NEW w, StartFire(f, r, w),
           UNCHANGED task, ~RecordFire(g)
    PROVE  FireFrame(g)
BY DEF FireFrame, StartFire, TypeOK, Created, Dispatched, InDispatch, Ended

\* A step moves a fire only along the pipeline of fire_job.
LEMMA FireFrameNext ==
    ASSUME TypeOK, [Next]_vars, NEW g \in Fires
    PROVE  FireFrame(g)
<1> USE DEF Created, Dispatched, InDispatch, Ended
<1>1. CASE RecordFire(g)
  BY <1>1 DEF FireFrame, RecordFire, Goto, TypeOK, Live
<1>2. ASSUME ~RecordFire(g), NEW f \in Fires, RecordFire(f) PROVE FireFrame(g)
  BY <1>2 DEF FireFrame, RecordFire, Goto, TypeOK
<1>3. ASSUME ~RecordFire(g), NEW f \in Fires, RecordFireFails(f) PROVE FireFrame(g)
  BY <1>3 DEF FireFrame, RecordFireFails, Goto, TypeOK
<1>4. ASSUME ~RecordFire(g), NEW f \in Fires, NEW j \in Jobs, CronTrigger(f, j) PROVE FireFrame(g)
  BY <1>4, StartFireFrame DEF CronTrigger
<1>5. ASSUME ~RecordFire(g), NEW f \in Fires, NEW d \in due, TickSpawn(f, d) PROVE FireFrame(g)
  BY <1>5, StartFireFrame DEF TickSpawn
<1>6. ASSUME ~RecordFire(g), NEW f \in Fires, CheckPasses(f) \/ CheckLookupFails(f)
      PROVE  FireFrame(g)
  BY <1>6 DEF FireFrame, CheckPasses, CheckLookupFails, Goto, TypeOK
<1>7. ASSUME ~RecordFire(g), NEW f \in Fires, CheckSkips(f) \/ CreateTaskFails(f)
      PROVE  FireFrame(g)
  BY <1>7 DEF FireFrame, CheckSkips, CreateTaskFails, GiveUp, Goto, TypeOK
<1>8. ASSUME ~RecordFire(g), NEW f \in Fires, CreateTask(f) PROVE FireFrame(g)
  BY <1>8 DEF FireFrame, CreateTask, Goto, TypeOK
<1>9. ASSUME ~RecordFire(g), NEW f \in Fires, DispatchEnds(f) PROVE FireFrame(g)
  BY <1>9 DEF FireFrame, DispatchEnds, Goto, TypeOK
<1>10. ASSUME ~RecordFire(g), NEW f \in Fires, CloseFails(f) PROVE FireFrame(g)
  BY <1>10 DEF FireFrame, CloseFails, Goto, TypeOK
<1>11. ASSUME ~RecordFire(g), NEW f \in Fires, RecordStatus(f) \/ RecordStatusFails(f)
       PROVE  FireFrame(g)
  BY <1>11 DEF FireFrame, RecordStatus, RecordStatusFails, Goto, TypeOK
<1>12. ASSUME ~RecordFire(g), NEW f \in Fires, TaskUpdate(f) PROVE FireFrame(g)
  BY <1>12 DEF FireFrame, TaskUpdate, fireVars, TypeOK
<1>13. CASE ~RecordFire(g) /\ Crash
  BY <1>13 DEF FireFrame, Crash, TypeOK
<1>14. CASE ~RecordFire(g) /\ UNCHANGED << task, fireVars >>
  BY <1>14 DEF FireFrame, fireVars, TypeOK
<1> QED
  BY <1>1, <1>2, <1>3, <1>4, <1>5, <1>6, <1>7, <1>8, <1>9, <1>10, <1>11, <1>12, <1>13, <1>14
     DEF Next, Operator, TickTake, FireStep, CronCreate, CronSetSchedule, CronSetEnabled, CronDelete,
         TickQuery, TickDefer, AdvanceClock, vars

\* No fire has made progress at the start.
LEMMA FireProgressInit == Init => FireProgress
BY DEF Init, FireProgress, Created, InDispatch, Ended

\* How far a fire is tells whether its task exists and its row is stamped.
LEMMA FireProgressNext == TypeOK /\ FireProgress /\ [Next]_vars => FireProgress'
<1> SUFFICES ASSUME TypeOK, FireProgress, [Next]_vars, NEW f \in Fires
    PROVE  /\ pc'[f] \in Created => task'[f] # "none"
           /\ stamped'[f] => pc'[f] \in InDispatch \cup Ended
           /\ stamped'[f] => jobs'[snap'[f].job].row # "unborn"
  BY DEF FireProgress
<1>1. FireFrame(f) /\ snap[f].job \in Jobs
  BY FireFrameNext DEF TypeOK, Snapshots
<1>2. pc'[f] \in Created => task'[f] # "none"
  BY <1>1 DEF FireFrame, FireProgress
<1>3. stamped'[f] => pc'[f] \in InDispatch \cup Ended
  BY <1>1 DEF FireFrame, FireProgress, Dispatched, InDispatch
<1>4. ASSUME stamped'[f] PROVE snap'[f] = snap[f] /\ jobs[snap[f].job].row # "unborn"
  BY <1>1, <1>4 DEF FireFrame, FireProgress, Dispatched, Live
<1>5. stamped'[f] => jobs'[snap'[f].job].row # "unborn"
  BY <1>1, <1>4, UnbornOnce
<1> QED
  BY <1>2, <1>3, <1>5

\* What each action that writes the row of j leaves in the columns other than
\* next_run_at.
LEMMA RowWrites ==
    ASSUME TypeOK, NEW j \in Jobs
    PROVE  /\ \A s \in Schedules : CronCreate(j, s) =>
                 /\ jobs'[j].row = "live" /\ jobs'[j].run_count = 0
                 /\ jobs'[j].last_task_id = NoTask /\ jobs'[j].last_status = "null"
           /\ \A s \in Schedules : CronSetSchedule(j, s) =>
                 /\ jobs'[j].row = jobs[j].row /\ jobs'[j].run_count = jobs[j].run_count
                 /\ jobs'[j].last_task_id = jobs[j].last_task_id
                 /\ jobs'[j].last_status = jobs[j].last_status
                 /\ jobs'[j].enabled = jobs[j].enabled
           /\ \A b \in BOOLEAN : CronSetEnabled(j, b) =>
                 /\ jobs'[j].row = jobs[j].row /\ jobs'[j].run_count = jobs[j].run_count
                 /\ jobs'[j].last_task_id = jobs[j].last_task_id
                 /\ jobs'[j].last_status = jobs[j].last_status
                 /\ jobs'[j].enabled = b
           /\ CronDelete(j) => jobs'[j].row = "deleted" /\ ~jobs'[j].enabled
           /\ \A f \in Fires : RecordFire(f) /\ snap[f].job = j /\ Live(j) =>
                 /\ jobs'[j].row = jobs[j].row /\ jobs'[j].schedule = jobs[j].schedule
                 /\ jobs'[j].run_count = jobs[j].run_count + 1
                 /\ jobs'[j].last_task_id = f /\ jobs'[j].last_status = "running"
                 /\ jobs'[j].enabled <=> (jobs[j].enabled /\ snap[f].schedule.kind # "oneshot")
           /\ \A f \in Fires : RecordStatus(f) /\ snap[f].job = j /\ Live(j) =>
                 /\ jobs'[j].row = jobs[j].row /\ jobs'[j].schedule = jobs[j].schedule
                 /\ jobs'[j].run_count = jobs[j].run_count
                 /\ jobs'[j].last_task_id = jobs[j].last_task_id
                 /\ jobs'[j].enabled = jobs[j].enabled
                 /\ jobs'[j].last_status # "running"
<1>0. jobs[j] \in Rows
  BY DEF TypeOK
<1>1. ASSUME NEW s \in Schedules, CronCreate(j, s)
      PROVE  /\ jobs'[j].row = "live" /\ jobs'[j].run_count = 0
             /\ jobs'[j].last_task_id = NoTask /\ jobs'[j].last_status = "null"
  BY <1>1, NewRowType DEF CronCreate, TypeOK, Rows
<1>2. ASSUME NEW s \in Schedules, CronSetSchedule(j, s)
      PROVE  /\ jobs'[j].row = jobs[j].row /\ jobs'[j].run_count = jobs[j].run_count
             /\ jobs'[j].last_task_id = jobs[j].last_task_id
             /\ jobs'[j].last_status = jobs[j].last_status
             /\ jobs'[j].enabled = jobs[j].enabled
  BY <1>0, <1>2 DEF CronSetSchedule, TypeOK, Rows
<1>3. ASSUME NEW b \in BOOLEAN, CronSetEnabled(j, b)
      PROVE  /\ jobs'[j].row = jobs[j].row /\ jobs'[j].run_count = jobs[j].run_count
             /\ jobs'[j].last_task_id = jobs[j].last_task_id
             /\ jobs'[j].last_status = jobs[j].last_status
             /\ jobs'[j].enabled = b
  BY <1>0, <1>3 DEF CronSetEnabled, TypeOK, Rows
<1>4. ASSUME CronDelete(j) PROVE jobs'[j].row = "deleted" /\ ~jobs'[j].enabled
  BY <1>4, NewRowType DEF CronDelete, TypeOK, Rows
<1>5. ASSUME NEW f \in Fires, RecordFire(f), snap[f].job = j, Live(j)
      PROVE  /\ jobs'[j].row = jobs[j].row /\ jobs'[j].schedule = jobs[j].schedule
             /\ jobs'[j].run_count = jobs[j].run_count + 1
             /\ jobs'[j].last_task_id = f /\ jobs'[j].last_status = "running"
             /\ jobs'[j].enabled <=> (jobs[j].enabled /\ snap[f].schedule.kind # "oneshot")
  <2>1. jobs'[j] = FiredRow(j, f)
    BY <1>5 DEF RecordFire, TypeOK
  <2> QED
    BY <1>5, <2>1, FiredRowFields
<1>6. ASSUME NEW f \in Fires, RecordStatus(f), snap[f].job = j, Live(j)
      PROVE  /\ jobs'[j].row = jobs[j].row /\ jobs'[j].schedule = jobs[j].schedule
             /\ jobs'[j].run_count = jobs[j].run_count
             /\ jobs'[j].last_task_id = jobs[j].last_task_id
             /\ jobs'[j].enabled = jobs[j].enabled
             /\ jobs'[j].last_status # "running"
  BY <1>0, <1>6 DEF RecordStatus, TypeOK, Rows
<1> QED
  BY <1>1, <1>2, <1>3, <1>4, <1>5, <1>6

(* A fire in flight never undoes an operator's disable, for every set of   *)
(* jobs and any number of fires: record_fire and record_status never raise *)
(* the column enabled.                                                     *)
THEOREM OperatorsEnable == Spec => OnlyOperatorsEnable
<1>1. ASSUME TypeOK, [Next]_vars, NEW j \in Jobs, ~jobs[j].enabled, jobs'[j].enabled
      PROVE  CronSetEnabled(j, TRUE) \/ \E s \in Schedules : CronCreate(j, s)
  <2>1. ASSUME NEW b \in BOOLEAN, CronSetEnabled(j, b) PROVE CronSetEnabled(j, TRUE)
    <3>1. b = TRUE
      BY <1>1, <2>1, RowWrites
    <3> QED
      BY <2>1, <3>1
  <2> QED
    BY <1>1, <2>1, RowFrame, RowWrites
<1>2. TypeOK /\ [Next]_vars =>
        [\A j \in Jobs : ~jobs[j].enabled /\ jobs'[j].enabled =>
            CronSetEnabled(j, TRUE) \/ \E s \in Schedules : CronCreate(j, s)]_vars
  BY <1>1
<1> QED
  BY <1>2, TypeOKInit, TypeOKNext, PTL DEF Spec, OnlyOperatorsEnable

\* What record_fire writes is not due at the clock reading it was written at.
LEMMA StampNotDue ==
    ASSUME TypeOK, NEW f \in Fires, RecordFire(f), stamped'[f],
           snap[f].schedule.kind = "duration" => snap[f].schedule.secs <= MaxI64
    PROVE  ~Due(snap[f].job)'
<1> DEFINE j == snap[f].job
           s == snap[f].schedule
<1>1. j \in Jobs /\ jobs[j] \in Rows /\ s \in ParsedSchedule /\ s \in Schedules
  BY CronAssumption DEF TypeOK, Snapshots
<1>2. now \in Nat /\ now < MaxI64
  BY CronAssumption, MaxI64Assumption DEF TypeOK
<1>3. snap' = snap /\ now' = now /\ jobs'[j] = FiredRow(j, f)
  BY <1>1 DEF RecordFire, TypeOK
<1>4. /\ FiredRow(j, f).next_run_at = NextAfter(s, now)
      /\ FiredRow(j, f).enabled => s.kind # "oneshot"
  BY <1>1 DEF FiredRow, Stamp, Rows
<1>5. CASE s.kind = "oneshot"
  BY <1>3, <1>4, <1>5 DEF Due
<1>6. CASE s.kind # "oneshot"
  <2>1. IsRecurring(s)
    BY <1>1, <1>6, Kinds DEF IsDuration, IsCron, IsOneShot, IsRecurring
  <2>2. NextAfter(s, now) > now /\ NextAfter(s, now) \in Int
    BY <1>1, <1>2, <2>1, NextAfterIsLater, NextAfterIsInstant
  <2>3. ~ (NextAfter(s, now) <= now)
    BY <1>2, <2>2
  <2> QED
    BY <1>3, <1>4, <2>3 DEF Due
<1> QED
  BY <1>5, <1>6

(* Once record_fire has stamped its row the job is not due, for every      *)
(* schedule that parse returns and every interleaving with operators:      *)
(* the schedule's arithmetic carried over to the job table.                *)
THEOREM FiresConsumeDue == Spec => FireConsumesDue
<1>1. ASSUME TypeOK, [Next]_vars, NEW f \in Fires, ~stamped[f], stamped'[f],
             snap[f].schedule.kind = "duration" => snap[f].schedule.secs <= MaxI64
      PROVE  ~Due(snap[f].job)'
  <2>1. RecordFire(f)
    BY <1>1, FireFrameNext DEF FireFrame
  <2> QED
    BY <1>1, <2>1, StampNotDue
<1>2. TypeOK /\ [Next]_vars =>
        [\A f \in Fires :
            /\ ~stamped[f] /\ stamped'[f]
            /\ snap[f].schedule.kind = "duration" => snap[f].schedule.secs <= MaxI64
            => ~Due(snap[f].job)']_vars
  BY <1>1
<1> QED
  BY <1>2, TypeOKInit, TypeOKNext, PTL DEF Spec, FireConsumesDue

\* No job has a last task at the start.
LEMMA LastTaskInit == Init => LastTaskIsOwn
BY NewRowType DEF Init, LastTaskIsOwn, Live

\* A row names only tasks of its own stamped fires after every step.
LEMMA LastTaskNext == TypeOK /\ FireProgress /\ LastTaskIsOwn /\ [Next]_vars => LastTaskIsOwn'
<1> SUFFICES ASSUME TypeOK, FireProgress, LastTaskIsOwn, [Next]_vars, NEW j \in Jobs,
                    jobs'[j].row = "live", jobs'[j].last_task_id # NoTask
    PROVE  LET f == jobs'[j].last_task_id
           IN f \in Fires /\ task'[f] # "none" /\ stamped'[f] /\ snap'[f].job = j
  BY DEF LastTaskIsOwn, Live
<1>1. ASSUME Live(j), jobs'[j].last_task_id = jobs[j].last_task_id
      PROVE  LET f == jobs'[j].last_task_id
             IN f \in Fires /\ task'[f] # "none" /\ stamped'[f] /\ snap'[f].job = j
  <2> DEFINE f == jobs[j].last_task_id
  <2>1. f \in Fires /\ task[f] # "none" /\ stamped[f] /\ snap[f].job = j
    BY <1>1 DEF LastTaskIsOwn
  <2>2. FireFrame(f) /\ pc[f] \in Dispatched
    BY <2>1, FireFrameNext DEF FireProgress, Dispatched
  <2>3. ~RecordFire(f)
    BY <2>2 DEF RecordFire, Dispatched, InDispatch, Ended
  <2> QED
    BY <1>1, <2>1, <2>2, <2>3 DEF FireFrame
<1>2. ASSUME NEW f \in Fires, snap[f].job = j, Live(j), RecordFire(f)
      PROVE  LET g == jobs'[j].last_task_id
             IN g \in Fires /\ task'[g] # "none" /\ stamped'[g] /\ snap'[g].job = j
  <2>1. jobs'[j].last_task_id = f
    BY <1>2, RowWrites
  <2>2. FireFrame(f) /\ task[f] # "none"
    BY <1>2, FireFrameNext DEF FireProgress, RecordFire, Created
  <2> QED
    BY <1>2, <2>1, <2>2 DEF FireFrame
<1>3. CASE jobs'[j] = jobs[j]
  BY <1>1, <1>3 DEF Live
<1> QED
  BY <1>1, <1>2, <1>3, RowFrame, RowWrites

(* last_task_id names a task that exists and that this very job created,   *)
(* for every number of jobs and fires, whatever order their stamps land in *)
(* and whatever deletes, failing stores and crashes come between.          *)
THEOREM LastTaskIsAlwaysOwn == Spec => []LastTaskIsOwn
<1>1. Init => TypeOK /\ FireProgress /\ LastTaskIsOwn
  BY TypeOKInit, FireProgressInit, LastTaskInit
<1>2. TypeOK /\ FireProgress /\ LastTaskIsOwn /\ [Next]_vars
        => (TypeOK /\ FireProgress /\ LastTaskIsOwn)'
  BY TypeOKNext, FireProgressNext, LastTaskNext
<1> QED
  BY <1>1, <1>2, PTL DEF Spec

-----------------------------------------------------------------------------
(* last_status.                                                            *)

UnderWay == InDispatch \cup {"lost"}

\* A dispatch under way stays so until it reports or its report fails.
LEMMA UnderWayFrame ==
    ASSUME TypeOK, [Next]_vars, NEW g \in Fires, pc[g] \in UnderWay, faults' = 0
    PROVE  faults = 0 /\ (pc'[g] \in UnderWay \/ RecordStatus(g))
<1> USE DEF UnderWay, InDispatch
<1>1. ASSUME NEW f \in Fires, NEW j \in Jobs, CronTrigger(f, j)
      PROVE  faults = 0 /\ pc'[g] \in UnderWay
  BY <1>1 DEF CronTrigger, StartFire, boundVars, TypeOK
<1>2. ASSUME NEW f \in Fires, NEW d \in due, TickSpawn(f, d)
      PROVE  faults = 0 /\ pc'[g] \in UnderWay
  BY <1>2 DEF TickSpawn, StartFire, boundVars, TypeOK
<1>3. ASSUME NEW f \in Fires,
             CheckLookupFails(f) \/ CreateTaskFails(f) \/ RecordFireFails(f) \/ CloseFails(f)
                \/ RecordStatusFails(f)
      PROVE  FALSE
  BY <1>3, CronAssumption
     DEF CheckLookupFails, CreateTaskFails, RecordFireFails, CloseFails, RecordStatusFails, Fault, TypeOK
<1>4. ASSUME NEW f \in Fires, CheckPasses(f) \/ CreateTask(f) \/ RecordFire(f)
      PROVE  faults = 0 /\ pc'[g] \in UnderWay
  BY <1>4 DEF CheckPasses, CreateTask, RecordFire, Goto, boundVars, TypeOK
<1>5. ASSUME NEW f \in Fires, CheckSkips(f) PROVE faults = 0 /\ pc'[g] \in UnderWay
  BY <1>5 DEF CheckSkips, GiveUp, Goto, boundVars, TypeOK
<1>6. ASSUME NEW f \in Fires, DispatchEnds(f) PROVE faults = 0 /\ pc'[g] \in UnderWay
  BY <1>6 DEF DispatchEnds, Goto, boundVars, TypeOK
<1>7. ASSUME NEW f \in Fires, RecordStatus(f)
      PROVE  faults = 0 /\ (pc'[g] \in UnderWay \/ RecordStatus(g))
  BY <1>7 DEF RecordStatus, Goto, boundVars, TypeOK
<1>8. CASE Crash
  BY <1>8 DEF Crash, TypeOK
<1>9. CASE UNCHANGED << faults, pc >>
  BY <1>9
<1> QED
  BY <1>1, <1>2, <1>3, <1>4, <1>5, <1>6, <1>7, <1>8, <1>9
     DEF Next, Operator, TickTake, FireStep, CronCreate, CronSetSchedule, CronSetEnabled, CronDelete,
         TickQuery, TickDefer, TaskUpdate, AdvanceClock, vars, fireVars, boundVars

\* The count of failing store calls never decreases.
LEMMA FaultsGrow ==
    ASSUME TypeOK, [Next]_vars
    PROVE  faults' >= faults
<1>1. ASSUME NEW f \in Fires, FireStep(f) PROVE UNCHANGED faults \/ Fault
  BY <1>1 DEF FireStep, CheckPasses, CheckLookupFails, CheckSkips, CreateTask, CreateTaskFails,
              RecordFire, RecordFireFails, DispatchEnds, CloseFails, RecordStatus,
              RecordStatusFails, boundVars
<1>2. Operator => UNCHANGED faults
  BY DEF Operator, CronCreate, CronSetSchedule, CronSetEnabled, CronDelete, CronTrigger, boundVars
<1>3. TickTake => UNCHANGED faults
  BY DEF TickTake, TickSpawn, TickDefer, boundVars
<1>4. UNCHANGED faults \/ Fault
  BY <1>1, <1>2, <1>3 DEF Next, TickQuery, TaskUpdate, AdvanceClock, Crash, vars, boundVars
<1> QED
  BY <1>4 DEF Fault, TypeOK

\* No row has status running at the start.
LEMMA RunningStatusInit == Init => RunningStatusIsLive
BY NewRowType DEF Init, RunningStatusIsLive, Live

\* Without failing store calls a status running outlives no dispatch.
LEMMA RunningStatusNext ==
    TypeOK /\ FireProgress /\ LastTaskIsOwn /\ RunningStatusIsLive /\ [Next]_vars
        => RunningStatusIsLive'
<1> SUFFICES ASSUME TypeOK, FireProgress, LastTaskIsOwn, RunningStatusIsLive, [Next]_vars,
                    faults' = 0, NEW j \in Jobs,
                    jobs'[j].row = "live", jobs'[j].last_status = "running"
    PROVE  jobs'[j].last_task_id # NoTask /\ pc'[jobs'[j].last_task_id] \in UnderWay
  BY DEF RunningStatusIsLive, Live, UnderWay
<1>0. faults = 0
  BY FaultsGrow DEF TypeOK
<1>1. ASSUME Live(j), jobs'[j].last_task_id = jobs[j].last_task_id,
             jobs'[j].last_status = jobs[j].last_status
      PROVE  jobs'[j].last_task_id # NoTask /\ pc'[jobs'[j].last_task_id] \in UnderWay
  <2> DEFINE f == jobs[j].last_task_id
  <2>1. f # NoTask /\ pc[f] \in UnderWay
    BY <1>0, <1>1 DEF RunningStatusIsLive, UnderWay
  <2>2. f \in Fires /\ snap[f].job = j
    BY <1>1, <2>1 DEF LastTaskIsOwn
  <2>3. pc'[f] \in UnderWay \/ RecordStatus(f)
    BY <2>1, <2>2, UnderWayFrame
  <2>4. ~RecordStatus(f)
    BY <1>1, <2>2, RowWrites
  <2> QED
    BY <1>1, <2>1, <2>3, <2>4
<1>2. ASSUME NEW f \in Fires, snap[f].job = j, Live(j), RecordFire(f)
      PROVE  jobs'[j].last_task_id # NoTask /\ pc'[jobs'[j].last_task_id] \in UnderWay
  <2>1. jobs'[j].last_task_id = f
    BY <1>2, RowWrites
  <2>2. f # NoTask
    BY DEF NoTask, Fires
  <2> QED
    BY <1>2, <2>1, <2>2, FireFrameNext DEF FireFrame, UnderWay, InDispatch
<1>3. CASE jobs'[j] = jobs[j]
  BY <1>1, <1>3 DEF Live
<1> QED
  BY <1>1, <1>2, <1>3, RowFrame, RowWrites

(* As long as no store call fails, a row never says 'running' of a         *)
(* dispatch that has ended: not when fires overtake each other's reports,  *)
(* not when the job is edited or deleted in between.                       *)
THEOREM RunningStatusIsAlwaysLive == Spec => []RunningStatusIsLive
<1> DEFINE I == TypeOK /\ FireProgress /\ LastTaskIsOwn /\ RunningStatusIsLive
<1>1. Init => I
  BY TypeOKInit, FireProgressInit, LastTaskInit, RunningStatusInit
<1>2. I /\ [Next]_vars => I'
  BY TypeOKNext, FireProgressNext, LastTaskNext, RunningStatusNext
<1>3. I => RunningStatusIsLive
  OBVIOUS
<1> QED
  BY <1>1, <1>2, <1>3, PTL DEF Spec

-----------------------------------------------------------------------------
(* run_count.                                                              *)

Stampers(j) == {f \in Fires : stamped[f] /\ snap[f].job = j}

\* The fires stamped on a job can be counted.
LEMMA StampersFinite ==
    ASSUME NEW j
    PROVE  IsFiniteSet(Stampers(j)) /\ Cardinality(Stampers(j)) \in Nat
<1>1. IsFiniteSet(Fires)
  BY CronAssumption, FS_Interval DEF Fires
<1>2. Stampers(j) \in SUBSET Fires
  BY DEF Stampers
<1> QED
  BY <1>1, <1>2, FS_Subset, FS_CardinalityType

\* A fire belongs to the stampers of a job from its own RecordFire on.
LEMMA StamperFrame ==
    ASSUME TypeOK, FireProgress, [Next]_vars, NEW g \in Fires, ~RecordFire(g), NEW j
    PROVE  (stamped'[g] /\ snap'[g].job = j) <=> (stamped[g] /\ snap[g].job = j)
BY FireFrameNext DEF FireFrame, FireProgress, Dispatched

\* A step is the record_fire of one fire only.
LEMMA OneRecordFire ==
    ASSUME TypeOK, NEW f \in Fires, NEW g \in Fires, RecordFire(f), RecordFire(g)
    PROVE  f = g
BY DEF RecordFire, Goto, TypeOK

\* No job has run at the start.
LEMMA RunCountInit == Init => RunCountExact
BY NewRowType DEF Init, RunCountExact, Live

\* run_count and the set of stamped fires grow together.
LEMMA RunCountNext == TypeOK /\ FireProgress /\ RunCountExact /\ [Next]_vars => RunCountExact'
<1> SUFFICES ASSUME TypeOK, FireProgress, RunCountExact, [Next]_vars, NEW j \in Jobs,
                    jobs'[j].row = "live"
    PROVE  jobs'[j].run_count = Cardinality(Stampers(j)')
  BY DEF RunCountExact, Live, Stampers
<1>1. ASSUME NEW f \in Fires, RecordFire(f), snap[f].job = j, Live(j)
      PROVE  jobs'[j].run_count = Cardinality(Stampers(j)')
  <2>1. f \notin Stampers(j)
    BY <1>1 DEF RecordFire, FireProgress, Stampers, InDispatch, Ended
  <2>2. stamped'[f] /\ snap'[f].job = j
    BY <1>1, FireFrameNext DEF FireFrame
  <2>3. \A g \in Fires : g # f =>
            ((stamped'[g] /\ snap'[g].job = j) <=> (stamped[g] /\ snap[g].job = j))
    BY <1>1, OneRecordFire, StamperFrame
  <2>4. Stampers(j)' = Stampers(j) \cup {f}
    BY <2>2, <2>3 DEF Stampers
  <2>5. Cardinality(Stampers(j) \cup {f}) = Cardinality(Stampers(j)) + 1
    BY <2>1, StampersFinite, FS_AddElement
  <2>6. jobs[j].run_count = Cardinality(Stampers(j))
    BY <1>1 DEF RunCountExact, Stampers
  <2> QED
    BY <1>1, <2>4, <2>5, <2>6, RowWrites
<1>2. ASSUME \A f \in Fires : RecordFire(f) => ~(snap[f].job = j /\ Live(j))
      PROVE  Stampers(j)' = Stampers(j)
  <2>1. ASSUME NEW g \in Fires, RecordFire(g)
        PROVE  (stamped'[g] /\ snap'[g].job = j) <=> (stamped[g] /\ snap[g].job = j)
    <3>1. ~stamped[g]
      BY <2>1 DEF RecordFire, FireProgress, InDispatch, Ended
    <3> QED
      BY <1>2, <2>1, <3>1, FireFrameNext DEF FireFrame
  <2> QED
    BY <2>1, StamperFrame DEF Stampers
<1>3. ASSUME Live(j), jobs'[j].run_count = jobs[j].run_count,
             \A f \in Fires : RecordFire(f) => ~(snap[f].job = j /\ Live(j))
      PROVE  jobs'[j].run_count = Cardinality(Stampers(j)')
  BY <1>2, <1>3 DEF RunCountExact, Stampers
<1>4. ASSUME NEW s \in Schedules, CronCreate(j, s), jobs[j].row = "unborn"
      PROVE  jobs'[j].run_count = Cardinality(Stampers(j)')
  <2>1. Stampers(j) = {}
    BY <1>4 DEF Stampers, FireProgress
  <2>2. Stampers(j)' = Stampers(j)
    BY <1>2, <1>4 DEF Live
  <2> QED
    BY <1>4, <2>1, <2>2, RowWrites, FS_EmptySet
<1>5. CASE jobs'[j] = jobs[j]
  BY <1>1, <1>3, <1>5 DEF Live
<1> QED
  BY <1>1, <1>3, <1>4, <1>5, RowFrame, RowWrites

(* run_count is the number of fires stamped on the row, for any number of  *)
(* fires started from the same stale row: none of their increments is lost. *)
THEOREM RunCountIsExact == Spec => []RunCountExact
<1>1. Init => TypeOK /\ FireProgress /\ RunCountExact
  BY TypeOKInit, FireProgressInit, RunCountInit
<1>2. TypeOK /\ FireProgress /\ RunCountExact /\ [Next]_vars
        => (TypeOK /\ FireProgress /\ RunCountExact)'
  BY TypeOKNext, FireProgressNext, RunCountNext
<1> QED
  BY <1>1, <1>2, PTL DEF Spec

-----------------------------------------------------------------------------
(* One-shot jobs.                                                          *)

\* As long as nobody edits a job, what a tick or a fire read of it is what
\* the row still says, and a one-shot that was stamped is disabled.
SnapshotsAgree ==
    edits = 0 =>
        /\ \A f \in Fires : pc[f] \in InFireJob =>
              /\ jobs[snap[f].job].row # "unborn"
              /\ snap[f].schedule = jobs[snap[f].job].schedule
        /\ \A d \in due : /\ jobs[d.row.job].row # "unborn"
                          /\ d.row.schedule = jobs[d.row.job].schedule

OneShotsDisabled ==
    edits = 0 => \A j \in Jobs :
        Live(j) /\ jobs[j].schedule.kind = "oneshot" /\ jobs[j].run_count # 0 => ~jobs[j].enabled

\* A step into a state without edits starts in one and edits nothing.
LEMMA EditsZero ==
    ASSUME TypeOK, [Next]_vars, edits' = 0
    PROVE  edits = 0 /\ ~Edit
<1>1. ASSUME NEW f \in Fires, FireStep(f) PROVE UNCHANGED edits
  BY <1>1 DEF FireStep, CheckPasses, CheckLookupFails, CheckSkips, CreateTask, CreateTaskFails,
              RecordFire, RecordFireFails, DispatchEnds, CloseFails, RecordStatus,
              RecordStatusFails, boundVars
<1>2. Operator => UNCHANGED edits \/ Edit
  BY DEF Operator, CronCreate, CronSetSchedule, CronSetEnabled, CronDelete, CronTrigger, boundVars
<1>3. TickTake => UNCHANGED edits
  BY DEF TickTake, TickSpawn, TickDefer, boundVars
<1>4. UNCHANGED edits \/ Edit
  BY <1>1, <1>2, <1>3 DEF Next, TickQuery, TaskUpdate, AdvanceClock, Crash, vars, boundVars
<1> QED
  BY <1>4 DEF Edit, TypeOK

\* Without an edit the schedule of a row that exists does not change.
LEMMA ScheduleKept ==
    ASSUME TypeOK, [Next]_vars, edits' = 0, NEW j \in Jobs, jobs[j].row # "unborn"
    PROVE  jobs'[j].row # "unborn" /\ jobs'[j].schedule = jobs[j].schedule
<1>1. ~(\E s \in Schedules : CronSetSchedule(j, s)) /\ ~(\E b \in BOOLEAN : CronSetEnabled(j, b))
      /\ ~CronDelete(j)
  BY EditsZero DEF CronSetSchedule, CronSetEnabled, CronDelete
<1>2. CASE jobs'[j] = jobs[j]
  BY <1>2
<1> QED
  BY <1>1, <1>2, RowFrame, RowWrites DEF Live

\* A fire in fire_job was there before, with the same row, or was just started
\* on the row of a trigger or of a tick.
LEMMA InFireJobFrame ==
    ASSUME TypeOK, [Next]_vars, NEW g \in Fires, pc'[g] \in InFireJob
    PROVE  \/ pc[g] \in InFireJob /\ snap'[g] = snap[g]
           \/ \E j \in Jobs : Live(j) /\ snap'[g] = Snap(j)
           \/ \E d \in due : snap'[g] = d.row
<1> USE DEF InFireJob, InDispatch, Ended
<1>1. ASSUME NEW f \in Fires, NEW j \in Jobs, CronTrigger(f, j)
      PROVE  \/ pc[g] \in InFireJob /\ snap'[g] = snap[g]
             \/ Live(j) /\ snap'[g] = Snap(j)
  BY <1>1 DEF CronTrigger, StartFire, TypeOK
<1>2. ASSUME NEW f \in Fires, NEW d \in due, TickSpawn(f, d)
      PROVE  \/ pc[g] \in InFireJob /\ snap'[g] = snap[g]
             \/ snap'[g] = d.row
  BY <1>2 DEF TickSpawn, StartFire, TypeOK
<1>3. ASSUME NEW f \in Fires, CheckPasses(f) \/ CheckLookupFails(f) \/ CreateTask(f)
      PROVE  pc[g] \in InFireJob /\ snap'[g] = snap[g]
  BY <1>3 DEF CheckPasses, CheckLookupFails, CreateTask, Goto, TypeOK
<1>4. ASSUME NEW f \in Fires, CheckSkips(f) \/ CreateTaskFails(f)
      PROVE  pc[g] \in InFireJob /\ snap'[g] = snap[g]
  BY <1>4 DEF CheckSkips, CreateTaskFails, GiveUp, Goto, TypeOK
<1>5. ASSUME NEW f \in Fires, RecordFire(f) \/ RecordFireFails(f)
      PROVE  pc[g] \in InFireJob /\ snap'[g] = snap[g]
  BY <1>5 DEF RecordFire, RecordFireFails, Goto, TypeOK
<1>6. ASSUME NEW f \in Fires,
             DispatchEnds(f) \/ CloseFails(f) \/ RecordStatus(f) \/ RecordStatusFails(f)
      PROVE  pc[g] \in InFireJob /\ snap'[g] = snap[g]
  BY <1>6 DEF DispatchEnds, CloseFails, RecordStatus, RecordStatusFails, Goto, TypeOK
<1>7. ~Crash
  BY DEF Crash, TypeOK, Pc
<1>8. CASE UNCHANGED << pc, snap >>
  BY <1>8
<1> QED
  BY <1>1, <1>2, <1>3, <1>4, <1>5, <1>6, <1>7, <1>8
     DEF Next, Operator, TickTake, FireStep, CronCreate, CronSetSchedule, CronSetEnabled, CronDelete,
         TickQuery, TickDefer, TaskUpdate, AdvanceClock, vars, fireVars

\* A row the tick holds was read before, or is read now.
LEMMA DueFrame ==
    ASSUME TypeOK, [Next]_vars, NEW d \in due'
    PROVE  d \in due \/ \E j \in Jobs : Live(j) /\ d.row = Snap(j)
<1>1. CASE TickQuery
  BY <1>1 DEF TickQuery, Due
<1>2. TickTake => d \in due
  BY DEF TickTake, TickSpawn, TickDefer
<1>3. Operator => d \in due
  BY DEF Operator, CronCreate, CronSetSchedule, CronSetEnabled, CronDelete, CronTrigger, loopVars
<1>4. ASSUME NEW f \in Fires, FireStep(f) PROVE d \in due
  BY <1>4 DEF FireStep, CheckPasses, CheckLookupFails, CheckSkips, CreateTask, CreateTaskFails,
              RecordFire, RecordFireFails, DispatchEnds, CloseFails, RecordStatus,
              RecordStatusFails, loopVars
<1>5. ~Crash
  BY DEF Crash
<1> QED
  BY <1>1, <1>2, <1>3, <1>4, <1>5 DEF Next, TaskUpdate, AdvanceClock, vars, loopVars

\* Without edits every snapshot keeps agreeing with the schedule of its row.
LEMMA SnapshotsAgreeNext == TypeOK /\ SnapshotsAgree /\ [Next]_vars => SnapshotsAgree'
<1> SUFFICES ASSUME TypeOK, SnapshotsAgree, [Next]_vars, edits' = 0
    PROVE  /\ \A f \in Fires : pc'[f] \in InFireJob =>
                 /\ jobs'[snap'[f].job].row # "unborn"
                 /\ snap'[f].schedule = jobs'[snap'[f].job].schedule
           /\ \A d \in due' : /\ jobs'[d.row.job].row # "unborn"
                              /\ d.row.schedule = jobs'[d.row.job].schedule
  BY DEF SnapshotsAgree
<1> DEFINE Agrees(r) == jobs[r.job].row # "unborn" /\ r.schedule = jobs[r.job].schedule
           AgreesNext(r) == jobs'[r.job].row # "unborn" /\ r.schedule = jobs'[r.job].schedule
<1>0. edits = 0
  BY EditsZero
<1>1. ASSUME NEW r \in Snapshots, Agrees(r) PROVE AgreesNext(r)
  <2>1. r.job \in Jobs
    BY DEF Snapshots
  <2> QED
    BY <1>1, <2>1, ScheduleKept
<1>2. ASSUME NEW j \in Jobs, Live(j) PROVE AgreesNext(Snap(j))
  <2>1. Snap(j) \in Snapshots /\ Agrees(Snap(j))
    BY <1>2, SnapType DEF TypeOK, Live
  <2> QED
    BY <1>1, <2>1
<1>3. ASSUME NEW d \in due PROVE AgreesNext(d.row)
  <2>1. d.row \in Snapshots /\ Agrees(d.row)
    BY <1>0 DEF TypeOK, SnapshotsAgree
  <2> QED
    BY <1>1, <2>1
<1>4. ASSUME NEW f \in Fires, pc[f] \in InFireJob PROVE AgreesNext(snap[f])
  <2>1. snap[f] \in Snapshots /\ Agrees(snap[f])
    BY <1>0, <1>4 DEF TypeOK, SnapshotsAgree
  <2> QED
    BY <1>1, <2>1
<1>5. ASSUME NEW f \in Fires, pc'[f] \in InFireJob PROVE AgreesNext(snap'[f])
  <2> HIDE DEF AgreesNext
  <2> QED
    BY <1>2, <1>3, <1>4, <1>5, InFireJobFrame
<1>6. ASSUME NEW d \in due' PROVE AgreesNext(d.row)
  <2> HIDE DEF AgreesNext
  <2> QED
    BY <1>2, <1>3, <1>6, DueFrame
<1> QED
  BY <1>5, <1>6

\* Without edits a one-shot that was stamped stays disabled.
LEMMA OneShotsDisabledNext ==
    TypeOK /\ SnapshotsAgree /\ OneShotsDisabled /\ [Next]_vars => OneShotsDisabled'
<1> SUFFICES ASSUME TypeOK, SnapshotsAgree, OneShotsDisabled, [Next]_vars, edits' = 0,
                    NEW j \in Jobs, jobs'[j].row = "live", jobs'[j].schedule.kind = "oneshot",
                    jobs'[j].run_count # 0
    PROVE  ~jobs'[j].enabled
  BY DEF OneShotsDisabled, Live
<1>0. edits = 0 /\ ~Edit
  BY EditsZero
<1>1. ASSUME NEW f \in Fires, snap[f].job = j, Live(j), RecordFire(f) PROVE ~jobs'[j].enabled
  <2>1. snap[f].schedule = jobs[j].schedule
    BY <1>0, <1>1 DEF SnapshotsAgree, RecordFire, InFireJob
  <2> QED
    BY <1>1, <2>1, RowWrites
<1>2. ASSUME NEW f \in Fires, snap[f].job = j, Live(j), RecordStatus(f) PROVE ~jobs'[j].enabled
  BY <1>0, <1>2, RowWrites DEF OneShotsDisabled
<1>3. CASE jobs'[j] = jobs[j]
  BY <1>0, <1>3 DEF OneShotsDisabled, Live
<1>4. ~(\E s \in Schedules : CronSetSchedule(j, s)) /\ ~(\E b \in BOOLEAN : CronSetEnabled(j, b))
      /\ ~CronDelete(j) /\ ~(\E s \in Schedules : CronCreate(j, s))
  BY <1>0, RowWrites DEF CronSetSchedule, CronSetEnabled, CronDelete
<1> QED
  BY <1>1, <1>2, <1>3, <1>4, RowFrame

(* One-shot jobs retire, for every number of ticks and triggers that hold a *)
(* snapshot of the same one-shot: once stamped it is never due again unless *)
(* an operator edits a job.                                                 *)
THEOREM OneShotsRetire == Spec => []OneShotRetires
<1> DEFINE I == TypeOK /\ SnapshotsAgree /\ OneShotsDisabled
<1>1. Init => I
  <2>1. Init => SnapshotsAgree /\ OneShotsDisabled
    BY NewRowType DEF Init, SnapshotsAgree, OneShotsDisabled, InFireJob, Live
  <2> QED
    BY <2>1, TypeOKInit
<1>2. I /\ [Next]_vars => I'
  BY TypeOKNext, SnapshotsAgreeNext, OneShotsDisabledNext
<1>3. I => OneShotRetires
  BY DEF OneShotRetires, OneShotsDisabled, Due
<1> QED
  BY <1>1, <1>2, <1>3, PTL DEF Spec
=============================================================================
