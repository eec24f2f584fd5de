-------------------------- MODULE KernelRetryProofs --------------------------
(***************************************************************************)
(* Proofs about the transient retries of KernelRuns: the autonomy tick     *)
(* leaves a cancelled run alone, and the retry state of a failed run       *)
(* agrees with its place in its lineage.                                   *)
(***************************************************************************)
EXTENDS KernelRunsProofs

-----------------------------------------------------------------------------
(* Executing a task leaves the status of every other task alone.           *)

\* Settling a run writes its own task.
LEMMA SettleOthers ==
    ASSUME NEW K, Sound(K), NEW r \in Runs, K.rtask[r] \in Tasks, NEW res,
           NEW u \in Tasks, u # K.rtask[r]
    PROVE  Settle(K, r, res).task[u] = K.task[u]
<1>1. K \in Kernel /\ K.task \in [Tasks -> TaskStatus]
    BY KernelFields DEF Sound
<1>2. CASE res = "dangling"
  <2>1. Settle(K, r, res) = [K EXCEPT !.quiet = @ \ {r}]
    BY <1>2 DEF Settle
  <2>2. Settle(K, r, res).task = K.task
    BY <1>1, <2>1 DEF Kernel
  <2> QED BY <2>2
<1>3. CASE res # "dangling"
  <2> DEFINE L == Settle(K, r, res)
  <2>1. Settled(K, L, r, K.rtask[r], RunAfter(K, r, res), TaskAfter(res))
    BY <1>1, <1>3, SettleFields
  <2> HIDE DEF L
  <2>2. L.task = [K.task EXCEPT ![K.rtask[r]] = TaskAfter(res)]
    BY <2>1 DEF Settled
  <2>3. L.task[u] = K.task[u]
    BY <1>1, <2>2
  <2> QED BY <2>3 DEF L
<1> QED BY <1>2, <1>3

\* Starting a run writes its own task.
LEMMA StartRunOthers ==
    ASSUME NEW K, Sound(K), NEW t \in Tasks, NEW u \in Tasks, u # t
    PROVE  StartRun(K, t).task[u] = K.task[u]
<1>1. K \in Kernel /\ K.task \in [Tasks -> TaskStatus]
    BY KernelFields DEF Sound
<1>2. StartRun(K, t).task = [K.task EXCEPT ![t] = "running"]
    BY <1>1 DEF StartRun, Kernel
<1> QED BY <1>1, <1>2

\* execute_assigned_run writes the status of the task it is called for.
LEMMA ExecutionsOthers ==
    ASSUME NEW K, Sound(K), NEW t \in Tasks, NEW R, NEW e \in Executions(K, t, R),
           NEW u \in Tasks, u # t
    PROVE  e.k.task[u] = K.task[u]
<1> DEFINE queued == K.task[t] = "queued"
<1> DEFINE s == IF queued THEN StartRun(K, t) ELSE K
<1> DEFINE r == ActiveRun(s, t)
<1>1. \/ e = Ended(K, "refused") \/ e = Ended(K, "none")
      \/ /\ queued => K.next < MaxRuns
         /\ ~queued => r # NoRun
         /\ \E res \in R : e = Ended(Settle(s, r, res), res)
    BY DEF Executions
<1>2. CASE e = Ended(K, "refused") \/ e = Ended(K, "none")
    BY <1>2 DEF Ended
<1>3. ASSUME queued => K.next < MaxRuns, ~queued => r # NoRun,
             NEW res \in R, e = Ended(Settle(s, r, res), res)
      PROVE  e.k.task[u] = K.task[u]
  <2>1. Sound(s) /\ s.task[u] = K.task[u]
    BY <1>3, StartRunSound, StartRunOthers
  <2>2. r # NoRun
    <3>1. CASE queued
      <4>1. K.next + 1 \in Runs /\ s = StartRun(K, t)
        BY <1>3, <3>1, KernelFields, KernelAssumption DEF Runs, Sound
      <4>2. s.rstat[K.next + 1] = "running" /\ s.rtask[K.next + 1] = t
        BY <1>3, <3>1, <4>1, StartRunSound
      <4> HIDE DEF s
      <4> QED BY <4>1, <4>2, ActiveRunFacts
    <3> QED BY <1>3, <3>1
  <2> HIDE DEF s
  <2>3. r \in Runs /\ s.rtask[r] = t
    BY <2>2, ActiveRunFacts
  <2> HIDE DEF r
  <2>4. e.k = Settle(s, r, res)
    BY <1>3 DEF Ended
  <2>5. Settle(s, r, res).task[u] = s.task[u]
    BY <2>1, <2>3, SettleOthers
  <2> QED BY <2>1, <2>4, <2>5
<1> HIDE DEF s, r, queued
<1> QED BY <1>1, <1>2, <1>3

\* The link between two runs is not about tasks.
LEMMA LinkTask ==
    ASSUME NEW K \in Kernel, NEW r \in Runs
    PROVE  Link(K, r).task = K.task
<1> DEFINE n == K.next
<1> DEFINE L == [K EXCEPT !.from[n] = r, !.quiet = @ \ {n}]
<1>1. \/ Link(K, r) = K \/ Link(K, r) = L
      \/ Link(K, r) = [L EXCEPT !.rstat[n] = Planned(L, n)]
    BY DEF Link
<1>2. L.task = K.task /\ [L EXCEPT !.rstat[n] = Planned(L, n)].task = L.task
    BY DEF Kernel
<1> HIDE DEF L, n
<1> QED BY <1>1, <1>2

\* retry_run writes the status of the retried run's task.
LEMMA RetriesOthers ==
    ASSUME NEW K, Sound(K), NEW r \in Runs, r <= K.next, NEW L \in Retries(K, r),
           NEW u \in Tasks, u # K.rtask[r]
    PROVE  L.task[u] = K.task[u]
<1> DEFINE t == K.rtask[r]
<1> DEFINE Q == Requeue(K, t)
<1>1. K \in Kernel /\ t \in Tasks
    BY DEF Sound, Numbered
<1>2. PICK e \in Executions(Q, t, Results) : L = Link(e.k, r)
    BY DEF Retries
<1>3. Q.task[u] = K.task[u]
  <2>1. Q = [K EXCEPT !.task[t] = "queued"]
    BY DEF Requeue
  <2>2. Q.task = [K.task EXCEPT ![t] = "queued"] /\ K.task \in [Tasks -> TaskStatus]
    BY <1>1, <2>1, KernelFields DEF Kernel
  <2> QED BY <2>2
<1>4. u # t
    OBVIOUS
<1>5. Sound(Q)
    BY <1>1, RequeueSound
<1> HIDE DEF t, Q
<1>6. Sound(e.k) /\ e.k.task[u] = Q.task[u]
    BY <1>1, <1>4, <1>5, ExecutionsSound, ExecutionsOthers
<1>7. L.task = e.k.task
    BY <1>2, <1>6, LinkTask DEF Sound
<1> QED BY <1>3, <1>6, <1>7

-----------------------------------------------------------------------------
(* A tick spares what the operator cancelled.                              *)

\* The task failed because its newest run was cancelled.
Cancelled(K, t) ==
    /\ K.task[t] = "failed" /\ NewestRun(K, t) # NoRun
    /\ K.rstat[NewestRun(K, t)] = "cancelled"

TickSpares ==
    txn.op = "tick" => \A t \in Tasks : Cancelled(disk, t) =>
        /\ k.task[t] = "failed"
        /\ txn.phase = "retries" => \A r \in txn.todo : k.rtask[r] # t
        /\ txn.phase = "tasks" => t \notin txn.todo

\* While a tick holds the lock, only its own steps touch the kernel.
LEMMA TickCases ==
    ASSUME IInv, [Next]_vars, txn'.op = "tick"
    PROVE  BeginTick \/ TickRetry \/ TickPick \/ TickRun \/ UNCHANGED << k, disk, txn >>
<1>1. txn \in Txn /\ Lock
    BY DEF IInv, TypeOK
<1>2. CASE LockHolder
  <2>1. ~PropagatePass
    BY <1>1 DEF PropagatePass, Propagating, Lock, LockFree, NoTxn, Txn
  <2>2. ~PickBriefs /\ ~BriefInline /\ ~BriefPrepared /\ ~MergeBrief /\ ~NextRound
    <3>1. ~PickBriefs /\ ~BriefPrepared /\ ~MergeBrief /\ ~NextRound
      BY <1>1 DEF PickBriefs, BriefPrepared, MergeBrief, NextRound, Txn
    <3>2. ~BriefInline
      BY <1>1 DEF BriefInline, Lock, Txn
    <3> QED BY <3>1, <3>2
  <2>3. ~CommitPrepare /\ ~CommitMerge /\ ~CommitSync /\ ~CommitTick
    BY DEF CommitPrepare, CommitMerge, CommitSync, CommitTick, Commit, NoTxn
  <2> QED BY <1>2, <2>1, <2>2, <2>3 DEF LockHolder
<1>3. ASSUME NEW o \in Orchs, Job(o) \/ BeginSync(o)
      PROVE  UNCHANGED << k, disk, txn >>
  <2>1. ~BeginPrepare(o) /\ ~BeginMerge(o) /\ ~BeginSync(o)
    BY DEF BeginPrepare, BeginMerge, BeginSync, NoTxn
  <2>2. CASE StartJob(o) \/ (\E c \in BOOLEAN : JobCheck(o, c)) \/ JobRecords(o)
    BY <2>2 DEF StartJob, JobCheck, JobRecords
  <2>3. CASE Spawn(o) \/ Finish(o) \/ \E r \in Runs : Panic(o, r)
    BY <2>3 DEF Spawn, Finish, Panic
  <2> QED BY <1>3, <2>1, <2>2, <2>3 DEF Job, Works, Locks
<1>4. ~RoundFails /\ ~SaveFails /\ ~Crash
    BY DEF RoundFails, SaveFails, Crash, NoTxn
<1>5. ASSUME NEW L PROVE ~Handler(L)
    BY DEF Handler, LockFree
<1>6. ~SweepRecover
    BY <1>5 DEF SweepRecover
<1>7. ASSUME NEW L PROVE ~Edit(L)
    BY <1>5 DEF Edit
<1>8. \A t \in Tasks : ~Operator(t)
    BY <1>7 DEF Operator, Assign, Reopen, ReopenAndRun, ExecuteTask, PrimeStartRun, SetTaskStatus
<1>9. ASSUME NEW r \in Runs, OnRun(r) PROVE UNCHANGED << k, disk, txn >>
  <2>1. ~Quiet(r)
    BY DEF Quiet, LockFree
  <2>2. ~RetryRun(r) /\ ~ResumeRun(r)
    BY <1>7 DEF RetryRun, ResumeRun
  <2>3. CASE ProcEnds(r)
    BY <2>3 DEF ProcEnds
  <2> QED BY <1>9, <2>1, <2>2, <2>3 DEF OnRun
<1>10. CASE SweepRead
    BY <1>10 DEF SweepRead
<1>11. CASE UNCHANGED vars
    BY <1>11 DEF vars
<1> QED BY <1>2, <1>3, <1>4, <1>6, <1>8, <1>9, <1>10, <1>11 DEF Next

\* The invariant of the tick.
LEMMA NextTickSpares == IInv /\ TickSpares /\ [Next]_vars => TickSpares'
<1> SUFFICES ASSUME IInv, TickSpares, [Next]_vars, txn'.op = "tick",
                    NEW t \in Tasks, Cancelled(disk', t)
             PROVE  /\ k'.task[t] = "failed"
                    /\ txn'.phase = "retries" => \A r \in txn'.todo : k'.rtask[r] # t
                    /\ txn'.phase = "tasks" => t \notin txn'.todo
    BY DEF TickSpares
<1>1. TypeOK /\ Sound(k) /\ Lock /\ Todo /\ txn \in Txn /\ k \in Kernel
    BY DEF IInv, TypeOK
<1>2. CASE BeginTick
  <2>1. PICK elapsed \in SUBSET RetryReady(k) :
           txn' = [NoTxn EXCEPT !.op = "tick", !.phase = "retries",
                               !.todo = FirstN(elapsed, MaxPerTick)]
    BY <1>2 DEF BeginTick
  <2>2. k = disk /\ k' = k /\ disk' = disk
    BY <1>1, <1>2 DEF BeginTick, Lock
  <2>3. txn'.phase = "retries" /\ txn'.todo \subseteq RetryReady(k)
    BY <2>1 DEF NoTxn, FirstN
  <2>4. \A r \in RetryReady(k) : k.rtask[r] # t
    BY <2>2 DEF RetryReady, Cancelled
  <2>5. k.task[t] = "failed"
    BY <2>2 DEF Cancelled
  <2> QED BY <2>2, <2>3, <2>4, <2>5
<1>3. CASE TickRetry
  <2> DEFINE r == Min(txn.todo)
  <2>1. /\ txn.phase = "retries" /\ r \in txn.todo /\ k' \in Retries(k, r)
        /\ txn' = [txn EXCEPT !.todo = @ \ {r}] /\ disk' = disk
    BY <1>1, <1>3, NextTodo DEF TickRetry
  <2> HIDE DEF r
  <2>2. txn'.op = txn.op /\ txn'.phase = txn.phase /\ txn'.todo = txn.todo \ {r}
    BY <1>1, <2>1 DEF Txn
  <2>3. k.task[t] = "failed" /\ \A q \in txn.todo : k.rtask[q] # t
    BY <2>1, <2>2 DEF TickSpares
  <2>4. \A q \in txn.todo : q \in Runs /\ q <= k.next
    BY <1>1, <2>1 DEF Todo
  <2>5. k'.task[t] = k.task[t]
    BY <1>1, <2>1, <2>3, <2>4, RetriesOthers
  <2>6. \A q \in txn.todo : k'.rtask[q] = k.rtask[q]
    BY <1>1, <2>1, <2>4, RetriesSound DEF Evolves, Grows
  <2> QED BY <2>1, <2>2, <2>3, <2>5, <2>6
<1>4. CASE TickPick
  <2>1. /\ txn.phase = "retries" /\ k' = k /\ disk' = disk
        /\ txn' = [txn EXCEPT !.phase = "tasks",
                    !.todo = FirstN({u \in Tasks : k.task[u] = "queued"}, MaxPerTick)]
    BY <1>4 DEF TickPick
  <2>2. txn'.op = txn.op /\ txn'.phase = "tasks"
    BY <1>1, <2>1 DEF Txn
  <2>3. txn'.todo \subseteq {u \in Tasks : k.task[u] = "queued"}
    BY <1>1, <2>1 DEF Txn, FirstN
  <2>4. k.task[t] = "failed"
    BY <2>1, <2>2 DEF TickSpares
  <2> QED BY <2>1, <2>2, <2>3, <2>4
<1>5. CASE TickRun
  <2> DEFINE u == Min(txn.todo)
  <2>1. /\ txn.phase = "tasks" /\ u \in txn.todo /\ txn' = [txn EXCEPT !.todo = @ \ {u}]
        /\ disk' = disk
    BY <1>1, <1>5, NextTodo DEF TickRun
  <2>2. PICK e \in Executions(k, u, Results) : k' = e.k
    BY <1>5 DEF TickRun
  <2> HIDE DEF u
  <2>3. txn'.op = txn.op /\ txn'.phase = txn.phase /\ txn'.todo = txn.todo \ {u}
    BY <1>1, <2>1 DEF Txn
  <2>4. k.task[t] = "failed" /\ t \notin txn.todo
    BY <2>1, <2>3 DEF TickSpares
  <2>5. u \in Tasks
    BY <1>1, <2>1 DEF Todo
  <2>6. k'.task[t] = k.task[t]
    BY <1>1, <2>1, <2>2, <2>4, <2>5, ExecutionsOthers
  <2> QED BY <2>1, <2>3, <2>4, <2>6
<1>6. CASE UNCHANGED << k, disk, txn >>
    BY <1>6 DEF TickSpares
<1> QED BY <1>2, <1>3, <1>4, <1>5, <1>6, TickCases

\* What a step saves while a tick holds the lock.
LEMMA TickSaves ==
    ASSUME IInv, [Next]_vars, txn.op = "tick"
    PROVE  disk' = disk \/ disk' = k
<1>1. txn \in Txn /\ Lock
    BY DEF IInv, TypeOK
<1>2. CASE LockHolder
    BY <1>1, <1>2 DEF LockHolder, PropagatePass, PickBriefs, BriefInline, BriefPrepared,
       CommitPrepare, MergeBrief, CommitMerge, NextRound, CommitSync, TickRetry, TickPick, TickRun,
       CommitTick, Commit
<1>3. ASSUME NEW o \in Orchs, Job(o) \/ BeginSync(o) PROVE disk' = disk
    BY <1>3 DEF Job, Works, Locks, StartJob, JobCheck, JobRecords, BeginPrepare, Spawn, Panic,
       BeginMerge, Finish, BeginSync
<1>4. CASE BeginTick \/ RoundFails \/ SaveFails \/ Crash \/ SweepRead
    BY <1>4 DEF BeginTick, RoundFails, SaveFails, Crash, SweepRead
<1>5. ASSUME NEW L PROVE ~Handler(L)
    BY DEF Handler, LockFree
<1>6. ~SweepRecover
    BY <1>5 DEF SweepRecover
<1>7. ASSUME NEW L PROVE ~Edit(L)
    BY <1>5 DEF Edit
<1>8. \A t \in Tasks : ~Operator(t)
    BY <1>7 DEF Operator, Assign, Reopen, ReopenAndRun, ExecuteTask, PrimeStartRun, SetTaskStatus
<1>9. ASSUME NEW r \in Runs, OnRun(r) PROVE disk' = disk
  <2>1. ~Quiet(r) /\ ~RetryRun(r) /\ ~ResumeRun(r)
    BY <1>7 DEF RetryRun, ResumeRun, Quiet, LockFree
  <2> QED BY <1>9, <2>1 DEF OnRun, ProcEnds
<1>10. CASE UNCHANGED vars
    BY <1>10 DEF vars
<1> QED BY <1>2, <1>3, <1>4, <1>6, <1>8, <1>9, <1>10 DEF Next

\* What the operator cancelled is not retried behind his back by the autonomy
\* loop (transient_retry_ready looks at the task's newest run only).
THEOREM CancelledStaysCancelled == Spec => CancelStands
<1>1. Init => TickSpares
    BY DEF Init, TickSpares, NoTxn
<1>2. Spec => []TickSpares
    BY <1>1, NextTickSpares, KernelInvariant, PTL DEF Spec
<1>3. IInv /\ TickSpares /\ [Next]_vars =>
        [\A t \in Tasks :
            /\ txn.op = "tick" /\ disk.task[t] = "failed" /\ NewestRun(disk, t) # NoRun
            /\ disk.rstat[NewestRun(disk, t)] = "cancelled"
            => disk'.task[t] = "failed"]_vars
  <2> SUFFICES ASSUME IInv, TickSpares, [Next]_vars, NEW t \in Tasks, txn.op = "tick",
                      Cancelled(disk, t)
               PROVE  disk'.task[t] = "failed"
    BY DEF Cancelled
  <2>1. disk.task[t] = "failed" /\ k.task[t] = "failed"
    BY DEF Cancelled, TickSpares
  <2> QED BY <2>1, TickSaves
<1> QED BY <1>2, <1>3, KernelInvariant, PTL DEF Spec, CancelStands

-----------------------------------------------------------------------------
(* transient_attempt_for as a function of the lineages.  The recursion is  *)
(* justified by hand: lineages descend, so the least run without a depth   *)
(* would have one.                                                         *)

\* F links runs to earlier ones.
Descending(F) ==
    /\ F \in [Runs -> Runs \cup {NoRun}]
    /\ \A r \in Runs : F[r] # NoRun => F[r] < r

DepthFrom(F, f, s) == IF F[s] = NoRun THEN 0 ELSE 1 + f[F[s]]
Depths(F, f) == f = [s \in Runs |-> DepthFrom(F, f, s)]
DepthOf(F) == CHOOSE f : Depths(F, f)

\* Attempt depends on the links only.
LEMMA AttemptDepth ==
    ASSUME NEW K, NEW r
    PROVE  Attempt(K, r) = DepthOf(K.from)[r]
BY DEF Attempt, DepthOf, Depths, DepthFrom

\* Depths can be given to the first n runs.
DepthsUpTo(F, n) ==
    \E f \in [1 .. n -> Nat] : \A s \in 1 .. n : f[s] = DepthFrom(F, f, s)

\* One more run.
LEMMA OneMoreDepth ==
    ASSUME NEW F, Descending(F), NEW m \in Runs, DepthsUpTo(F, m - 1)
    PROVE  DepthsUpTo(F, m)
<1>1. m \in Nat /\ m >= 1 /\ MaxRuns \in Nat /\ m <= MaxRuns
    BY KernelAssumption DEF Runs
<1>2. PICK f \in [1 .. m - 1 -> Nat] : \A s \in 1 .. m - 1 : f[s] = DepthFrom(F, f, s)
    BY DEF DepthsUpTo
<1> DEFINE g == [s \in 1 .. m |-> IF s = m THEN DepthFrom(F, f, m) ELSE f[s]]
<1>3. \A s \in 1 .. m : F[s] # NoRun => F[s] \in 1 .. m - 1 /\ F[s] < s
  <2> SUFFICES ASSUME NEW s \in 1 .. m, F[s] # NoRun PROVE F[s] \in 1 .. m - 1 /\ F[s] < s
    OBVIOUS
  <2>1. s \in Runs
    BY <1>1 DEF Runs
  <2>2. F[s] \in Runs /\ F[s] < s
    BY <2>1 DEF Descending
  <2> QED BY <1>1, <2>2 DEF Runs
<1>4. DepthFrom(F, f, m) \in Nat
    BY <1>1, <1>3 DEF DepthFrom
<1>5. g \in [1 .. m -> Nat]
    BY <1>1, <1>4
<1>6. \A s \in 1 .. m - 1 : g[s] = f[s]
    BY <1>1
<1>7. ASSUME NEW s \in 1 .. m PROVE g[s] = DepthFrom(F, g, s)
  <2>1. DepthFrom(F, g, s) = DepthFrom(F, f, s)
    BY <1>3, <1>6 DEF DepthFrom
  <2>2. CASE s = m
    BY <2>1, <2>2
  <2>3. CASE s # m
    BY <1>1, <1>2, <2>1, <2>3
  <2> QED BY <2>2, <2>3
<1> HIDE DEF g
<1> QED BY <1>5, <1>7 DEF DepthsUpTo

\* So all runs have one.
LEMMA DepthExists ==
    ASSUME NEW F, Descending(F)
    PROVE  Depths(F, DepthOf(F)) /\ DepthOf(F) \in [Runs -> Nat]
<1>1. MaxRuns \in Nat
    BY KernelAssumption
<1>2. DepthsUpTo(F, MaxRuns)
  <2> DEFINE Bad == {n \in 0 .. MaxRuns : ~DepthsUpTo(F, n)}
  <2> SUFFICES ASSUME ~DepthsUpTo(F, MaxRuns) PROVE FALSE
    OBVIOUS
  <2>1. Bad \in SUBSET Nat /\ Bad # {}
    BY <1>1
  <2>2. PICK m \in Bad : \A n \in Bad : m <= n
    BY <2>1, LeastExists
  <2>3. DepthsUpTo(F, 0)
    <3>1. [s \in 1 .. 0 |-> 0] \in [1 .. 0 -> Nat]
      OBVIOUS
    <3>2. \A s \in 1 .. 0 : FALSE
      OBVIOUS
    <3> QED BY <3>1, <3>2, Zenon DEF DepthsUpTo
  <2>4. m # 0 /\ m \in Runs /\ m - 1 \in 0 .. MaxRuns
    BY <1>1, <2>2, <2>3 DEF Runs
  <2>5. m - 1 \notin Bad
    BY <1>1, <2>2, <2>4
  <2> QED BY <2>2, <2>4, <2>5, OneMoreDepth
<1>3. PICK f \in [Runs -> Nat] : \A s \in Runs : f[s] = DepthFrom(F, f, s)
    BY <1>2 DEF DepthsUpTo, Runs
<1>4. Depths(F, f)
    BY <1>3 DEF Depths
<1>5. Depths(F, DepthOf(F))
    BY <1>4 DEF DepthOf
<1> DEFINE g == DepthOf(F)
<1> HIDE DEF g
<1>6. \A s \in Runs : g[s] = DepthFrom(F, g, s)
    BY <1>5 DEF Depths, g
<1>7. \A s \in Runs : g[s] \in Nat
  <2> DEFINE Bad == {s \in Runs : g[s] \notin Nat}
  <2> SUFFICES ASSUME Bad # {} PROVE FALSE
    OBVIOUS
  <2>1. Bad \in SUBSET Nat
    BY <1>1 DEF Runs
  <2>2. PICK s \in Bad : \A q \in Bad : s <= q
    BY <2>1, LeastExists
  <2>3. F[s] # NoRun => F[s] \in Runs /\ F[s] \notin Bad
    BY <1>1, <2>2 DEF Descending, Runs
  <2> QED BY <1>6, <2>2, <2>3 DEF DepthFrom
<1>8. g = [s \in Runs |-> DepthFrom(F, g, s)]
    BY <1>5 DEF Depths, g
<1>9. g \in [Runs -> Nat]
    BY <1>7, <1>8
<1> QED BY <1>5, <1>9 DEF g

\* A link from a run nobody descends from changes no other run's depth.
LEMMA DepthKeeps ==
    ASSUME NEW F, Descending(F), NEW G, Descending(G), NEW n \in Runs,
           \A s \in Runs : s # n => G[s] = F[s] /\ F[s] # n,
           NEW r \in Runs, r # n
    PROVE  DepthOf(G)[r] = DepthOf(F)[r]
<1> DEFINE f == DepthOf(F)
<1> DEFINE g == DepthOf(G)
<1>1. \A s \in Runs : f[s] = DepthFrom(F, f, s) /\ g[s] = DepthFrom(G, g, s)
  <2>1. Depths(F, f) /\ Depths(G, g)
    BY DepthExists
  <2> HIDE DEF f, g
  <2> QED BY <2>1 DEF Depths
<1> HIDE DEF f, g
<1> DEFINE Bad == {s \in Runs : s # n /\ g[s] # f[s]}
<1>2. Bad = {}
  <2> SUFFICES ASSUME Bad # {} PROVE FALSE
    OBVIOUS
  <2>1. Bad \in SUBSET Nat
    BY KernelAssumption DEF Runs
  <2>2. PICK s \in Bad : \A q \in Bad : s <= q
    BY <2>1, LeastExists
  <2>3. s \in Runs /\ G[s] = F[s] /\ F[s] # n
    BY <2>2
  <2>4. F[s] # NoRun => F[s] \in Runs /\ F[s] \notin Bad
    BY <2>2, <2>3, KernelAssumption DEF Descending, Runs
  <2>5. DepthFrom(G, g, s) = DepthFrom(F, f, s)
    BY <2>3, <2>4 DEF DepthFrom
  <2> QED BY <1>1, <2>2, <2>3, <2>5
<1> QED BY <1>2 DEF f, g

-----------------------------------------------------------------------------
(* The retry states agree with the lineages.                               *)

Lineage(K) ==
    \A r \in Runs :
        /\ K.rstat[r] = "retry" => Attempt(K, r) < MaxTransient
        /\ K.rstat[r] = "spent" => Attempt(K, r) >= MaxTransient

\* A sound kernel's links descend, and every run has a natural depth.
LEMMA AttemptType ==
    ASSUME NEW K, Sound(K), NEW r \in Runs
    PROVE  Descending(K.from) /\ Attempt(K, r) \in Nat
<1>1. Descending(K.from)
    BY KernelFields DEF Sound, Descends, Descending
<1>2. DepthOf(K.from) \in [Runs -> Nat]
    BY <1>1, DepthExists
<1> QED BY <1>1, <1>2, AttemptDepth

\* A change that plans no retry and links no run.
LEMMA LineageSame ==
    ASSUME NEW K, Lineage(K), NEW L, L.from = K.from,
           \A r \in Runs : L.rstat[r] = K.rstat[r] \/ L.rstat[r] \notin {"retry", "spent"}
    PROVE  Lineage(L)
<1>1. \A r \in Runs : Attempt(L, r) = Attempt(K, r)
    BY AttemptDepth
<1> QED BY <1>1 DEF Lineage

\* start_run
LEMMA StartRunLineage ==
    ASSUME NEW K, Sound(K), Lineage(K), NEW t \in Tasks, K.next < MaxRuns
    PROVE  Lineage(StartRun(K, t))
<1> DEFINE L == StartRun(K, t)
<1>1. K \in Kernel /\ K.rstat \in [Runs -> RunState] /\ K.next + 1 \in Runs
    BY KernelFields, KernelAssumption DEF Sound, Runs
<1>2. L.rstat = [K.rstat EXCEPT ![K.next + 1] = "running"] /\ L.from = K.from
    BY <1>1 DEF StartRun, Kernel
<1> HIDE DEF L
<1>3. \A r \in Runs : L.rstat[r] = K.rstat[r] \/ L.rstat[r] \notin {"retry", "spent"}
    BY <1>1, <1>2
<1>4. Lineage(L)
    BY <1>2, <1>3, LineageSame
<1> QED BY <1>4 DEF L

\* RunRetryState::plan
LEMMA PlannedFacts ==
    ASSUME NEW K, NEW r, Attempt(K, r) \in Nat
    PROVE  /\ Planned(K, r) = "retry" => Attempt(K, r) < MaxTransient
           /\ Planned(K, r) = "spent" => Attempt(K, r) >= MaxTransient
BY KernelAssumption DEF Planned

\* A run's end is planned at the depth it has then.
LEMMA SettleLineage ==
    ASSUME NEW K, Sound(K), Lineage(K), NEW r \in Runs, K.rtask[r] \in Tasks, NEW res
    PROVE  Lineage(Settle(K, r, res))
<1> DEFINE L == Settle(K, r, res)
<1>1. K \in Kernel /\ K.rstat \in [Runs -> RunState]
    BY KernelFields DEF Sound
<1>2. CASE res = "dangling"
  <2>1. L = [K EXCEPT !.quiet = @ \ {r}]
    BY <1>2 DEF Settle
  <2>2. L.rstat = K.rstat /\ L.from = K.from
    BY <1>1, <2>1 DEF Kernel
  <2> HIDE DEF L
  <2>3. Lineage(L)
    BY <2>2, LineageSame
  <2> QED BY <2>3 DEF L
<1>3. CASE res # "dangling"
  <2>1. Settled(K, L, r, K.rtask[r], RunAfter(K, r, res), TaskAfter(res))
    BY <1>1, <1>3, SettleFields
  <2>2. RunAfter(K, r, res) \in {"retry", "spent"} => RunAfter(K, r, res) = Planned(K, r)
    BY Zenon DEF RunAfter
  <2> HIDE DEF L
  <2>3. L.rstat = [K.rstat EXCEPT ![r] = RunAfter(K, r, res)] /\ L.from = K.from
    BY <2>1 DEF Settled
  <2>4. Attempt(K, r) \in Nat /\ \A q \in Runs : Attempt(L, q) = Attempt(K, q)
    BY <2>3, AttemptType, AttemptDepth
  <2>5. ASSUME NEW q \in Runs
        PROVE  /\ L.rstat[q] = "retry" => Attempt(L, q) < MaxTransient
               /\ L.rstat[q] = "spent" => Attempt(L, q) >= MaxTransient
    <3>1. CASE q = r
      <4>1. L.rstat[q] = RunAfter(K, r, res)
        BY <1>1, <2>3, <3>1
      <4> QED BY <2>2, <2>4, <3>1, <4>1, PlannedFacts
    <3>2. CASE q # r
      BY <1>1, <2>3, <2>4, <3>2 DEF Lineage
    <3> QED BY <3>1, <3>2
  <2>6. Lineage(L)
    BY <2>5 DEF Lineage
  <2> QED BY <2>6 DEF L
<1> QED BY <1>2, <1>3

\* execute_assigned_run
LEMMA ExecutionsLineage ==
    ASSUME NEW K, Sound(K), Lineage(K), NEW t \in Tasks, NEW R, NEW e \in Executions(K, t, R)
    PROVE  Lineage(e.k)
<1> DEFINE queued == K.task[t] = "queued"
<1> DEFINE s == IF queued THEN StartRun(K, t) ELSE K
<1> DEFINE r == ActiveRun(s, t)
<1>1. \/ e = Ended(K, "refused") \/ e = Ended(K, "none")
      \/ /\ queued => K.next < MaxRuns
         /\ ~queued => r # NoRun
         /\ \E res \in R : e = Ended(Settle(s, r, res), res)
    BY DEF Executions
<1>2. CASE e = Ended(K, "refused") \/ e = Ended(K, "none")
    BY <1>2 DEF Ended
<1>3. ASSUME queued => K.next < MaxRuns, ~queued => r # NoRun,
             NEW res \in R, e = Ended(Settle(s, r, res), res)
      PROVE  Lineage(e.k)
  <2>1. Sound(s) /\ Lineage(s)
    BY <1>3, StartRunSound, StartRunLineage
  <2>2. r # NoRun
    <3>1. CASE queued
      <4>1. K.next + 1 \in Runs /\ s = StartRun(K, t)
        BY <1>3, <3>1, KernelFields, KernelAssumption DEF Runs, Sound
      <4>2. s.rstat[K.next + 1] = "running" /\ s.rtask[K.next + 1] = t
        BY <1>3, <3>1, <4>1, StartRunSound
      <4> HIDE DEF s
      <4> QED BY <4>1, <4>2, ActiveRunFacts
    <3> QED BY <1>3, <3>1
  <2> HIDE DEF s
  <2>3. r \in Runs /\ s.rtask[r] = t
    BY <2>2, ActiveRunFacts
  <2> HIDE DEF r
  <2>4. e.k = Settle(s, r, res)
    BY <1>3 DEF Ended
  <2>5. Lineage(Settle(s, r, res))
    BY <2>1, <2>3, SettleLineage
  <2> QED BY <2>4, <2>5
<1> HIDE DEF s, r, queued
<1> QED BY <1>1, <1>2, <1>3

\* retry_run plans the linked run again, at the depth the link gives it; no
\* other run's depth changes, for the linked run is the highest-numbered.
LEMMA LinkLineage ==
    ASSUME NEW K, Sound(K), Lineage(K), NEW r \in Runs, r <= K.next
    PROVE  Lineage(Link(K, r))
<1> DEFINE n == K.next
<1>1. /\ K \in Kernel /\ Numbered(K) /\ Descends(K) /\ K.next \in Nat /\ n \in Runs
      /\ K.rstat \in [Runs -> RunState] /\ K.from \in [Runs -> Runs \cup {NoRun}]
    BY KernelFields, KernelAssumption DEF Sound, Runs
<1>2. CASE n = r
    BY <1>2 DEF Link
<1>3. CASE n # r
  <2> DEFINE L == [K EXCEPT !.from[n] = r, !.quiet = @ \ {n}]
  <2> DEFINE M == Link(K, r)
  <2>1. L.rstat = K.rstat /\ L.from = [K.from EXCEPT ![n] = r] /\ L \in Kernel
    BY <1>1 DEF Kernel
  <2>2. M = IF K.rstat[n] \in {"retry", "spent"} THEN [L EXCEPT !.rstat[n] = Planned(L, n)] ELSE L
    BY <1>3 DEF Link
  <2> HIDE DEF L, M
  <2>3. /\ M.from = L.from
        /\ \A q \in Runs : q # n => M.rstat[q] = K.rstat[q]
        /\ M.rstat[n] \in {"retry", "spent"} => M.rstat[n] = Planned(L, n)
    <3>1. CASE K.rstat[n] \in {"retry", "spent"}
      <4>1. M = [L EXCEPT !.rstat[n] = Planned(L, n)]
        BY <2>2, <3>1
      <4>2. M.rstat = [L.rstat EXCEPT ![n] = Planned(L, n)] /\ M.from = L.from
        BY <2>1, <4>1 DEF Kernel
      <4> QED BY <1>1, <2>1, <4>2
    <3>2. CASE K.rstat[n] \notin {"retry", "spent"}
      BY <2>1, <2>2, <3>2
    <3> QED BY <3>1, <3>2
  <2>4. Descending(K.from)
    BY AttemptType
  <2>5. Descending(L.from)
    BY <1>1, <1>3, <2>1, <2>4 DEF Descending, Runs
  <2>6. \A s \in Runs : s # n => L.from[s] = K.from[s] /\ K.from[s] # n
    <3> SUFFICES ASSUME NEW s \in Runs, s # n PROVE L.from[s] = K.from[s] /\ K.from[s] # n
      OBVIOUS
    <3>1. L.from[s] = K.from[s]
      BY <1>1, <2>1
    <3>2. K.from[s] = n => n < s /\ K.rstat[s] # "absent"
      BY <1>1, KernelAssumption DEF Descends, NoRun, Runs
    <3>3. n < s => K.rstat[s] = "absent"
      BY <1>1, KernelAssumption DEF Numbered, Runs
    <3> QED BY <3>1, <3>2, <3>3
  <2>7. \A q \in Runs : q # n => Attempt(M, q) = Attempt(K, q)
    BY <1>1, <2>3, <2>4, <2>5, <2>6, DepthKeeps, AttemptDepth
  <2>8. Attempt(M, n) = Attempt(L, n) /\ Attempt(L, n) \in Nat
    <3>1. DepthOf(L.from) \in [Runs -> Nat]
      BY <2>5, DepthExists
    <3> QED BY <1>1, <2>3, <3>1, AttemptDepth
  <2>9. ASSUME NEW q \in Runs
        PROVE  /\ M.rstat[q] = "retry" => Attempt(M, q) < MaxTransient
               /\ M.rstat[q] = "spent" => Attempt(M, q) >= MaxTransient
    <3>1. CASE q = n
      BY <2>3, <2>8, <3>1, PlannedFacts
    <3>2. CASE q # n
      BY <2>3, <2>7, <3>2 DEF Lineage
    <3> QED BY <3>1, <3>2
  <2>10. Lineage(M)
    BY <2>9 DEF Lineage
  <2> QED BY <2>10 DEF M
<1> QED BY <1>2, <1>3

\* A task goes back to the queue.
LEMMA RequeueLineage ==
    ASSUME NEW K, Sound(K), Lineage(K), NEW t \in Tasks
    PROVE  Lineage(Requeue(K, t))
<1> DEFINE L == Requeue(K, t)
<1>1. K \in Kernel
    BY DEF Sound
<1>2. L.rstat = K.rstat /\ L.from = K.from
    BY <1>1 DEF Requeue, Kernel
<1> HIDE DEF L
<1>3. Lineage(L)
    BY <1>2, LineageSame
<1> QED BY <1>3 DEF L

\* ... and is executed.
LEMMA RequeueExecutedLineage ==
    ASSUME NEW K, Sound(K), Lineage(K), NEW t \in Tasks, NEW R,
           NEW e \in Executions(Requeue(K, t), t, R)
    PROVE  Lineage(e.k)
<1> DEFINE Q == Requeue(K, t)
<1>1. Sound(Q) /\ Lineage(Q)
    BY RequeueSound, RequeueLineage
<1>2. e \in Executions(Q, t, R)
    OBVIOUS
<1> HIDE DEF Q
<1> QED BY <1>1, <1>2, ExecutionsLineage

\* retry_run as a whole.
LEMMA RetriesLineage ==
    ASSUME NEW K, Sound(K), Lineage(K), NEW r \in Runs, r <= K.next, NEW L \in Retries(K, r)
    PROVE  Lineage(L)
<1> DEFINE t == K.rtask[r]
<1> DEFINE Q == Requeue(K, t)
<1>1. K \in Kernel /\ t \in Tasks
    BY DEF Sound, Numbered
<1>2. PICK e \in Executions(Q, t, Results) : L = Link(e.k, r)
    BY DEF Retries
<1>3. Sound(Q) /\ Evolves(K, Q) /\ Lineage(Q)
    BY <1>1, RequeueSound, RequeueLineage
<1> HIDE DEF t, Q
<1>4. Sound(e.k) /\ Evolves(Q, e.k) /\ Lineage(e.k)
    BY <1>1, <1>3, ExecutionsSound, ExecutionsLineage
<1>5. r <= e.k.next
  <2>1. Evolves(K, e.k)
    BY <1>1, <1>3, <1>4, EvolvesTrans DEF Sound
  <2> QED BY <1>1, <1>4, <2>1, KernelFields, KernelAssumption DEF Evolves, Grows, Sound, Runs
<1> QED BY <1>2, <1>4, <1>5, LinkLineage

\* What is said of the kernel and nothing but its board, its tasks or the quiet
\* of its runs leaves the lineages alone.
LEMMA BoardLineage ==
    ASSUME NEW K \in Kernel, Lineage(K)
    PROVE  /\ \A t \in Tasks : \A res : Lineage(RecordOutcome(K, t, res))
           /\ \A S : Lineage(Block(K, S))
           /\ \A o : Lineage(WithStatus(K, o))
           /\ \A t \in Tasks : \A r \in Runs : Lineage(Handed(K, t, r))
           /\ \A r : Lineage([K EXCEPT !.quiet = @ \cup {r}])
           /\ \A t : \A s : Lineage([K EXCEPT !.task[t] = s])
<1>1. ASSUME NEW L, L.rstat = K.rstat, L.from = K.from PROVE Lineage(L)
    BY <1>1, LineageSame
<1>2. ASSUME NEW t \in Tasks, NEW res PROVE Lineage(RecordOutcome(K, t, res))
  <2>1. RecordOutcome(K, t, res).rstat = K.rstat /\ RecordOutcome(K, t, res).from = K.from
    BY RecordFields
  <2> QED BY <1>1, <2>1
<1>3. ASSUME NEW S PROVE Lineage(Block(K, S))
  <2>1. Block(K, S).rstat = K.rstat /\ Block(K, S).from = K.from
    BY DEF Block, Kernel
  <2> QED BY <1>1, <2>1
<1>4. ASSUME NEW o PROVE Lineage(WithStatus(K, o))
  <2>1. WithStatus(K, o).rstat = K.rstat /\ WithStatus(K, o).from = K.from
    BY DEF WithStatus, Kernel
  <2> QED BY <1>1, <2>1
<1>5. ASSUME NEW t \in Tasks, NEW r \in Runs PROVE Lineage(Handed(K, t, r))
  <2>1. Handed(K, t, r).rstat = K.rstat /\ Handed(K, t, r).from = K.from
    BY DEF Handed, Kernel
  <2> QED BY <1>1, <2>1
<1>6. ASSUME NEW r PROVE Lineage([K EXCEPT !.quiet = @ \cup {r}])
  <2> DEFINE L == [K EXCEPT !.quiet = @ \cup {r}]
  <2>1. L.rstat = K.rstat /\ L.from = K.from
    BY DEF Kernel
  <2> HIDE DEF L
  <2>2. Lineage(L)
    BY <1>1, <2>1
  <2> QED BY <2>2 DEF L
<1>7. ASSUME NEW t, NEW s PROVE Lineage([K EXCEPT !.task[t] = s])
  <2> DEFINE L == [K EXCEPT !.task[t] = s]
  <2>1. L.rstat = K.rstat /\ L.from = K.from
    BY DEF Kernel
  <2> HIDE DEF L
  <2>2. Lineage(L)
    BY <1>1, <2>1
  <2> QED BY <2>2 DEF L
<1> QED BY <1>2, <1>3, <1>4, <1>5, <1>6, <1>7

\* The watchdog's mark is no retry state.
LEMMA RecoveredLineage ==
    ASSUME NEW K \in Kernel, Lineage(K), NEW live
    PROVE  Lineage(Recovered(K, live))
<1> DEFINE L == Recovered(K, live)
<1> DEFINE stale == {r \in K.quiet : K.rstat[r] = "running" /\ r \notin live}
<1>1. L.from = K.from /\ L.rstat = [r \in Runs |-> IF r \in stale THEN "stale" ELSE K.rstat[r]]
    BY DEF Recovered, Kernel
<1> HIDE DEF L, stale
<1>2. \A r \in Runs : L.rstat[r] = K.rstat[r] \/ L.rstat[r] \notin {"retry", "spent"}
    BY <1>1
<1>3. Lineage(L)
    BY <1>1, <1>2, LineageSame
<1> QED BY <1>3 DEF L

\* A holder's step on its own copy.
LEMMA HolderLineage ==
    ASSUME IInv, Lineage(k),
           \/ PropagatePass \/ PickBriefs \/ BriefInline \/ BriefPrepared \/ MergeBrief
           \/ NextRound \/ TickRetry \/ TickPick \/ TickRun
    PROVE  Lineage(k') /\ disk' = disk
<1>1. /\ TypeOK /\ Sound(k) /\ Todo /\ Lock /\ Workers /\ Grows(disk, k)
      /\ k \in Kernel /\ disk \in Kernel /\ Numbered(k)
    BY DEF IInv, Sound
<1>2. disk' = disk
    BY DEF PropagatePass, PickBriefs, BriefInline, BriefPrepared, MergeBrief, NextRound, TickRetry,
       TickPick, TickRun
<1>3. CASE PropagatePass
    BY <1>1, <1>2, <1>3, BoardLineage DEF PropagatePass
<1>4. CASE PickBriefs \/ NextRound \/ TickPick
    BY <1>2, <1>4 DEF PickBriefs, NextRound, TickPick
<1>5. CASE BriefInline
  <2> DEFINE t == Min(txn.todo)
  <2>1. t \in txn.todo /\ txn.phase = "briefs"
    BY <1>1, <1>5, NextTodo DEF BriefInline
  <2>2. PICK e \in Executions(k, t, Results) : k' = RecordOutcome(e.k, t, e.res)
    BY <1>5 DEF BriefInline
  <2>3. t \in Tasks
    BY <1>1, <2>1 DEF Todo, Ready, Briefs
  <2> HIDE DEF t
  <2>4. Lineage(e.k) /\ e.k \in Kernel
    BY <1>1, <2>2, <2>3, ExecutionsLineage, ExecutionsSound DEF Sound
  <2> QED BY <1>2, <2>2, <2>3, <2>4, BoardLineage
<1>6. CASE BriefPrepared
  <2> DEFINE t == Min(txn.todo)
  <2> DEFINE s == IF k.task[t] = "queued" THEN StartRun(k, t) ELSE k
  <2> DEFINE r == ActiveRun(s, t)
  <2>1. /\ txn.phase = "briefs" /\ t \in txn.todo
        /\ k.task[t] = "queued" => k.next < MaxRuns
        /\ r # NoRun /\ k' = Handed(s, t, r)
    BY <1>1, <1>6, NextTodo DEF BriefPrepared, Handed
  <2>2. t \in Tasks
    BY <1>1, <2>1 DEF Todo, Ready, Briefs
  <2>3. s \in Kernel /\ Lineage(s)
    BY <1>1, <2>1, <2>2, StartRunSound, StartRunLineage DEF Sound
  <2> HIDE DEF s
  <2>4. r \in Runs
    BY <2>1, ActiveRunFacts
  <2> HIDE DEF t, r
  <2> QED BY <1>2, <2>1, <2>2, <2>3, <2>4, BoardLineage
<1>7. CASE MergeBrief
  <2> DEFINE r == Min(txn.todo)
  <2> DEFINE S == Settle(k, r, proc[r])
  <2>1. txn.op = "merge" /\ r \in txn.todo /\ k' = RecordOutcome(S, k.rtask[r], proc[r])
    BY <1>1, <1>7, NextTodo DEF MergeBrief
  <2>2. r \in Runs /\ r <= disk.next
    BY <1>1, <2>1, JobFields DEF Lock, Todo, Workers, Worker
  <2>3. r <= k.next
    BY <1>1, <2>2, KernelFields, KernelAssumption DEF Grows, Runs
  <2>4. k.rtask[r] \in Tasks
    BY <1>1, <2>2, <2>3 DEF Numbered
  <2>5. proc[r] # "dangling"
    BY <1>1, <2>2 DEF TypeOK, ProcessEnd
  <2> HIDE DEF r
  <2>6. Lineage(S)
    BY <1>1, <2>2, <2>4, SettleLineage
  <2>7. S \in Kernel
    BY <1>1, <2>2, <2>4, <2>5, SettleFields DEF Settled
  <2> HIDE DEF S
  <2> QED BY <1>2, <2>1, <2>4, <2>6, <2>7, BoardLineage
<1>8. CASE TickRetry
  <2> DEFINE r == Min(txn.todo)
  <2>1. txn.phase = "retries" /\ r \in txn.todo /\ k' \in Retries(k, r)
    BY <1>1, <1>8, NextTodo DEF TickRetry
  <2> HIDE DEF r
  <2>2. r \in Runs /\ r <= k.next
    BY <1>1, <2>1 DEF Todo
  <2> QED BY <1>1, <1>2, <2>1, <2>2, RetriesLineage
<1>9. CASE TickRun
  <2> DEFINE t == Min(txn.todo)
  <2>1. txn.phase = "tasks" /\ t \in txn.todo
    BY <1>1, <1>9, NextTodo DEF TickRun
  <2>2. PICK e \in Executions(k, t, Results) : k' = e.k
    BY <1>9 DEF TickRun
  <2> HIDE DEF t
  <2>3. t \in Tasks
    BY <1>1, <2>1 DEF Todo
  <2> QED BY <1>1, <1>2, <2>2, <2>3, ExecutionsLineage
<1> QED BY <1>3, <1>4, <1>5, <1>6, <1>7, <1>8, <1>9

\* An operator's route.
LEMMA OperatorLineage ==
    ASSUME IInv, Lineage(k),
           (\E t \in Tasks : Operator(t)) \/ (\E r \in Runs : RetryRun(r) \/ ResumeRun(r))
    PROVE  Lineage(k') /\ disk' = k'
<1>1. Sound(k) /\ k \in Kernel /\ Numbered(k)
    BY DEF IInv, Sound
<1>2. ASSUME NEW L, Lineage(L), Edit(L) PROVE Lineage(k') /\ disk' = k'
    BY <1>2 DEF Edit, Handler
<1>3. ASSUME NEW t \in Tasks, Operator(t) PROVE Lineage(k') /\ disk' = k'
  <2>1. CASE Assign(t) \/ Reopen(t)
    BY <1>1, <1>2, <2>1, RequeueLineage DEF Assign, Reopen
  <2>2. CASE ReopenAndRun(t)
    BY <1>1, <1>2, <2>2, RequeueExecutedLineage DEF ReopenAndRun
  <2>3. CASE ExecuteTask(t)
    BY <1>1, <1>2, <2>3, ExecutionsLineage DEF ExecuteTask
  <2>4. CASE PrimeStartRun(t)
    <3> DEFINE S == StartRun(k, t)
    <3>1. PICK e \in Executions(S, t, Results) : Edit(e.k)
      BY <2>4 DEF PrimeStartRun
    <3>2. Sound(S) /\ Lineage(S)
      BY <1>1, <2>4, StartRunSound, StartRunLineage DEF PrimeStartRun
    <3> HIDE DEF S
    <3> QED BY <1>2, <3>1, <3>2, ExecutionsLineage
  <2>5. CASE \E s \in {"blocked", "cancelled"} : SetTaskStatus(t, s)
    <3>1. PICK s \in {"blocked", "cancelled"} : SetTaskStatus(t, s)
      BY <2>5
    <3> DEFINE L == [k EXCEPT !.task[t] = s]
    <3>2. Lineage(L) /\ Edit(L)
      BY <1>1, <3>1, BoardLineage DEF SetTaskStatus
    <3> HIDE DEF L
    <3> QED BY <1>2, <3>2
  <2> QED BY <1>3, <2>1, <2>2, <2>3, <2>4, <2>5 DEF Operator
<1>4. ASSUME NEW r \in Runs, RetryRun(r) \/ ResumeRun(r) PROVE Lineage(k') /\ disk' = k'
  <2>1. k.rstat[r] # "absent"
    BY <1>4 DEF RetryRun, ResumeRun, Failed
  <2>2. r <= k.next /\ k.rtask[r] \in Tasks
    BY <1>1, <2>1, KernelFields, KernelAssumption DEF Numbered, Runs
  <2>3. CASE RetryRun(r)
    BY <1>1, <1>2, <2>2, <2>3, RetriesLineage DEF RetryRun
  <2>4. CASE ResumeRun(r)
    <3> DEFINE t == k.rtask[r]
    <3>1. PICK e \in Executions(Requeue(k, t), t, Results \ {"unsupported", "dangling"}) : Edit(e.k)
      BY <2>4 DEF ResumeRun
    <3>2. t \in Tasks
      BY <2>2
    <3> HIDE DEF t
    <3> QED BY <1>1, <1>2, <3>1, <3>2, RequeueExecutedLineage
  <2> QED BY <1>4, <2>3, <2>4
<1> QED BY <1>3, <1>4

Lineages == Lineage(k) /\ Lineage(disk)

\* Every step keeps the retry states and the lineages in agreement.
LEMMA NextLineage == IInv /\ Lineages /\ [Next]_vars => Lineages'
<1> SUFFICES ASSUME IInv, Lineage(k), Lineage(disk), [Next]_vars
             PROVE  Lineage(k') /\ Lineage(disk')
    BY DEF Lineages
<1>1. k \in Kernel /\ Lock
    BY DEF IInv, TypeOK
<1>2. CASE LockHolder
  <2>1. CASE CommitPrepare \/ CommitTick
    BY <2>1 DEF CommitPrepare, CommitTick, Commit
  <2>2. CASE CommitMerge \/ CommitSync
    BY <1>1, <2>2, BoardLineage DEF CommitMerge, CommitSync, Commit
  <2>3. CASE \/ PropagatePass \/ PickBriefs \/ BriefInline \/ BriefPrepared \/ MergeBrief
             \/ NextRound \/ TickRetry \/ TickPick \/ TickRun
    BY <2>3, HolderLineage
  <2> QED BY <1>2, <2>1, <2>2, <2>3 DEF LockHolder
<1>3. ASSUME NEW o \in Orchs, Job(o) \/ BeginSync(o) PROVE k' = k /\ disk' = disk
    BY <1>3 DEF Job, Works, Locks, StartJob, JobCheck, JobRecords, BeginPrepare, Spawn, Panic,
       BeginMerge, Finish, BeginSync
<1>4. CASE BeginTick \/ RoundFails \/ SaveFails \/ Crash \/ SweepRead
    BY <1>4 DEF BeginTick, RoundFails, SaveFails, Crash, SweepRead
<1>5. CASE \E t \in Tasks : Operator(t)
    BY <1>5, OperatorLineage
<1>6. ASSUME NEW r \in Runs, OnRun(r) PROVE Lineage(k') /\ Lineage(disk')
  <2>1. CASE ProcEnds(r)
    BY <2>1 DEF ProcEnds
  <2>2. CASE RetryRun(r) \/ ResumeRun(r)
    BY <2>2, OperatorLineage
  <2>3. CASE Quiet(r)
    BY <1>1, <2>3, BoardLineage DEF Quiet
  <2> QED BY <1>6, <2>1, <2>2, <2>3 DEF OnRun
<1>7. CASE SweepRecover
    BY <1>1, <1>7, RecoveredLineage DEF SweepRecover, Handler
<1>8. CASE UNCHANGED vars
    BY <1>8 DEF vars
<1> QED BY <1>2, <1>3, <1>4, <1>5, <1>6, <1>7, <1>8 DEF Next

\* A retry is scheduled exactly where transient_attempt_for leaves one of
\* MAX_TRANSIENT_RETRIES, whoever failed, linked or retried the run.
THEOREM RetriesMatchLineages == Spec => []RetryMatchesLineage
<1>1. Init => Lineages
    BY DEF Init, FreshKernel, Lineage, Lineages
<1>2. Spec => []Lineages
    BY <1>1, NextLineage, KernelInvariant, PTL DEF Spec
<1>3. Lineages => RetryMatchesLineage
    BY DEF Lineages, Lineage, RetryMatchesLineage
<1> QED BY <1>2, <1>3, PTL
=============================================================================
