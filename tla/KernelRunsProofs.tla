--------------------------- MODULE KernelRunsProofs ---------------------------
(***************************************************************************)
(* Proofs about KernelRuns, for any tasks, orchestrations and bounds.      *)
(***************************************************************************)
EXTENDS KernelRuns, FiniteSetTheorems, WellFoundedInduction, TLAPS

-----------------------------------------------------------------------------
(* Least and greatest elements.                                            *)

\* A nonempty set of naturals has a least element.
LEMMA LeastExists ==
    ASSUME NEW S \in SUBSET Nat, S # {}
    PROVE  \E x \in S : \A y \in S : x <= y
<1> DEFINE R == OpToRel(<, Nat)
<1>1. IsWellFoundedOn(R, Nat)
    BY NatLessThanWellFounded
<1> HIDE DEF R
<1>2. PICK x \in S : \A y \in S : ~ (<<y, x>> \in R)
    BY <1>1, WFMin
<1>3. \A y \in S : y < x => <<y, x>> \in R
    BY Zenon DEF R, OpToRel
<1>4. \A y \in S : ~ (y < x)
    BY <1>2, <1>3, Zenon
<1> QED BY <1>4

\* Min picks it: the element of txn.todo that is handled next is one of them.
LEMMA MinIn ==
    ASSUME NEW S \in SUBSET Nat, S # {}
    PROVE  Min(S) \in S
BY LeastExists, Zenon DEF Min

\* A bounded nonempty set of naturals has a greatest element.
LEMMA GreatestExists ==
    ASSUME NEW n \in Nat, NEW S \in SUBSET (0 .. n), S # {}
    PROVE  \E x \in S : \A y \in S : x >= y
<1> DEFINE T == {y \in 0 .. n : n - y \in S}
<1>1. T \in SUBSET Nat
    OBVIOUS
<1>2. T # {}
  <2>1. PICK z \in S : TRUE
    OBVIOUS
  <2>2. n - z \in T
    OBVIOUS
  <2> QED BY <2>2
<1>3. PICK m \in T : \A y \in T : m <= y
    BY <1>1, <1>2, LeastExists
<1>4. \A y \in S : n - y \in T
    OBVIOUS
<1>5. \A y \in S : m <= n - y
    BY <1>3, <1>4
<1>6. n - m \in S /\ \A y \in S : n - m >= y
    BY <1>3, <1>5
<1> QED BY <1>6

\* The run an operator of the kernel calls newest is one of its candidates.
LEMMA NewestIn ==
    ASSUME NEW S \in SUBSET Runs, MaxRuns \in Nat
    PROVE  /\ Newest(S) \in Runs \cup {NoRun}
           /\ S # {} => Newest(S) \in S /\ \A r \in S : r <= Newest(S)
           /\ Newest(S) = NoRun <=> S = {}
<1>1. CASE S = {}
    BY <1>1 DEF Newest, NoRun, Runs
<1>2. CASE S # {}
  <2>1. \E x \in S : \A y \in S : x >= y
    <3>1. S \in SUBSET (0 .. MaxRuns)
      BY DEF Runs
    <3> QED BY <1>2, <3>1, GreatestExists
  <2>2. Max(S) \in S /\ \A y \in S : Max(S) >= y
    BY <2>1, Zenon DEF Max
  <2>3. Newest(S) = Max(S)
    BY <1>2 DEF Newest
  <2>4. \A r \in S : r \in 1 .. MaxRuns
    BY DEF Runs
  <2>5. Newest(S) \in S /\ \A y \in S : Newest(S) >= y
    BY <2>2, <2>3, Zenon
  <2>6. Newest(S) # NoRun /\ \A r \in S : r <= Newest(S)
    BY <2>4, <2>5 DEF NoRun
  <2> QED BY <1>2, <2>5, <2>6, Zenon
<1> QED BY <1>1, <1>2

-----------------------------------------------------------------------------
(* What every operator of the kernel preserves.                            *)

\* Runs are numbered in the order they start, and know their task.
Numbered(K) ==
    \A r \in Runs : /\ K.rstat[r] = "absent" <=> r > K.next
                    /\ r <= K.next => K.rtask[r] \in Tasks

QuietRuns(K) == \A r \in K.quiet : K.rstat[r] = "running"

Executing(K) ==
    \A t \in Tasks : K.task[t] = "running" =>
        \E r \in Runs : K.rstat[r] = "running" /\ K.rtask[r] = t

Descends(K) ==
    \A r \in Runs : K.from[r] # NoRun => K.from[r] < r /\ K.rstat[r] # "absent"

Earned(K) ==
    \A t \in Tasks : K.step[t] = "completed" =>
        \E r \in Runs : K.rstat[r] = "completed" /\ K.rtask[r] = t /\ r <= K.srun[t]

Sound(K) ==
    /\ K \in Kernel
    /\ Numbered(K) /\ QuietRuns(K) /\ Executing(K) /\ Descends(K) /\ Earned(K)

\* The states of a run whose execution has not had its say.
Unsettled == {"running", "stale"}

\* What a step does to the runs it finds.  They keep their number and their
\* task;
Grows(K, L) ==
    /\ K.next <= L.next
    /\ \A r \in Runs : r <= K.next => L.rtask[r] = K.rtask[r]

\* and, but for the merge of a run, the word of an execution stands: at most a
\* transient failure is planned anew.
Steady(K, L) ==
    \A r \in Runs : r <= K.next /\ K.rstat[r] \notin Unsettled =>
        L.rstat[r] = K.rstat[r] \/ {K.rstat[r], L.rstat[r]} \subseteq {"retry", "spent"}

Evolves(K, L) == Grows(K, L) /\ Steady(K, L)

SameBoard(K, L) == L.step = K.step /\ L.srun = K.srun /\ L.orch = K.orch

\* The fields of a kernel have their types.
LEMMA KernelFields ==
    ASSUME NEW K \in Kernel
    PROVE  /\ K.task \in [Tasks -> TaskStatus]
           /\ K.rtask \in [Runs -> Tasks \cup {0}]
           /\ K.rstat \in [Runs -> RunState]
           /\ K.from \in [Runs -> Runs \cup {NoRun}]
           /\ K.quiet \in SUBSET Runs
           /\ K.next \in 0 .. MaxRuns
           /\ K.step \in [Tasks -> StepOutcome]
           /\ K.srun \in [Tasks -> Runs \cup {NoRun}]
           /\ K.orch \in [Orchs -> OrchStatus]
BY DEF Kernel

\* The kernel of a new installation is sound.
LEMMA FreshSound == Sound(FreshKernel)
<1>1. FreshKernel \in Kernel
    BY KernelAssumption DEF FreshKernel, Kernel, TaskStatus, RunState, StepOutcome, OrchStatus, NoRun, Runs
<1>2. Numbered(FreshKernel) /\ QuietRuns(FreshKernel) /\ Executing(FreshKernel)
    BY KernelAssumption DEF FreshKernel, Numbered, QuietRuns, Executing, Runs
<1>3. Descends(FreshKernel) /\ Earned(FreshKernel)
    BY DEF FreshKernel, Descends, Earned
<1> QED BY <1>1, <1>2, <1>3 DEF Sound

\* Growth composes.
LEMMA GrowsTrans ==
    ASSUME NEW K \in Kernel, NEW L \in Kernel, NEW M \in Kernel,
           Grows(K, L), Grows(L, M)
    PROVE  Grows(K, M)
<1> USE KernelFields
<1>1. K.next \in Nat /\ L.next \in Nat /\ M.next \in Nat
    BY KernelAssumption
<1>2. K.next <= M.next
    BY <1>1 DEF Grows
<1>3. \A r \in Runs : r <= K.next => r <= L.next
    BY <1>1, KernelAssumption DEF Grows, Runs
<1> QED BY <1>2, <1>3 DEF Grows

\* A kernel grows into itself.
LEMMA GrowsRefl == ASSUME NEW K \in Kernel PROVE Grows(K, K)
BY KernelFields, KernelAssumption DEF Grows

\* The same for the stronger relation.
LEMMA EvolvesRefl == ASSUME NEW K \in Kernel PROVE Evolves(K, K)
BY GrowsRefl DEF Evolves, Steady

\* Evolutions compose.
LEMMA EvolvesTrans ==
    ASSUME NEW K \in Kernel, NEW L \in Kernel, NEW M \in Kernel,
           Evolves(K, L), Evolves(L, M)
    PROVE  Evolves(K, M)
<1>1. Grows(K, M)
    BY GrowsTrans DEF Evolves
<1>2. Steady(K, M)
  <2> SUFFICES ASSUME NEW r \in Runs, r <= K.next, K.rstat[r] \notin Unsettled
               PROVE  M.rstat[r] = K.rstat[r] \/ {K.rstat[r], M.rstat[r]} \subseteq {"retry", "spent"}
    BY DEF Steady
  <2>1. r <= L.next
    BY KernelFields, KernelAssumption DEF Evolves, Grows, Runs
  <2>2. L.rstat[r] = K.rstat[r] \/ {K.rstat[r], L.rstat[r]} \subseteq {"retry", "spent"}
    BY DEF Evolves, Steady
  <2>3. L.rstat[r] \notin Unsettled
    BY <2>2 DEF Unsettled
  <2> QED BY <2>1, <2>2, <2>3 DEF Evolves, Steady
<1> QED BY <1>1, <1>2 DEF Evolves

\* start_run: the new run gets the next number and is the task's active one.
LEMMA StartRunSound ==
    ASSUME NEW K, Sound(K), NEW t \in Tasks, K.next < MaxRuns
    PROVE  /\ Sound(StartRun(K, t)) /\ Evolves(K, StartRun(K, t)) /\ SameBoard(K, StartRun(K, t))
           /\ StartRun(K, t).next = K.next + 1
           /\ StartRun(K, t).rstat[K.next + 1] = "running" /\ StartRun(K, t).rtask[K.next + 1] = t
<1> DEFINE L == StartRun(K, t)
<1> DEFINE n == K.next + 1
<1>1. K \in Kernel /\ K.next \in Nat /\ n \in Runs
    BY KernelFields, KernelAssumption DEF Sound, Runs
<1>2. /\ L.next = n /\ L.rtask = [K.rtask EXCEPT ![n] = t]
      /\ L.rstat = [K.rstat EXCEPT ![n] = "running"] /\ L.task = [K.task EXCEPT ![t] = "running"]
      /\ L.from = K.from /\ L.quiet = K.quiet /\ SameBoard(K, L)
    BY <1>1 DEF StartRun, Kernel, SameBoard
<1>3. L \in Kernel
  <2>1. n \in 0 .. MaxRuns
    BY <1>1, KernelAssumption
  <2>2. "running" \in RunState /\ "running" \in TaskStatus
    BY DEF RunState, TaskStatus
  <2> HIDE DEF n
  <2> QED BY <1>1, <2>1, <2>2 DEF StartRun, Kernel, n
<1> HIDE DEF L
<1>4. Numbered(K) /\ QuietRuns(K) /\ Executing(K) /\ Descends(K) /\ Earned(K)
    BY DEF Sound
<1>5. K.rstat[n] = "absent"
    BY <1>1, <1>4 DEF Numbered
<1> USE <1>1, <1>2, <1>3, <1>4, <1>5, KernelFields
<1>6. Numbered(L)
  <2> SUFFICES ASSUME NEW r \in Runs
               PROVE  /\ L.rstat[r] = "absent" <=> r > L.next
                      /\ r <= L.next => L.rtask[r] \in Tasks
    BY DEF Numbered
  <2>1. CASE r = n
    BY <2>1
  <2>2. CASE r # n
    BY <2>2 DEF Numbered, Runs
  <2> QED BY <2>1, <2>2
<1>7. QuietRuns(L)
    BY DEF QuietRuns
<1>8. Executing(L)
    BY DEF Executing
<1>9. Descends(L)
    BY DEF Descends
<1>10. Earned(L)
    BY DEF Earned, SameBoard
<1>11. Evolves(K, L)
    BY DEF Evolves, Grows, Steady, Runs
<1> QED BY <1>6, <1>7, <1>8, <1>9, <1>10, <1>11 DEF Sound, L

\* The states an execution can leave its run in.
Endings == {"completed", "cancelled", "retry", "spent", "failed"}

\* Every way an execution can end has a run state, a task status and an outcome;
\* only "ok" completes the brief.
LEMMA EndingTypes ==
    ASSUME NEW K, NEW r, NEW res
    PROVE  /\ RunAfter(K, r, res) \in Endings
           /\ res = "ok" => RunAfter(K, r, res) = "completed"
           /\ TaskAfter(res) \in {"completed", "blocked", "failed"}
           /\ OutcomeAfter(res) \in {"completed", "blocked", "failed"}
           /\ OutcomeAfter(res) = "completed" <=> res = "ok"
<1>1. Planned(K, r) \in {"retry", "spent"}
    BY DEF Planned
<1>2. /\ RunAfter(K, r, res) \in Endings
      /\ res = "ok" => RunAfter(K, r, res) = "completed"
    BY <1>1, Zenon DEF RunAfter, Endings
<1>3. TaskAfter(res) \in {"completed", "blocked", "failed"}
    BY Zenon DEF TaskAfter
<1>4. /\ OutcomeAfter(res) \in {"completed", "blocked", "failed"}
      /\ OutcomeAfter(res) = "completed" <=> res = "ok"
  <2>1. CASE res = "ok"
    BY <2>1 DEF OutcomeAfter
  <2>2. CASE res \in {"config", "refused"}
    BY <2>2 DEF OutcomeAfter
  <2>3. CASE res # "ok" /\ res \notin {"config", "refused"}
    BY <2>3 DEF OutcomeAfter
  <2> QED BY <2>1, <2>2, <2>3
<1> QED BY <1>2, <1>3, <1>4

\* L is K with run r in state a and task t in status b.
Settled(K, L, r, t, a, b) ==
    /\ L \in Kernel
    /\ L.rstat = [K.rstat EXCEPT ![r] = a] /\ L.task = [K.task EXCEPT ![t] = b]
    /\ L.quiet = K.quiet \ {r}
    /\ L.next = K.next /\ L.rtask = K.rtask /\ L.from = K.from /\ SameBoard(K, L)

\* The update that settles a run.
LEMMA SettledUpdate ==
    ASSUME NEW K \in Kernel, NEW r \in Runs, NEW t \in Tasks, NEW a \in RunState,
           NEW b \in TaskStatus, NEW L,
           L = [K EXCEPT !.rstat[r] = a, !.task[t] = b, !.quiet = @ \ {r}]
    PROVE  Settled(K, L, r, t, a, b)
BY DEF Kernel, SameBoard, Settled

\* The fields of a settled kernel.
LEMMA SettleFields ==
    ASSUME NEW K \in Kernel, NEW r \in Runs, K.rtask[r] \in Tasks, NEW res, res # "dangling"
    PROVE  Settled(K, Settle(K, r, res), r, K.rtask[r], RunAfter(K, r, res), TaskAfter(res))
<1> DEFINE t == K.rtask[r]
<1> DEFINE a == RunAfter(K, r, res)
<1> DEFINE b == TaskAfter(res)
<1>1. t \in Tasks /\ a \in RunState /\ b \in TaskStatus
    BY EndingTypes DEF Endings, RunState, TaskStatus
<1>2. Settle(K, r, res) = [K EXCEPT !.rstat[r] = a, !.task[t] = b, !.quiet = @ \ {r}]
    BY DEF Settle
<1> HIDE DEF t, a, b
<1>3. Settled(K, Settle(K, r, res), r, t, a, b)
    BY <1>1, <1>2, SettledUpdate
<1> QED BY <1>3 DEF t, a, b

\* An execution settles the running run it was started for.
LEMMA SettleSound ==
    ASSUME NEW K, Sound(K), NEW r \in Runs, K.rstat[r] = "running", NEW res
    PROVE  /\ Sound(Settle(K, r, res)) /\ Evolves(K, Settle(K, r, res)) /\ SameBoard(K, Settle(K, r, res))
           /\ Settle(K, r, res).next = K.next /\ Settle(K, r, res).rtask = K.rtask
           /\ res = "ok" => Settle(K, r, res).rstat[r] = "completed"
<1> DEFINE L == Settle(K, r, res)
<1>1. K \in Kernel /\ Numbered(K) /\ QuietRuns(K) /\ Executing(K) /\ Descends(K) /\ Earned(K)
    BY DEF Sound
<1>2. r <= K.next /\ K.rtask[r] \in Tasks /\ K.next \in Nat
    BY <1>1, KernelFields, KernelAssumption DEF Numbered, Runs
<1>3. CASE res = "dangling"
  <2>1. L = [K EXCEPT !.quiet = @ \ {r}]
    BY <1>3 DEF Settle
  <2>2. /\ L \in Kernel /\ L.quiet = K.quiet \ {r} /\ L.rstat = K.rstat /\ L.task = K.task
        /\ L.rtask = K.rtask /\ L.from = K.from /\ L.next = K.next /\ SameBoard(K, L)
    BY <1>1, <2>1 DEF Kernel, SameBoard
  <2> HIDE DEF L
  <2>3. Numbered(L) /\ QuietRuns(L) /\ Executing(L) /\ Descends(L) /\ Earned(L)
    BY <1>1, <2>2 DEF Numbered, QuietRuns, Executing, Descends, Earned, SameBoard
  <2>4. Evolves(K, L)
    BY <1>2, <2>2 DEF Evolves, Grows, Steady
  <2> QED BY <1>3, <2>2, <2>3, <2>4 DEF Sound, L
<1>4. CASE res # "dangling"
  <2>0. Settled(K, L, r, K.rtask[r], RunAfter(K, r, res), TaskAfter(res))
    BY <1>1, <1>2, <1>4, SettleFields
  <2>1. /\ L \in Kernel /\ L.rstat = [K.rstat EXCEPT ![r] = RunAfter(K, r, res)]
        /\ L.task = [K.task EXCEPT ![K.rtask[r]] = TaskAfter(res)] /\ L.quiet = K.quiet \ {r}
        /\ L.next = K.next /\ L.rtask = K.rtask /\ L.from = K.from /\ SameBoard(K, L)
    BY <2>0 DEF Settled
  <2>2. /\ RunAfter(K, r, res) \in Endings /\ TaskAfter(res) # "running"
        /\ res = "ok" => RunAfter(K, r, res) = "completed"
    BY EndingTypes
  <2> HIDE DEF L
  <2> USE <1>1, <1>2, <2>1, <2>2, KernelFields
  <2>3. Numbered(L)
    BY DEF Numbered, Endings
  <2>4. QuietRuns(L)
    BY DEF QuietRuns
  <2>5. Executing(L)
    BY DEF Executing
  <2>6. Descends(L)
    BY DEF Descends, Endings
  <2>7. Earned(L)
    BY DEF Earned, SameBoard
  <2>8. Evolves(K, L)
    BY DEF Evolves, Grows, Steady, Endings, Unsettled
  <2> QED BY <2>3, <2>4, <2>5, <2>6, <2>7, <2>8 DEF Sound, L
<1> QED BY <1>3, <1>4

\* The active run of a task is a running run of it, if there is one.
LEMMA ActiveRunFacts ==
    ASSUME NEW K, NEW t
    PROVE  /\ ActiveRun(K, t) # NoRun =>
                 /\ ActiveRun(K, t) \in Runs /\ K.rtask[ActiveRun(K, t)] = t
                 /\ K.rstat[ActiveRun(K, t)] = "running"
           /\ ActiveRun(K, t) = NoRun =>
                 ~ \E r \in Runs : K.rstat[r] = "running" /\ K.rtask[r] = t
<1> DEFINE S == {r \in RunsOf(K, t) : K.rstat[r] = "running"}
<1>1. S \in SUBSET Runs
    BY DEF RunsOf
<1>2. ActiveRun(K, t) = Newest(S)
    BY DEF ActiveRun
<1>3. \A r \in S : r \in Runs /\ K.rtask[r] = t /\ K.rstat[r] = "running"
    BY DEF RunsOf
<1>4. \A r \in Runs : K.rstat[r] = "running" /\ K.rtask[r] = t => r \in S
    BY DEF RunsOf
<1> HIDE DEF S
<1>5. S # {} => Newest(S) \in S
    BY <1>1, NewestIn, KernelAssumption
<1>6. Newest(S) = NoRun <=> S = {}
    BY <1>1, NewestIn, KernelAssumption
<1> QED BY <1>2, <1>3, <1>4, <1>5, <1>6

\* The newest run of a task is a number no run of the task exceeds.
LEMMA NewestRunFacts ==
    ASSUME NEW K, NEW t
    PROVE  /\ NewestRun(K, t) \in Runs \cup {NoRun}
           /\ \A r \in Runs : K.rstat[r] # "absent" /\ K.rtask[r] = t => r <= NewestRun(K, t)
<1>1. RunsOf(K, t) \in SUBSET Runs
    BY DEF RunsOf
<1>2. \A r \in Runs : K.rstat[r] # "absent" /\ K.rtask[r] = t => r \in RunsOf(K, t)
    BY DEF RunsOf
<1>3. NewestRun(K, t) = Newest(RunsOf(K, t))
    BY DEF NewestRun
<1> QED BY <1>1, <1>2, <1>3, NewestIn, KernelAssumption

\* execute_assigned_run keeps the kernel sound, and says ok of a completed run.
LEMMA ExecutionsSound ==
    ASSUME NEW K, Sound(K), NEW t \in Tasks, NEW R, NEW e \in Executions(K, t, R)
    PROVE  /\ Sound(e.k) /\ Evolves(K, e.k) /\ SameBoard(K, e.k)
           /\ e.res = "ok" => \E r \in Runs : e.k.rstat[r] = "completed" /\ e.k.rtask[r] = t
<1> DEFINE queued == K.task[t] = "queued"
<1> DEFINE s == IF queued THEN StartRun(K, t) ELSE K
<1> DEFINE r == ActiveRun(s, t)
<1>0. K \in Kernel /\ Evolves(K, K) /\ SameBoard(K, K)
    BY EvolvesRefl DEF Sound, SameBoard
<1>1. \/ e = Ended(K, "refused") \/ e = Ended(K, "none")
      \/ /\ queued => K.next < MaxRuns
         /\ ~queued => r # NoRun
         /\ \E res \in R : e = Ended(Settle(s, r, res), res)
    BY DEF Executions
<1>2. CASE e = Ended(K, "refused") \/ e = Ended(K, "none")
  <2>1. e.k = K /\ e.res # "ok"
    BY <1>2 DEF Ended
  <2> QED BY <1>0, <2>1
<1>3. ASSUME queued => K.next < MaxRuns, ~queued => r # NoRun,
             NEW res \in R, e = Ended(Settle(s, r, res), res)
      PROVE  /\ Sound(e.k) /\ Evolves(K, e.k) /\ SameBoard(K, e.k)
             /\ e.res = "ok" => \E q \in Runs : e.k.rstat[q] = "completed" /\ e.k.rtask[q] = t
  <2>1. Sound(s) /\ Evolves(K, s) /\ SameBoard(K, s)
    BY <1>0, <1>3, StartRunSound
  <2>2. r # NoRun
    <3>1. CASE queued
      <4>1. /\ K.next + 1 \in Runs /\ s = StartRun(K, t)
        BY <1>0, <1>3, <3>1, KernelFields, KernelAssumption DEF Runs
      <4>2. s.rstat[K.next + 1] = "running" /\ s.rtask[K.next + 1] = t
        BY <1>3, <3>1, <4>1, StartRunSound
      <4> HIDE DEF s
      <4> QED BY <4>1, <4>2, ActiveRunFacts
    <3> QED BY <1>3, <3>1
  <2> HIDE DEF s
  <2>3. r \in Runs /\ s.rtask[r] = t /\ s.rstat[r] = "running"
    BY <2>2, ActiveRunFacts
  <2> HIDE DEF r
  <2>4. e.k = Settle(s, r, res) /\ e.res = res
    BY <1>3 DEF Ended
  <2>5. /\ Sound(e.k) /\ Evolves(s, e.k) /\ SameBoard(s, e.k)
        /\ e.k.rtask = s.rtask /\ (res = "ok" => e.k.rstat[r] = "completed")
    BY <2>1, <2>3, <2>4, SettleSound
  <2>6. Evolves(K, e.k)
    BY <1>0, <2>1, <2>5, EvolvesTrans DEF Sound
  <2>7. SameBoard(K, e.k)
    BY <2>1, <2>5 DEF SameBoard
  <2> QED BY <2>3, <2>4, <2>5, <2>6, <2>7
<1> HIDE DEF s, r, queued
<1> QED BY <1>1, <1>2, <1>3

\* Setting the status of a task to anything but Running keeps the kernel sound.
LEMMA StatusSound ==
    ASSUME NEW K, Sound(K), NEW t \in Tasks, NEW st \in TaskStatus \ {"running"}, NEW L,
           L = [K EXCEPT !.task[t] = st]
    PROVE  Sound(L) /\ Evolves(K, L) /\ SameBoard(K, L) /\ L.next = K.next /\ L.rtask = K.rtask
<1>1. K \in Kernel /\ Numbered(K) /\ QuietRuns(K) /\ Executing(K) /\ Descends(K) /\ Earned(K)
    BY DEF Sound
<1>2. /\ L \in Kernel /\ L.task = [K.task EXCEPT ![t] = st] /\ L.rstat = K.rstat
      /\ L.rtask = K.rtask /\ L.from = K.from /\ L.quiet = K.quiet /\ L.next = K.next
      /\ SameBoard(K, L)
    BY <1>1 DEF Kernel, SameBoard
<1>3. Numbered(L) /\ QuietRuns(L) /\ Descends(L) /\ Earned(L)
    BY <1>1, <1>2 DEF Numbered, QuietRuns, Descends, Earned, SameBoard
<1>4. Executing(L)
    BY <1>1, <1>2, KernelFields DEF Executing
<1>5. Evolves(K, L)
    BY <1>1, <1>2, KernelFields, KernelAssumption DEF Evolves, Grows, Steady
<1> QED BY <1>2, <1>3, <1>4, <1>5 DEF Sound

\* retry_run's link goes from the highest-numbered run to an earlier one.
LEMMA LinkSound ==
    ASSUME NEW K, Sound(K), NEW r \in Runs, r <= K.next
    PROVE  Sound(Link(K, r)) /\ Evolves(K, Link(K, r)) /\ SameBoard(K, Link(K, r))
<1> DEFINE n == K.next
<1>1. /\ K \in Kernel /\ Numbered(K) /\ QuietRuns(K) /\ Executing(K) /\ Descends(K) /\ Earned(K)
      /\ K.next \in Nat /\ n \in Runs
    BY KernelFields, KernelAssumption DEF Sound, Runs
<1>2. CASE n = r
    BY <1>1, <1>2, EvolvesRefl DEF Link, SameBoard
<1>3. CASE n # r
  <2> DEFINE M == Link(K, r)
  <2>1. \E a \in RunState :
           /\ a = K.rstat[n] \/ {a, K.rstat[n]} \subseteq {"retry", "spent"}
           /\ M \in Kernel /\ M.rstat = [K.rstat EXCEPT ![n] = a] /\ M.from = [K.from EXCEPT ![n] = r]
           /\ M.quiet = K.quiet \ {n} /\ M.task = K.task /\ M.rtask = K.rtask /\ M.next = K.next
           /\ SameBoard(K, M)
    <3>1. ASSUME NEW L, L = [K EXCEPT !.from[n] = r, !.quiet = @ \ {n}]
          PROVE  /\ L \in Kernel /\ L.rstat = K.rstat /\ L.from = [K.from EXCEPT ![n] = r]
                 /\ L.quiet = K.quiet \ {n} /\ L.task = K.task /\ L.rtask = K.rtask /\ L.next = K.next
                 /\ SameBoard(K, L)
      BY <1>1, <3>1 DEF Kernel, SameBoard
    <3> DEFINE L == [K EXCEPT !.from[n] = r, !.quiet = @ \ {n}]
    <3>3. Planned(L, n) \in {"retry", "spent"} /\ Planned(L, n) \in RunState
      BY DEF Planned, RunState
    <3>4. M = IF K.rstat[n] \in {"retry", "spent"} THEN [L EXCEPT !.rstat[n] = Planned(L, n)] ELSE L
      BY <1>3 DEF Link
    <3>5. K.rstat \in [Runs -> RunState]
      BY <1>1, KernelFields
    <3>6. /\ L \in Kernel /\ L.rstat = K.rstat /\ L.from = [K.from EXCEPT ![n] = r]
          /\ L.quiet = K.quiet \ {n} /\ L.task = K.task /\ L.rtask = K.rtask /\ L.next = K.next
          /\ SameBoard(K, L)
      BY <3>1
    <3> HIDE DEF L, M, n
    <3>7. CASE K.rstat[n] \in {"retry", "spent"}
      <4>1. M = [L EXCEPT !.rstat[n] = Planned(L, n)]
        BY <3>4, <3>7
      <4>2. /\ M \in Kernel /\ M.rstat = [L.rstat EXCEPT ![n] = Planned(L, n)] /\ M.from = L.from
            /\ M.quiet = L.quiet /\ M.task = L.task /\ M.rtask = L.rtask /\ M.next = L.next
            /\ SameBoard(L, M)
        <5> DEFINE p == Planned(L, n)
        <5>1. p \in RunState /\ M = [L EXCEPT !.rstat[n] = p]
          BY <3>3, <4>1
        <5> HIDE DEF p
        <5>2. /\ M \in Kernel /\ M.rstat = [L.rstat EXCEPT ![n] = p] /\ M.from = L.from
              /\ M.quiet = L.quiet /\ M.task = L.task /\ M.rtask = L.rtask /\ M.next = L.next
              /\ SameBoard(L, M)
          BY <1>1, <3>6, <5>1 DEF Kernel, SameBoard
        <5> QED BY <5>2 DEF p
      <4> QED BY <3>3, <3>6, <3>7, <4>2 DEF SameBoard
    <3>8. CASE K.rstat[n] \notin {"retry", "spent"}
      <4>1. K.rstat = [K.rstat EXCEPT ![n] = K.rstat[n]] /\ K.rstat[n] \in RunState
        BY <1>1, <3>5
      <4> QED BY <3>4, <3>6, <3>8, <4>1
    <3> QED BY <3>7, <3>8
  <2>2. PICK a \in RunState :
           /\ a = K.rstat[n] \/ {a, K.rstat[n]} \subseteq {"retry", "spent"}
           /\ M \in Kernel /\ M.rstat = [K.rstat EXCEPT ![n] = a] /\ M.from = [K.from EXCEPT ![n] = r]
           /\ M.quiet = K.quiet \ {n} /\ M.task = K.task /\ M.rtask = K.rtask /\ M.next = K.next
           /\ SameBoard(K, M)
    BY <2>1
  <2> HIDE DEF M
  <2> USE <1>1, <2>2, KernelFields
  <2>3. K.rstat[n] # "absent" /\ a # "absent"
    BY DEF Numbered
  <2>4. Numbered(M)
    BY <2>3 DEF Numbered
  <2>5. QuietRuns(M)
    BY DEF QuietRuns
  <2>6. Executing(M)
    BY DEF Executing
  <2>7. Descends(M)
    BY <1>3, <2>3 DEF Descends, Runs
  <2>8. Earned(M)
    BY DEF Earned, SameBoard
  <2>9. Evolves(K, M)
    BY DEF Evolves, Grows, Steady, Unsettled
  <2> QED BY <2>4, <2>5, <2>6, <2>7, <2>8, <2>9 DEF Sound, M
<1> QED BY <1>2, <1>3

\* retry_run as a whole.
LEMMA RetriesSound ==
    ASSUME NEW K, Sound(K), NEW r \in Runs, r <= K.next, NEW L \in Retries(K, r)
    PROVE  Sound(L) /\ Evolves(K, L) /\ SameBoard(K, L)
<1> DEFINE t == K.rtask[r]
<1> DEFINE Q == Requeue(K, t)
<1>1. K \in Kernel /\ t \in Tasks
    BY DEF Sound, Numbered
<1>2. "queued" \in TaskStatus \ {"running"}
    BY DEF TaskStatus
<1>3. Q = [K EXCEPT !.task[t] = "queued"]
    BY DEF Requeue
<1>4. PICK e \in Executions(Q, t, Results) : L = Link(e.k, r)
    BY DEF Retries
<1> HIDE DEF t, Q
<1>5. Sound(Q) /\ Evolves(K, Q) /\ SameBoard(K, Q)
    BY <1>1, <1>2, <1>3, StatusSound
<1>6. Sound(e.k) /\ Evolves(Q, e.k) /\ SameBoard(Q, e.k)
    BY <1>1, <1>5, ExecutionsSound
<1>7. Evolves(K, e.k) /\ SameBoard(K, e.k)
    BY <1>1, <1>5, <1>6, EvolvesTrans DEF Sound, SameBoard
<1>8. r <= e.k.next
    BY <1>1, <1>6, <1>7, KernelFields, KernelAssumption DEF Evolves, Grows, Steady, Sound, Runs
<1>9. Sound(L) /\ Evolves(e.k, L) /\ SameBoard(e.k, L)
    BY <1>4, <1>6, <1>8, LinkSound
<1> QED BY <1>1, <1>6, <1>7, <1>9, EvolvesTrans DEF Sound, SameBoard

\* The watchdog marks running runs and their tasks.
LEMMA RecoveredSound ==
    ASSUME NEW K, Sound(K), NEW live \in SUBSET Runs, NEW L, L = Recovered(K, live)
    PROVE  /\ Sound(L) /\ Evolves(K, L) /\ SameBoard(K, L)
           /\ L.next = K.next /\ L.rtask = K.rtask
<1> DEFINE stale == {r \in K.quiet : K.rstat[r] = "running" /\ r \notin live}
<1> DEFINE hit == {K.rtask[r] : r \in stale}
<1>1. /\ K \in Kernel /\ Numbered(K) /\ QuietRuns(K) /\ Executing(K) /\ Descends(K) /\ Earned(K)
    BY DEF Sound
<1>2. L = [K EXCEPT
             !.rstat = [r \in Runs |-> IF r \in stale THEN "stale" ELSE @[r]],
             !.task = [t \in Tasks |-> IF t \in hit /\ @[t] = "running" THEN "blocked" ELSE @[t]],
             !.quiet = @ \ stale]
    BY DEF Recovered
<1>3. /\ stale \subseteq Runs /\ \A r \in stale : K.rtask[r] \in hit
      /\ \A r \in stale : K.rstat[r] = "running" /\ r \in K.quiet /\ r \notin live
    BY <1>1, KernelFields
<1> HIDE DEF stale, hit
<1>4. /\ L.rstat = [r \in Runs |-> IF r \in stale THEN "stale" ELSE K.rstat[r]]
      /\ L.task = [t \in Tasks |-> IF t \in hit /\ K.task[t] = "running" THEN "blocked" ELSE K.task[t]]
      /\ L.quiet = K.quiet \ stale /\ L.rtask = K.rtask /\ L.from = K.from /\ L.next = K.next
      /\ SameBoard(K, L)
    BY <1>1, <1>2 DEF Kernel, SameBoard
<1>5. L \in Kernel
  <2>1. /\ [r \in Runs |-> IF r \in stale THEN "stale" ELSE K.rstat[r]] \in [Runs -> RunState]
        /\ [t \in Tasks |-> IF t \in hit /\ K.task[t] = "running" THEN "blocked" ELSE K.task[t]]
              \in [Tasks -> TaskStatus]
    BY <1>1, KernelFields DEF RunState, TaskStatus
  <2> QED BY <1>1, <1>2, <2>1 DEF Kernel
<1> USE <1>1, <1>3, <1>4, <1>5, KernelFields
<1>6. Numbered(L)
    BY DEF Numbered
<1>7. QuietRuns(L)
    BY DEF QuietRuns
<1>8. Executing(L)
    BY DEF Executing
<1>9. Descends(L)
    BY DEF Descends
<1>10. Earned(L)
    BY DEF Earned, SameBoard
<1>11. Evolves(K, L)
    BY KernelAssumption DEF Evolves, Grows, Steady, Unsettled
<1> QED BY <1>6, <1>7, <1>8, <1>9, <1>10, <1>11 DEF Sound

\* The fields that recording an outcome leaves alone.
LEMMA RecordFields ==
    ASSUME NEW K \in Kernel, NEW t \in Tasks, NEW res
    PROVE  /\ RecordOutcome(K, t, res) \in Kernel
           /\ RecordOutcome(K, t, res).step = [K.step EXCEPT ![t] = OutcomeAfter(res)]
           /\ RecordOutcome(K, t, res).srun = [K.srun EXCEPT ![t] = NewestRun(K, t)]
           /\ RecordOutcome(K, t, res).task = K.task /\ RecordOutcome(K, t, res).rtask = K.rtask
           /\ RecordOutcome(K, t, res).rstat = K.rstat /\ RecordOutcome(K, t, res).from = K.from
           /\ RecordOutcome(K, t, res).quiet = K.quiet /\ RecordOutcome(K, t, res).next = K.next
           /\ RecordOutcome(K, t, res).orch = K.orch
<1>1. OutcomeAfter(res) \in StepOutcome /\ NewestRun(K, t) \in Runs \cup {NoRun}
    BY EndingTypes, NewestRunFacts DEF StepOutcome
<1> DEFINE a == OutcomeAfter(res)
<1> DEFINE n == NewestRun(K, t)
<1> DEFINE L == RecordOutcome(K, t, res)
<1>3. L = [K EXCEPT !.step[t] = a, !.srun[t] = n] /\ a \in StepOutcome /\ n \in Runs \cup {NoRun}
    BY <1>1 DEF RecordOutcome
<1> HIDE DEF a, n, L
<1>4. /\ L \in Kernel /\ L.step = [K.step EXCEPT ![t] = a] /\ L.srun = [K.srun EXCEPT ![t] = n]
      /\ L.task = K.task /\ L.rtask = K.rtask /\ L.rstat = K.rstat /\ L.from = K.from
      /\ L.quiet = K.quiet /\ L.next = K.next /\ L.orch = K.orch
    BY <1>3 DEF Kernel
<1> QED BY <1>4 DEF a, n, L

\* An execution that says ok has left a completed run of the task.
Backed(K, t, res) ==
    res = "ok" => \E r \in Runs : K.rstat[r] = "completed" /\ K.rtask[r] = t

\* An outcome that says completed is backed by a completed run.
LEMMA RecordSound ==
    ASSUME NEW K, Sound(K), NEW t \in Tasks, NEW res, Backed(K, t, res)
    PROVE  /\ Sound(RecordOutcome(K, t, res)) /\ Evolves(K, RecordOutcome(K, t, res))
           /\ RecordOutcome(K, t, res).step = [K.step EXCEPT ![t] = OutcomeAfter(res)]
           /\ RecordOutcome(K, t, res).orch = K.orch
<1> DEFINE L == RecordOutcome(K, t, res)
<1>1. K \in Kernel /\ Numbered(K) /\ QuietRuns(K) /\ Executing(K) /\ Descends(K) /\ Earned(K)
    BY DEF Sound
<1>2. /\ L \in Kernel /\ L.step = [K.step EXCEPT ![t] = OutcomeAfter(res)]
      /\ L.srun = [K.srun EXCEPT ![t] = NewestRun(K, t)]
      /\ L.task = K.task /\ L.rtask = K.rtask /\ L.rstat = K.rstat /\ L.from = K.from
      /\ L.quiet = K.quiet /\ L.next = K.next /\ L.orch = K.orch
    BY <1>1, RecordFields
<1> HIDE DEF L
<1>3. Numbered(L) /\ QuietRuns(L) /\ Executing(L) /\ Descends(L)
    BY <1>1, <1>2 DEF Numbered, QuietRuns, Executing, Descends
<1>4. Earned(L)
  <2> SUFFICES ASSUME NEW u \in Tasks, L.step[u] = "completed"
               PROVE  \E r \in Runs : L.rstat[r] = "completed" /\ L.rtask[r] = u /\ r <= L.srun[u]
    BY DEF Earned
  <2>1. CASE u = t
    <3>1. OutcomeAfter(res) = "completed"
      BY <1>1, <1>2, <2>1, KernelFields
    <3>2. PICK r \in Runs : K.rstat[r] = "completed" /\ K.rtask[r] = t
      BY <3>1, EndingTypes DEF Backed
    <3>3. r <= NewestRun(K, t)
      BY <3>2, NewestRunFacts
    <3>4. L.srun[t] = NewestRun(K, t)
      BY <1>1, <1>2, KernelFields
    <3> QED BY <1>2, <2>1, <3>2, <3>3, <3>4
  <2>2. CASE u # t
    BY <1>1, <1>2, <2>2, KernelFields DEF Earned
  <2> QED BY <2>1, <2>2
<1>5. Evolves(K, L)
    BY <1>1, <1>2, KernelFields, KernelAssumption DEF Evolves, Grows, Steady
<1> QED BY <1>2, <1>3, <1>4, <1>5 DEF Sound, L

\* finalize_prepared_brief writes the run whatever its state is by then, and
\* the outcome of its brief with it.
LEMMA MergeSound ==
    ASSUME NEW K, Sound(K), NEW r \in Runs, r <= K.next, NEW res, res # "dangling",
           NEW L, L = RecordOutcome(Settle(K, r, res), K.rtask[r], res)
    PROVE  /\ Sound(L) /\ Grows(K, L) /\ L.orch = K.orch
           /\ L.step = [K.step EXCEPT ![K.rtask[r]] = OutcomeAfter(res)]
<1> DEFINE t == K.rtask[r]
<1> DEFINE S == Settle(K, r, res)
<1>1. /\ K \in Kernel /\ Numbered(K) /\ QuietRuns(K) /\ Executing(K) /\ Descends(K) /\ Earned(K)
      /\ t \in Tasks /\ K.next \in Nat
    BY KernelFields, KernelAssumption DEF Sound, Numbered
<1>2. Settled(K, S, r, t, RunAfter(K, r, res), TaskAfter(res))
    BY <1>1, SettleFields
<1>3. /\ S \in Kernel /\ S.rstat = [K.rstat EXCEPT ![r] = RunAfter(K, r, res)]
      /\ S.rtask = K.rtask /\ S.step = K.step /\ S.srun = K.srun /\ S.orch = K.orch
    BY <1>2 DEF Settled, SameBoard
<1>4. /\ RunAfter(K, r, res) \in Endings /\ TaskAfter(res) # "running"
      /\ res = "ok" => RunAfter(K, r, res) = "completed"
    BY EndingTypes
<1> HIDE DEF S, t
<1>5. /\ L \in Kernel /\ L.step = [S.step EXCEPT ![t] = OutcomeAfter(res)]
      /\ L.srun = [S.srun EXCEPT ![t] = NewestRun(S, t)]
      /\ L.task = S.task /\ L.rtask = S.rtask /\ L.rstat = S.rstat /\ L.from = S.from
      /\ L.quiet = S.quiet /\ L.next = S.next /\ L.orch = S.orch
  <2>1. L = RecordOutcome(S, t, res)
    BY DEF S, t
  <2> QED BY <1>1, <1>3, <2>1, RecordFields
<1>6. /\ L.task = [K.task EXCEPT ![t] = TaskAfter(res)] /\ L.quiet = K.quiet \ {r}
      /\ L.rstat = [K.rstat EXCEPT ![r] = RunAfter(K, r, res)]
      /\ L.next = K.next /\ L.rtask = K.rtask /\ L.from = K.from /\ L.orch = K.orch
      /\ L.step = [K.step EXCEPT ![t] = OutcomeAfter(res)]
      /\ L.srun = [K.srun EXCEPT ![t] = NewestRun(S, t)]
    BY <1>2, <1>5 DEF Settled, SameBoard
<1>7. K.rtask[r] = t
    BY DEF t
<1> USE <1>1, <1>4, <1>6, <1>7, KernelFields
<1>8. Numbered(L)
  <2>1. r <= K.next /\ K.rstat[r] # "absent" /\ L.rstat[r] # "absent"
    BY DEF Numbered, Endings, Runs
  <2>2. \A q \in Runs : q # r => L.rstat[q] = K.rstat[q]
    OBVIOUS
  <2>3. \A q \in Runs : L.rstat[q] = "absent" <=> K.rstat[q] = "absent"
    BY <2>1, <2>2
  <2> QED BY <2>3 DEF Numbered
<1>9. QuietRuns(L)
    BY DEF QuietRuns
<1>10. Executing(L)
    BY DEF Executing
<1>11. Descends(L)
    BY DEF Descends, Endings
<1>12. Earned(L)
  <2> SUFFICES ASSUME NEW u \in Tasks, L.step[u] = "completed"
               PROVE  \E q \in Runs : L.rstat[q] = "completed" /\ L.rtask[q] = u /\ q <= L.srun[u]
    BY DEF Earned
  <2>1. CASE u = t
    <3>1. res = "ok"
      BY <2>1, EndingTypes
    <3>2. L.rstat[r] = "completed" /\ L.rtask[r] = t /\ S.rstat[r] = "completed" /\ S.rtask[r] = t
      BY <1>3, <3>1
    <3>3. r <= NewestRun(S, t)
      BY <3>2, NewestRunFacts
    <3> QED BY <2>1, <3>2, <3>3
  <2>2. CASE u # t
    BY <2>2 DEF Earned
  <2> QED BY <2>1, <2>2
<1>13. Grows(K, L)
    BY DEF Grows
<1> QED BY <1>5, <1>8, <1>9, <1>10, <1>11, <1>12, <1>13 DEF Sound

\* Changes to the board and nothing else.
LEMMA BoardSound ==
    ASSUME NEW K, Sound(K), NEW L \in Kernel,
           L.task = K.task, L.rtask = K.rtask, L.rstat = K.rstat, L.from = K.from,
           L.quiet \subseteq K.quiet, L.next = K.next,
           \A t \in Tasks : L.step[t] = "completed" => K.step[t] = "completed" /\ L.srun[t] = K.srun[t]
    PROVE  Sound(L) /\ Evolves(K, L)
<1>1. K \in Kernel /\ Numbered(K) /\ QuietRuns(K) /\ Executing(K) /\ Descends(K) /\ Earned(K)
    BY DEF Sound
<1>2. Numbered(L) /\ QuietRuns(L) /\ Executing(L) /\ Descends(L)
    BY <1>1 DEF Numbered, QuietRuns, Executing, Descends
<1>3. Earned(L)
    BY <1>1 DEF Earned
<1>4. Evolves(K, L)
    BY <1>1, KernelFields, KernelAssumption DEF Evolves, Grows, Steady
<1> QED BY <1>2, <1>3, <1>4 DEF Sound

\* propagate_dependency_blocks blocks and completes nothing.
LEMMA BlockSound ==
    ASSUME NEW K, Sound(K), NEW S, NEW L, L = Block(K, S)
    PROVE  /\ Sound(L) /\ Evolves(K, L) /\ L.orch = K.orch
           /\ L.step = [t \in Tasks |-> IF t \in S THEN "blocked" ELSE K.step[t]]
<1>1. K \in Kernel
    BY DEF Sound
<1>2. [t \in Tasks |-> IF t \in S THEN "blocked" ELSE K.step[t]] \in [Tasks -> StepOutcome]
    BY <1>1, KernelFields DEF StepOutcome
<1>3. /\ L \in Kernel /\ L.step = [t \in Tasks |-> IF t \in S THEN "blocked" ELSE K.step[t]]
      /\ L.task = K.task /\ L.rtask = K.rtask /\ L.rstat = K.rstat /\ L.from = K.from
      /\ L.quiet = K.quiet /\ L.next = K.next /\ L.srun = K.srun /\ L.orch = K.orch
    BY <1>1, <1>2 DEF Block, Kernel
<1>4. \A t \in Tasks : L.step[t] = "completed" => K.step[t] = "completed" /\ L.srun[t] = K.srun[t]
    BY <1>3
<1> QED BY <1>3, <1>4, BoardSound

\* The status is the only thing finalize_orchestration_batch adds.
LEMMA WithStatusSound ==
    ASSUME NEW K, Sound(K), NEW o \in Orchs, NEW L, L = WithStatus(K, o)
    PROVE  /\ Sound(L) /\ Evolves(K, L) /\ L.step = K.step
           /\ L.orch = [K.orch EXCEPT ![o] = StatusOf(K, o)]
<1>1. K \in Kernel
    BY DEF Sound
<1>2. StatusOf(K, o) \in OrchStatus
    BY Zenon DEF StatusOf, OrchStatus
<1> DEFINE a == StatusOf(K, o)
<1>3. L = [K EXCEPT !.orch[o] = a] /\ a \in OrchStatus
    BY <1>2 DEF WithStatus
<1> HIDE DEF a
<1>4. /\ L \in Kernel /\ L.orch = [K.orch EXCEPT ![o] = a]
      /\ L.task = K.task /\ L.rtask = K.rtask /\ L.rstat = K.rstat /\ L.from = K.from
      /\ L.quiet = K.quiet /\ L.next = K.next /\ L.srun = K.srun /\ L.step = K.step
    BY <1>1, <1>3 DEF Kernel
<1> QED BY <1>4, BoardSound DEF a

\* The kernel in which brief t is handed to run r.
Handed(K, t, r) == [K EXCEPT !.srun[t] = r, !.quiet = @ \ {r}]

\* A prepared brief stays pending and its run shows a sign of life.
LEMMA PreparedSound ==
    ASSUME NEW K, Sound(K), NEW t \in Tasks, K.step[t] # "completed", NEW r \in Runs, NEW L,
           L = Handed(K, t, r)
    PROVE  /\ Sound(L) /\ Evolves(K, L) /\ L.step = K.step /\ L.orch = K.orch
           /\ L.rstat = K.rstat /\ L.rtask = K.rtask /\ L.next = K.next /\ r \notin L.quiet
<1>1. K \in Kernel
    BY DEF Sound
<1>2. /\ L \in Kernel /\ L.quiet = K.quiet \ {r} /\ L.srun = [K.srun EXCEPT ![t] = r]
      /\ L.task = K.task /\ L.rtask = K.rtask /\ L.rstat = K.rstat /\ L.from = K.from
      /\ L.next = K.next /\ L.step = K.step /\ L.orch = K.orch
    BY <1>1 DEF Kernel, Handed
<1>3. \A u \in Tasks : L.step[u] = "completed" => K.step[u] = "completed" /\ L.srun[u] = K.srun[u]
    BY <1>1, <1>2, KernelFields
<1>4. L.quiet \subseteq K.quiet /\ r \notin L.quiet
    BY <1>2
<1>5. Sound(L) /\ Evolves(K, L)
    BY <1>2, <1>3, <1>4, BoardSound
<1> QED BY <1>2, <1>4, <1>5

-----------------------------------------------------------------------------
(* The inductive invariant.                                                *)

\* Who holds the lock, and for which job.
Lock ==
    /\ LockFree => txn = NoTxn /\ k = disk
    /\ txn.op \in {"prepare", "merge", "sync"} => txn.orch \in Orchs
    /\ txn.op \in {"prepare", "sync"} => txn.phase \in {"propagate", "briefs"}
    /\ txn.op = "merge" => txn.phase = "propagate"
    /\ txn.op = "tick" => txn.phase \in {"retries", "tasks"}
    /\ txn.op = "prepare" => jobs[txn.orch].pc = "prepare"
    /\ txn.op = "merge" => /\ jobs[txn.orch].pc = "exec"
                            /\ \A r \in jobs[txn.orch].live : proc[r] # "live"

\* What the holder has still to do can still be done.
Todo ==
    /\ txn.phase = "briefs" => txn.todo \subseteq Ready(k, txn.orch)
    /\ txn.phase = "propagate" /\ txn.op # "merge" => txn.todo = {}
    /\ txn.op = "merge" => txn.todo \subseteq jobs[txn.orch].live
    /\ txn.phase = "retries" => \A r \in txn.todo : r \in Runs /\ r <= k.next
    /\ txn.phase = "tasks" => txn.todo \subseteq Tasks

\* The runs a prepare step will hand to its worker.
Prepared ==
    /\ txn.runs # {} => txn.op = "prepare"
    /\ \A r \in txn.runs : r <= k.next /\ OrchOf[k.rtask[r]] = txn.orch

\* A worker has runs in hand only in a round; they are its orchestration's.
\* They have tokens once they are spawned.
Worker(o) ==
    /\ jobs[o].state # "active" => jobs[o].pc = "idle"
    /\ jobs[o].pc \notin {"spawn", "exec", "finish"} => jobs[o].live = {}
    /\ \A r \in jobs[o].live : r <= disk.next /\ OrchOf[disk.rtask[r]] = o
    /\ jobs[o].pc = "exec" => jobs[o].live \subseteq tokens

Workers == \A o \in Orchs : Worker(o)

LiveProcs ==
    \A r \in Runs : proc[r] = "live" => \E o \in Orchs : jobs[o].pc = "exec" /\ r \in jobs[o].live

IInv ==
    /\ TypeOK
    /\ Sound(k) /\ Sound(disk) /\ Grows(disk, k)
    /\ Lock /\ Todo /\ Prepared
    /\ Workers /\ LiveProcs /\ NoTokenLeak

\* The initial state satisfies it.
LEMMA InitIInv == Init => IInv
<1> SUFFICES ASSUME Init PROVE IInv
    OBVIOUS
<1>1. Sound(k) /\ Sound(disk) /\ Grows(disk, k)
    BY FreshSound, GrowsRefl DEF Init, Sound
<1>2. TypeOK
  <2>1. k \in Kernel /\ disk \in Kernel
    BY <1>1 DEF Sound
  <2>2. txn \in Txn /\ jobs \in [Orchs -> JobRecord]
    BY DEF Init, NoTxn, Txn, NoJob, JobRecord
  <2>3. proc \in [Runs -> {"none", "live"} \cup ProcessEnd] /\ tokens \in SUBSET Runs
    BY DEF Init
  <2>4. sweep \in [on : BOOLEAN, seen : SUBSET Runs]
    BY DEF Init, NoSweep
  <2>5. leaky \in BOOLEAN
    BY Zenon DEF Init
  <2>6. upsets \in 0 .. MaxUpsets
    BY KernelAssumption DEF Init
  <2> QED BY <2>1, <2>2, <2>3, <2>4, <2>5, <2>6 DEF TypeOK
<1>3. Lock /\ Todo /\ Prepared
    BY DEF Init, Lock, Todo, Prepared, NoTxn, LockFree
<1>4. Workers /\ LiveProcs /\ NoTokenLeak
    BY DEF Init, Workers, Worker, LiveProcs, NoTokenLeak, InHand, NoJob, NoSweep
<1> QED BY <1>1, <1>2, <1>3, <1>4 DEF IInv

-----------------------------------------------------------------------------
(* Steps of the holder of the lock.                                        *)

\* What is next on the holder's list is on it.
LEMMA NextTodo ==
    ASSUME TypeOK, txn.todo # {}
    PROVE  Min(txn.todo) \in txn.todo
<1>1. txn.todo \in SUBSET (Tasks \cup Runs)
    BY DEF TypeOK, Txn
<1>2. \A x \in Tasks \cup Runs : x \in Nat
    BY KernelAssumption DEF Runs
<1>3. txn.todo \in SUBSET Nat
    BY <1>1, <1>2, Zenon
<1> QED BY <1>3, MinIn

\* A ready brief stays ready when another one's outcome is recorded.
LEMMA ReadyKeeps ==
    ASSUME NEW K \in Kernel, NEW o, NEW t \in Ready(K, o), NEW u \in Ready(K, o), u # t,
           NEW L, NEW a, L.step = [K.step EXCEPT ![t] = a]
    PROVE  u \in Ready(L, o)
<1>1. K.step \in [Tasks -> StepOutcome]
    BY KernelFields
<1>2. t \in Tasks /\ u \in Tasks /\ K.step[t] = "pending"
    BY DEF Ready, Briefs
<1>3. \A d \in Deps[u] : d \in Tasks
    BY <1>2, KernelAssumption
<1>4. L.step[u] = "pending"
    BY <1>1, <1>2 DEF Ready
<1>5. \A d \in Deps[u] : K.step[d] = "completed" /\ L.step[d] = "completed"
    BY <1>1, <1>2, <1>3 DEF Ready
<1> QED BY <1>4, <1>5 DEF Ready

\* The holder works on its own copy of the kernel and on its own list.
LEMMA HolderStep ==
    ASSUME IInv, ~LockFree, UNCHANGED << disk, memory, bounds >>,
           txn' \in Txn, txn'.op = txn.op, txn'.orch = txn.orch,
           \/ txn'.phase = txn.phase
           \/ txn.op \in {"prepare", "sync"} /\ txn'.phase \in {"propagate", "briefs"}
           \/ txn.op = "tick" /\ txn'.phase \in {"retries", "tasks"},
           Sound(k'), Grows(k, k'), Todo', Prepared'
    PROVE  IInv'
<1>1. TypeOK /\ Lock /\ Workers /\ LiveProcs /\ NoTokenLeak
    BY DEF IInv
<1>2. /\ disk' = disk /\ jobs' = jobs /\ proc' = proc /\ tokens' = tokens /\ sweep' = sweep
      /\ leaky' = leaky /\ upsets' = upsets
    BY DEF memory, bounds
<1>3. TypeOK'
  <2>1. k' \in Kernel
    BY DEF Sound
  <2> QED BY <1>1, <1>2, <2>1 DEF TypeOK
<1>4. Sound(disk') /\ Grows(disk', k')
    BY <1>2, GrowsTrans DEF IInv, Sound
<1>5. Lock'
    BY <1>1, <1>2 DEF Lock, LockFree
<1>6. Workers' /\ LiveProcs'
    BY <1>1, <1>2 DEF Workers, Worker, LiveProcs
<1>7. NoTokenLeak'
    BY <1>1, <1>2 DEF NoTokenLeak, InHand
<1> QED BY <1>3, <1>4, <1>5, <1>6, <1>7 DEF IInv

\* A prepared run stays as the worker expects it while the kernel evolves.
LEMMA PreparedRunsKeep ==
    ASSUME TypeOK, Prepared, Sound(k'), Grows(k, k'), NEW r \in txn.runs
    PROVE  r <= k'.next /\ OrchOf[k'.rtask[r]] = txn.orch
<1>1. k \in Kernel /\ k' \in Kernel /\ txn.runs \in SUBSET Runs
    BY DEF TypeOK, Sound, Txn
<1>2. k.next \in Nat /\ k'.next \in Nat /\ k.next <= k'.next
    BY <1>1, KernelFields, KernelAssumption DEF Grows
<1>3. r \in Runs /\ r \in Nat /\ r <= k.next /\ OrchOf[k.rtask[r]] = txn.orch
    BY <1>1, KernelAssumption DEF Prepared, Runs
<1>4. r <= k'.next
    BY <1>2, <1>3
<1>5. k'.rtask[r] = k.rtask[r]
    BY <1>3 DEF Grows
<1> QED BY <1>3, <1>4, <1>5

\* So a step that prepares no run keeps Prepared.
LEMMA PreparedKeeps ==
    ASSUME TypeOK, Prepared, Sound(k'), Grows(k, k'),
           txn'.runs = txn.runs, txn'.op = txn.op, txn'.orch = txn.orch
    PROVE  Prepared'
BY PreparedRunsKeep DEF Prepared

\* A pass of the propagation blocks pending briefs.
LEMMA PropagatePassStep == IInv /\ PropagatePass => IInv'
<1> SUFFICES ASSUME IInv, PropagatePass PROVE IInv'
    OBVIOUS
<1>1. TypeOK /\ Sound(k) /\ Lock /\ Todo /\ Prepared
    BY DEF IInv
<1>2. /\ txn.phase = "propagate" /\ txn.todo = {} /\ k' = Block(k, Blocking(k, txn.orch))
      /\ txn' = txn /\ UNCHANGED << disk, memory, bounds >>
    BY DEF PropagatePass, Propagating
<1>3. Sound(k') /\ Grows(k, k')
    BY <1>1, <1>2, BlockSound DEF Evolves
<1>4. ~LockFree
    BY <1>1, <1>2 DEF Lock, LockFree, NoTxn
<1>5. txn' \in Txn
    BY <1>1, <1>2 DEF TypeOK
<1>6. Todo'
  <2>1. jobs' = jobs
    BY <1>2 DEF memory
  <2> QED BY <1>1, <1>2, <2>1 DEF Todo
<1>7. Prepared'
    BY <1>1, <1>2, <1>3, PreparedKeeps
<1> QED BY <1>2, <1>3, <1>4, <1>5, <1>6, <1>7, HolderStep

\* The briefs of a round are ready.
LEMMA PickBriefsStep == IInv /\ PickBriefs => IInv'
<1> SUFFICES ASSUME IInv, PickBriefs PROVE IInv'
    OBVIOUS
<1>1. TypeOK /\ Sound(k) /\ Lock /\ Todo /\ Prepared
    BY DEF IInv
<1> DEFINE picked == Round
<1> DEFINE m == Min({Concurrency, Budget - Spent})
<1>2. /\ txn.op \in {"prepare", "sync"} /\ txn.phase = "propagate"
      /\ txn' = [txn EXCEPT !.phase = "briefs", !.todo = picked, !.ran = @ + Cardinality(picked)]
      /\ k' = k /\ UNCHANGED << disk, memory, bounds >>
    BY DEF PickBriefs, Propagating
<1>3. picked \subseteq Ready(k, txn.orch) /\ picked \subseteq Tasks
    BY DEF Round, FirstN, Ready, Briefs
<1>4. Cardinality(picked) \in Nat
  <2>1. IsFiniteSet(picked)
    BY <1>3, KernelAssumption, FS_Subset
  <2> QED BY <2>1, FS_CardinalityType
<1> HIDE DEF picked
<1>5. /\ txn' \in Txn /\ txn'.op = txn.op /\ txn'.orch = txn.orch /\ txn'.phase = "briefs"
      /\ txn'.todo = picked /\ txn'.runs = txn.runs
  <2> DEFINE n == txn.ran + Cardinality(picked)
  <2>1. n \in Nat /\ picked \in SUBSET (Tasks \cup Runs) /\ txn \in Txn
    BY <1>1, <1>3, <1>4 DEF TypeOK, Txn
  <2>2. txn' = [txn EXCEPT !.phase = "briefs", !.todo = picked, !.ran = n]
    BY <1>2
  <2> HIDE DEF n
  <2> QED BY <2>1, <2>2 DEF Txn
<1>6. Sound(k') /\ Grows(k, k')
    BY <1>1, <1>2, GrowsRefl DEF Sound
<1>7. Todo'
    BY <1>2, <1>3, <1>5 DEF Todo
<1>8. Prepared'
    BY <1>1, <1>5, <1>6, PreparedKeeps
<1>9. ~LockFree
    BY <1>2 DEF LockFree
<1> QED BY <1>2, <1>5, <1>6, <1>7, <1>8, <1>9, HolderStep

\* A brief that ends under the lock is recorded with its outcome.
LEMMA BriefInlineStep == IInv /\ BriefInline => IInv'
<1> SUFFICES ASSUME IInv, BriefInline PROVE IInv'
    OBVIOUS
<1>1. TypeOK /\ Sound(k) /\ Lock /\ Todo /\ Prepared /\ k \in Kernel
    BY DEF IInv, Sound
<1> DEFINE t == Min(txn.todo)
<1>2. /\ txn.phase = "briefs" /\ t \in txn.todo /\ txn' = [txn EXCEPT !.todo = @ \ {t}]
      /\ UNCHANGED << disk, memory, bounds >>
    BY <1>1, NextTodo DEF BriefInline
<1>3. PICK e \in Executions(k, t, Results) : k' = RecordOutcome(e.k, t, e.res)
    BY DEF BriefInline
<1> HIDE DEF t
<1>4. /\ txn' \in Txn /\ txn'.op = txn.op /\ txn'.orch = txn.orch /\ txn'.phase = txn.phase
      /\ txn'.todo = txn.todo \ {t} /\ txn'.runs = txn.runs
    BY <1>1, <1>2 DEF TypeOK, Txn
<1>5. txn.todo \subseteq Ready(k, txn.orch) /\ t \in Tasks
    BY <1>1, <1>2 DEF Todo, Ready, Briefs
<1>6. /\ Sound(e.k) /\ Grows(k, e.k) /\ e.k.step = k.step
      /\ e.res = "ok" => \E r \in Runs : e.k.rstat[r] = "completed" /\ e.k.rtask[r] = t
    BY <1>1, <1>3, <1>5, ExecutionsSound DEF SameBoard, Evolves
<1>7. Sound(k') /\ Grows(e.k, k') /\ k'.step = [k.step EXCEPT ![t] = OutcomeAfter(e.res)]
  <2> DEFINE M == e.k
  <2> DEFINE res == e.res
  <2>1. /\ Sound(M) /\ M.step = k.step
        /\ Backed(M, t, res)
    BY <1>6 DEF Backed
  <2>2. k' = RecordOutcome(M, t, res)
    BY <1>3
  <2> HIDE DEF M, res
  <2>3. /\ Sound(RecordOutcome(M, t, res)) /\ Grows(M, RecordOutcome(M, t, res))
        /\ RecordOutcome(M, t, res).step = [M.step EXCEPT ![t] = OutcomeAfter(res)]
    BY <1>5, <2>1, RecordSound DEF Evolves
  <2> QED BY <2>1, <2>2, <2>3 DEF M, res
<1>8. Grows(k, k')
    BY <1>1, <1>6, <1>7, GrowsTrans DEF Sound
<1>9. Todo'
  <2>1. \A u \in txn.todo \ {t} : u \in Ready(k', txn.orch)
    BY <1>1, <1>2, <1>5, <1>7, ReadyKeeps
  <2>2. txn.op # "merge"
    BY <1>1, <1>2 DEF Lock
  <2> QED BY <1>2, <1>4, <2>1, <2>2 DEF Todo
<1>10. Prepared'
    BY <1>1, <1>4, <1>7, <1>8, PreparedKeeps
<1>11. ~LockFree
    BY <1>1, <1>2 DEF Lock, LockFree, NoTxn
<1> QED BY <1>2, <1>4, <1>7, <1>8, <1>9, <1>10, <1>11, HolderStep

\* A brief that will run off the lock gets a run of its orchestration.
LEMMA BriefPreparedStep == IInv /\ BriefPrepared => IInv'
<1> SUFFICES ASSUME IInv, BriefPrepared PROVE IInv'
    OBVIOUS
<1>1. TypeOK /\ Sound(k) /\ Lock /\ Todo /\ Prepared /\ k \in Kernel
    BY DEF IInv, Sound
<1> DEFINE t == Min(txn.todo)
<1> DEFINE s == IF k.task[t] = "queued" THEN StartRun(k, t) ELSE k
<1> DEFINE r == ActiveRun(s, t)
<1>2. /\ txn.op = "prepare" /\ txn.phase = "briefs" /\ t \in txn.todo
      /\ k.task[t] = "queued" => k.next < MaxRuns
      /\ r # NoRun
      /\ k' = [s EXCEPT !.srun[t] = r, !.quiet = @ \ {r}]
      /\ txn' = [txn EXCEPT !.todo = @ \ {t}, !.runs = @ \cup {r}]
      /\ UNCHANGED << disk, memory, bounds >>
    BY <1>1, NextTodo DEF BriefPrepared
<1>3. t \in Ready(k, txn.orch)
    BY <1>1, <1>2 DEF Todo
<1>4. t \in Tasks /\ OrchOf[t] = txn.orch /\ k.step[t] = "pending"
    BY <1>3 DEF Ready, Briefs
<1> HIDE DEF t
<1>5. Sound(s) /\ Grows(k, s) /\ SameBoard(k, s)
  <2>1. Grows(k, k) /\ SameBoard(k, k)
    BY <1>1, GrowsRefl DEF SameBoard
  <2> QED BY <1>1, <1>2, <1>4, <2>1, StartRunSound DEF Evolves
<1> HIDE DEF s
<1>6. r \in Runs /\ s.rtask[r] = t /\ s.rstat[r] = "running"
    BY <1>2, ActiveRunFacts
<1> HIDE DEF r
<1>7. /\ Sound(k') /\ Grows(s, k') /\ k'.step = s.step /\ k'.rstat = s.rstat
      /\ k'.rtask = s.rtask /\ k'.next = s.next /\ r \notin k'.quiet
  <2>1. s.step[t] # "completed"
    BY <1>4, <1>5 DEF SameBoard
  <2>2. k' = Handed(s, t, r)
    BY <1>2 DEF Handed
  <2> QED BY <1>4, <1>5, <1>6, <2>1, <2>2, PreparedSound DEF Evolves
<1>8. Grows(k, k') /\ k'.step = k.step
    BY <1>1, <1>5, <1>7, GrowsTrans DEF Sound, SameBoard
<1>9. /\ txn' \in Txn /\ txn'.op = txn.op /\ txn'.orch = txn.orch /\ txn'.phase = txn.phase
      /\ txn'.todo = txn.todo \ {t} /\ txn'.runs = txn.runs \cup {r}
    BY <1>1, <1>2, <1>6 DEF TypeOK, Txn
<1>10. Todo'
  <2>1. Ready(k', txn.orch) = Ready(k, txn.orch)
    BY <1>8 DEF Ready
  <2> QED BY <1>1, <1>2, <1>9, <2>1 DEF Todo
<1>11. Prepared'
  <2>1. r <= k'.next
    BY <1>6, <1>7 DEF Sound, Numbered, Kernel, Runs
  <2>2. OrchOf[k'.rtask[r]] = txn.orch
    BY <1>4, <1>6, <1>7
  <2>3. \A q \in txn.runs : q <= k'.next /\ OrchOf[k'.rtask[q]] = txn.orch
    BY <1>1, <1>7, <1>8, PreparedRunsKeep
  <2> QED BY <1>2, <1>9, <2>1, <2>2, <2>3 DEF Prepared
<1>12. ~LockFree
    BY <1>2 DEF LockFree
<1> QED BY <1>2, <1>7, <1>8, <1>9, <1>10, <1>11, <1>12, HolderStep

\* The merge settles the runs its worker has in hand.
LEMMA MergeBriefStep == IInv /\ MergeBrief => IInv'
<1> SUFFICES ASSUME IInv, MergeBrief PROVE IInv'
    OBVIOUS
<1>1. /\ TypeOK /\ Sound(k) /\ Lock /\ Todo /\ Prepared /\ Workers /\ Grows(disk, k)
      /\ k \in Kernel /\ disk \in Kernel
    BY DEF IInv, Sound
<1> DEFINE r == Min(txn.todo)
<1> DEFINE res == proc[r]
<1>2. /\ txn.op = "merge" /\ r \in txn.todo
      /\ k' = RecordOutcome(Settle(k, r, res), k.rtask[r], res)
      /\ txn' = [txn EXCEPT !.todo = @ \ {r}]
      /\ UNCHANGED << disk, memory, bounds >>
    BY <1>1, NextTodo DEF MergeBrief
<1> HIDE DEF r
<1>3. /\ txn.orch \in Orchs /\ txn.todo \subseteq jobs[txn.orch].live /\ txn.phase = "propagate"
      /\ jobs[txn.orch].live \subseteq Runs
    BY <1>1, <1>2 DEF Lock, Todo, TypeOK, JobRecord
<1>4. r \in Runs /\ r <= disk.next
    BY <1>1, <1>2, <1>3 DEF Workers, Worker
<1>5. r <= k.next
    BY <1>1, <1>4, KernelFields, KernelAssumption DEF Grows, Runs
<1>6. res # "dangling"
    BY <1>1, <1>4 DEF TypeOK, ProcessEnd
<1> HIDE DEF res
<1>7. Sound(k') /\ Grows(k, k')
  <2>1. ASSUME NEW L, L = RecordOutcome(Settle(k, r, res), k.rtask[r], res)
        PROVE  Sound(L) /\ Grows(k, L)
    BY <1>1, <1>4, <1>5, <1>6, <2>1, MergeSound
  <2> QED BY <1>2, <2>1
<1>8. /\ txn' \in Txn /\ txn'.op = txn.op /\ txn'.orch = txn.orch /\ txn'.phase = txn.phase
      /\ txn'.todo = txn.todo \ {r} /\ txn'.runs = txn.runs
    BY <1>1, <1>2 DEF TypeOK, Txn
<1>9. Todo'
  <2>1. jobs' = jobs
    BY <1>2 DEF memory
  <2> QED BY <1>2, <1>3, <1>8, <2>1 DEF Todo
<1>10. Prepared'
    BY <1>1, <1>7, <1>8, PreparedKeeps
<1>11. ~LockFree
    BY <1>2 DEF LockFree
<1> QED BY <1>2, <1>7, <1>8, <1>9, <1>10, <1>11, HolderStep

\* The synchronous batch goes on to its next round.
LEMMA NextRoundStep == IInv /\ NextRound => IInv'
<1> SUFFICES ASSUME IInv, NextRound PROVE IInv'
    OBVIOUS
<1>1. TypeOK /\ Sound(k) /\ Prepared
    BY DEF IInv
<1>2. /\ txn.op = "sync" /\ txn.todo = {} /\ txn' = [txn EXCEPT !.phase = "propagate"]
      /\ k' = k /\ UNCHANGED << disk, memory, bounds >>
    BY DEF NextRound
<1>3. /\ txn' \in Txn /\ txn'.op = txn.op /\ txn'.orch = txn.orch /\ txn'.phase = "propagate"
      /\ txn'.todo = {} /\ txn'.runs = txn.runs
    BY <1>1, <1>2 DEF TypeOK, Txn
<1>4. Sound(k') /\ Grows(k, k')
    BY <1>1, <1>2, GrowsRefl DEF Sound
<1>5. Todo'
    BY <1>2, <1>3 DEF Todo
<1>6. Prepared'
    BY <1>1, <1>3, <1>4, PreparedKeeps
<1>7. ~LockFree
    BY <1>2 DEF LockFree
<1> QED BY <1>2, <1>3, <1>4, <1>5, <1>6, <1>7, HolderStep

\* A tick retries a run that exists.
LEMMA TickRetryStep == IInv /\ TickRetry => IInv'
<1> SUFFICES ASSUME IInv, TickRetry PROVE IInv'
    OBVIOUS
<1>1. TypeOK /\ Sound(k) /\ Lock /\ Todo /\ Prepared /\ k \in Kernel
    BY DEF IInv, Sound
<1> DEFINE r == Min(txn.todo)
<1>2. /\ txn.phase = "retries" /\ r \in txn.todo /\ k' \in Retries(k, r)
      /\ txn' = [txn EXCEPT !.todo = @ \ {r}] /\ UNCHANGED << disk, memory, bounds >>
    BY <1>1, NextTodo DEF TickRetry
<1> HIDE DEF r
<1>3. r \in Runs /\ r <= k.next
    BY <1>1, <1>2 DEF Todo
<1>4. Sound(k') /\ Grows(k, k')
    BY <1>1, <1>2, <1>3, RetriesSound DEF Evolves
<1>5. /\ txn' \in Txn /\ txn'.op = txn.op /\ txn'.orch = txn.orch /\ txn'.phase = txn.phase
      /\ txn'.todo = txn.todo \ {r} /\ txn'.runs = txn.runs
    BY <1>1, <1>2 DEF TypeOK, Txn
<1>6. Todo'
  <2>1. \A q \in txn.todo : q \in Runs /\ q <= k.next
    BY <1>1, <1>2 DEF Todo
  <2>2. k.next \in Nat /\ k'.next \in Nat /\ k.next <= k'.next
    BY <1>1, <1>4, KernelFields, KernelAssumption DEF Grows, Sound
  <2>3. \A q \in txn.todo : q \in Runs /\ q <= k'.next
    BY <2>1, <2>2, KernelAssumption DEF Runs
  <2>4. txn.op # "merge"
    BY <1>1, <1>2 DEF Lock
  <2> QED BY <1>2, <1>5, <2>3, <2>4 DEF Todo
<1>7. Prepared'
    BY <1>1, <1>4, <1>5, PreparedKeeps
<1>8. ~LockFree
    BY <1>1, <1>2 DEF Lock, LockFree, NoTxn
<1> QED BY <1>2, <1>4, <1>5, <1>6, <1>7, <1>8, HolderStep

\* A tick goes on to the queued tasks.
LEMMA TickPickStep == IInv /\ TickPick => IInv'
<1> SUFFICES ASSUME IInv, TickPick PROVE IInv'
    OBVIOUS
<1>1. TypeOK /\ Sound(k) /\ Lock /\ Prepared
    BY DEF IInv
<1> DEFINE picked == FirstN({t \in Tasks : k.task[t] = "queued"}, MaxPerTick)
<1>2. /\ txn.phase = "retries" /\ txn' = [txn EXCEPT !.phase = "tasks", !.todo = picked]
      /\ k' = k /\ UNCHANGED << disk, memory, bounds >>
    BY DEF TickPick
<1>3. picked \subseteq Tasks
    BY DEF FirstN
<1> HIDE DEF picked
<1>4. /\ txn' \in Txn /\ txn'.op = txn.op /\ txn'.orch = txn.orch /\ txn'.phase = "tasks"
      /\ txn'.todo = picked /\ txn'.runs = txn.runs
    BY <1>1, <1>2, <1>3 DEF TypeOK, Txn
<1>5. Sound(k') /\ Grows(k, k')
    BY <1>1, <1>2, GrowsRefl DEF Sound
<1>6. txn.op = "tick"
    BY <1>1, <1>2 DEF Lock, LockFree, TypeOK, Txn, NoTxn
<1>7. Todo'
    BY <1>3, <1>4, <1>6 DEF Todo
<1>8. Prepared'
    BY <1>1, <1>4, <1>5, PreparedKeeps
<1>9. ~LockFree
    BY <1>6 DEF LockFree
<1> QED BY <1>2, <1>4, <1>5, <1>6, <1>7, <1>8, <1>9, HolderStep

\* A tick executes a task.
LEMMA TickRunStep == IInv /\ TickRun => IInv'
<1> SUFFICES ASSUME IInv, TickRun PROVE IInv'
    OBVIOUS
<1>1. TypeOK /\ Sound(k) /\ Lock /\ Todo /\ Prepared
    BY DEF IInv
<1> DEFINE t == Min(txn.todo)
<1>2. /\ txn.phase = "tasks" /\ t \in txn.todo /\ txn' = [txn EXCEPT !.todo = @ \ {t}]
      /\ UNCHANGED << disk, memory, bounds >>
    BY <1>1, NextTodo DEF TickRun
<1>3. PICK e \in Executions(k, t, Results) : k' = e.k
    BY DEF TickRun
<1> HIDE DEF t
<1>4. txn.todo \subseteq Tasks /\ t \in Tasks
    BY <1>1, <1>2 DEF Todo
<1>5. Sound(k') /\ Grows(k, k')
    BY <1>1, <1>3, <1>4, ExecutionsSound DEF Evolves
<1>6. /\ txn' \in Txn /\ txn'.op = txn.op /\ txn'.orch = txn.orch /\ txn'.phase = txn.phase
      /\ txn'.todo = txn.todo \ {t} /\ txn'.runs = txn.runs
    BY <1>1, <1>2 DEF TypeOK, Txn
<1>7. txn.op = "tick"
    BY <1>1, <1>2 DEF Lock, LockFree, TypeOK, Txn, NoTxn
<1>8. Todo'
    BY <1>2, <1>4, <1>6, <1>7 DEF Todo
<1>9. Prepared'
    BY <1>1, <1>5, <1>6, PreparedKeeps
<1>10. ~LockFree
    BY <1>7 DEF LockFree
<1> QED BY <1>2, <1>5, <1>6, <1>8, <1>9, <1>10, HolderStep

-----------------------------------------------------------------------------
(* Steps that publish a kernel.                                            *)

\* A worker that does nothing still has its runs when another kernel is saved.
LEMMA WorkerKeeps ==
    ASSUME TypeOK, NEW o \in Orchs, Worker(o), jobs'[o] = jobs[o],
           disk' \in Kernel, Grows(disk, disk'), jobs[o].live \cap tokens \subseteq tokens'
    PROVE  Worker(o)'
<1>1. disk \in Kernel /\ jobs[o].live \subseteq Runs
    BY DEF TypeOK, JobRecord
<1>2. disk.next \in Nat /\ disk'.next \in Nat /\ disk.next <= disk'.next
    BY <1>1, KernelFields, KernelAssumption DEF Grows
<1>3. \A r \in jobs[o].live : r <= disk'.next /\ disk'.rtask[r] = disk.rtask[r]
  <2> SUFFICES ASSUME NEW r \in jobs[o].live
               PROVE  r <= disk'.next /\ disk'.rtask[r] = disk.rtask[r]
    OBVIOUS
  <2>1. r \in Runs /\ r \in Nat /\ r <= disk.next
    BY <1>1, KernelAssumption DEF Worker, Runs
  <2>2. r <= disk'.next
    BY <1>2, <2>1
  <2> QED BY <2>1, <2>2 DEF Grows
<1> QED BY <1>3 DEF Worker

\* A step that only publishes a kernel and frees the lock.
LEMMA PublishStep ==
    ASSUME IInv, Sound(disk'), Grows(disk, disk'), k' = disk', txn' = NoTxn,
           UNCHANGED << jobs, proc, tokens, leaky >>,
           sweep' \in [on : BOOLEAN, seen : SUBSET Runs], upsets' \in 0 .. MaxUpsets
    PROVE  IInv'
<1>1. TypeOK /\ Workers /\ LiveProcs /\ NoTokenLeak
    BY DEF IInv
<1>2. disk' \in Kernel
    BY DEF Sound
<1>3. NoTxn \in Txn
    BY DEF NoTxn, Txn
<1>4. TypeOK'
    BY <1>1, <1>2, <1>3 DEF TypeOK
<1>5. Sound(k') /\ Grows(disk', k')
    BY <1>2, GrowsRefl
<1>6. Lock' /\ Todo' /\ Prepared'
    BY DEF Lock, Todo, Prepared, NoTxn, LockFree
<1>7. Workers'
    BY <1>1, <1>2, WorkerKeeps DEF Workers
<1>8. LiveProcs' /\ NoTokenLeak'
    BY <1>1 DEF LiveProcs, NoTokenLeak, InHand
<1> QED BY <1>4, <1>5, <1>6, <1>7, <1>8 DEF IInv

\* A route of the operator.
LEMMA EditStep ==
    ASSUME IInv, NEW L, Sound(L), Grows(k, L), Edit(L)
    PROVE  IInv'
<1>1. /\ LockFree /\ k' = L /\ disk' = L /\ txn' = txn /\ upsets < MaxUpsets /\ upsets' = upsets + 1
      /\ UNCHANGED << memory, leaky >>
    BY DEF Edit, Handler, Upset
<1>2. txn = NoTxn /\ k = disk
    BY <1>1 DEF IInv, Lock
<1>3. /\ upsets' \in 0 .. MaxUpsets /\ sweep' \in [on : BOOLEAN, seen : SUBSET Runs]
      /\ UNCHANGED << jobs, proc, tokens, leaky >>
    BY <1>1, KernelAssumption DEF IInv, TypeOK, memory
<1>4. Sound(disk') /\ Grows(disk, disk') /\ k' = disk' /\ txn' = NoTxn
    BY <1>1, <1>2
<1> QED BY <1>1, <1>3, <1>4, PublishStep

\* A task goes back to the queue.
LEMMA RequeueSound ==
    ASSUME NEW K, Sound(K), NEW t \in Tasks
    PROVE  Sound(Requeue(K, t)) /\ Evolves(K, Requeue(K, t)) /\ SameBoard(K, Requeue(K, t))
<1>1. "queued" \in TaskStatus \ {"running"}
    BY DEF TaskStatus
<1> DEFINE L == Requeue(K, t)
<1>2. L = [K EXCEPT !.task[t] = "queued"]
    BY DEF Requeue
<1> HIDE DEF L
<1>3. Sound(L) /\ Evolves(K, L) /\ SameBoard(K, L)
    BY <1>1, <1>2, StatusSound
<1> QED BY <1>3 DEF L

\* ... and is executed.
LEMMA RequeueExecuted ==
    ASSUME NEW K, Sound(K), NEW t \in Tasks, NEW R, NEW e \in Executions(Requeue(K, t), t, R)
    PROVE  Sound(e.k) /\ Evolves(K, e.k) /\ SameBoard(K, e.k)
<1> DEFINE Q == Requeue(K, t)
<1>1. Sound(Q) /\ Evolves(K, Q) /\ SameBoard(K, Q)
    BY RequeueSound
<1>2. e \in Executions(Q, t, R)
    OBVIOUS
<1> HIDE DEF Q
<1>3. Sound(e.k) /\ Evolves(Q, e.k) /\ SameBoard(Q, e.k)
    BY <1>1, <1>2, ExecutionsSound
<1> QED BY <1>1, <1>3, EvolvesTrans DEF Sound, SameBoard

\* The operator's routes on a task.
LEMMA OperatorStep ==
    ASSUME IInv, NEW t \in Tasks, Operator(t)
    PROVE  IInv'
<1>1. Sound(k) /\ k \in Kernel
    BY DEF IInv, Sound
<1>2. CASE Assign(t)
    BY <1>1, <1>2, RequeueSound, EditStep DEF Assign, Evolves
<1>3. CASE Reopen(t)
    BY <1>1, <1>3, RequeueSound, EditStep DEF Reopen, Evolves
<1>4. CASE ReopenAndRun(t)
  <2>1. PICK e \in Executions(Requeue(k, t), t, Results) : Edit(e.k)
    BY <1>4 DEF ReopenAndRun
  <2>2. Sound(e.k) /\ Grows(k, e.k)
    BY <1>1, RequeueExecuted DEF Evolves
  <2> QED BY <2>1, <2>2, EditStep
<1>5. CASE ExecuteTask(t)
  <2>1. PICK e \in Executions(k, t, Results) : Edit(e.k)
    BY <1>5 DEF ExecuteTask
  <2>2. Sound(e.k) /\ Grows(k, e.k)
    BY <1>1, ExecutionsSound DEF Evolves
  <2> QED BY <2>1, <2>2, EditStep
<1>6. CASE PrimeStartRun(t)
  <2> DEFINE S == StartRun(k, t)
  <2>1. PICK e \in Executions(S, t, Results) : Edit(e.k)
    BY <1>6 DEF PrimeStartRun
  <2>2. Sound(S) /\ Grows(k, S)
    BY <1>1, <1>6, StartRunSound DEF PrimeStartRun, Evolves
  <2> HIDE DEF S
  <2>3. Sound(e.k) /\ Grows(S, e.k)
    BY <2>1, <2>2, ExecutionsSound DEF Evolves
  <2>4. Grows(k, e.k)
    BY <1>1, <2>2, <2>3, GrowsTrans DEF Sound
  <2> QED BY <2>1, <2>3, <2>4, EditStep
<1>7. CASE \E s \in {"blocked", "cancelled"} : SetTaskStatus(t, s)
  <2>1. PICK s \in {"blocked", "cancelled"} : SetTaskStatus(t, s)
    BY <1>7
  <2>2. s \in TaskStatus \ {"running"}
    BY DEF TaskStatus
  <2> DEFINE L == [k EXCEPT !.task[t] = s]
  <2>3. L = [k EXCEPT !.task[t] = s] /\ Edit(L)
    BY <2>1 DEF SetTaskStatus
  <2> HIDE DEF L
  <2>4. Sound(L) /\ Grows(k, L)
    BY <1>1, <2>2, <2>3, StatusSound DEF Evolves
  <2> QED BY <2>3, <2>4, EditStep
<1> QED BY <1>2, <1>3, <1>4, <1>5, <1>6, <1>7 DEF Operator

\* The operator's routes on a run.
LEMMA RetryRunStep ==
    ASSUME IInv, NEW r \in Runs, RetryRun(r) \/ ResumeRun(r)
    PROVE  IInv'
<1>1. Sound(k) /\ k \in Kernel /\ Numbered(k)
    BY DEF IInv, Sound
<1>2. k.rstat[r] # "absent"
    BY DEF RetryRun, ResumeRun, Failed
<1>3. r <= k.next /\ k.rtask[r] \in Tasks
    BY <1>1, <1>2, KernelFields, KernelAssumption DEF Numbered, Runs
<1>4. CASE RetryRun(r)
  <2>1. PICK L \in Retries(k, r) : Edit(L)
    BY <1>4 DEF RetryRun
  <2>2. Sound(L) /\ Grows(k, L)
    BY <1>1, <1>3, RetriesSound DEF Evolves
  <2> QED BY <2>1, <2>2, EditStep
<1>5. CASE ResumeRun(r)
  <2> DEFINE t == k.rtask[r]
  <2>1. PICK e \in Executions(Requeue(k, t), t, Results \ {"unsupported", "dangling"}) : Edit(e.k)
    BY <1>5 DEF ResumeRun
  <2>2. t \in Tasks
    BY <1>3
  <2> HIDE DEF t
  <2>3. Sound(e.k) /\ Grows(k, e.k)
    BY <1>1, <2>2, RequeueExecuted DEF Evolves
  <2> QED BY <2>1, <2>3, EditStep
<1> QED BY <1>4, <1>5

\* The batch and the tick save what they have done; a failing save drops it.
LEMMA CommitStep == IInv /\ (CommitSync \/ CommitTick \/ SaveFails) => IInv'
<1> SUFFICES ASSUME IInv, CommitSync \/ CommitTick \/ SaveFails PROVE IInv'
    OBVIOUS
<1>1. TypeOK /\ Sound(k) /\ Sound(disk) /\ Grows(disk, k) /\ Lock /\ k \in Kernel /\ disk \in Kernel
    BY DEF IInv, Sound
<1>2. UNCHANGED << memory, bounds >> /\ txn' = NoTxn
    BY DEF CommitSync, CommitTick, SaveFails, Commit
<1>3. /\ upsets' \in 0 .. MaxUpsets /\ sweep' \in [on : BOOLEAN, seen : SUBSET Runs]
      /\ UNCHANGED << jobs, proc, tokens, leaky >>
    BY <1>1, <1>2 DEF memory, bounds, TypeOK
<1>4. CASE CommitSync
  <2> DEFINE L == WithStatus(k, txn.orch)
  <2>1. txn.orch \in Orchs /\ k' = L /\ disk' = L
    BY <1>1, <1>4 DEF CommitSync, Commit, Lock
  <2>2. Sound(L) /\ Grows(k, L)
    BY <1>1, <2>1, WithStatusSound DEF Evolves
  <2> HIDE DEF L
  <2>3. Grows(disk, L)
    BY <1>1, <2>2, GrowsTrans DEF Sound
  <2> QED BY <1>2, <1>3, <2>1, <2>2, <2>3, PublishStep
<1>5. CASE CommitTick
  <2>1. k' = k /\ disk' = k
    BY <1>5 DEF CommitTick, Commit
  <2> QED BY <1>1, <1>2, <1>3, <2>1, PublishStep
<1>6. CASE SaveFails
  <2>1. k' = disk /\ disk' = disk
    BY <1>6 DEF SaveFails
  <2>2. Grows(disk, disk)
    BY <1>1, GrowsRefl
  <2> QED BY <1>1, <1>2, <1>3, <2>1, <2>2, PublishStep
<1> QED BY <1>4, <1>5, <1>6

-----------------------------------------------------------------------------
(* Steps of the workers.                                                   *)

\* One job is replaced and the others stay.
LEMMA SetJobFacts ==
    ASSUME TypeOK, NEW o \in Orchs, NEW job \in JobRecord, SetJob(o, job)
    PROVE  /\ jobs' \in [Orchs -> JobRecord] /\ jobs'[o] = job
           /\ \A p \in Orchs : p # o => jobs'[p] = jobs[p]
BY DEF TypeOK, SetJob

\* A job's record is what its state machine needs.
LEMMA JobFields ==
    ASSUME TypeOK, NEW o \in Orchs
    PROVE  /\ jobs[o] \in JobRecord /\ jobs[o].ran \in Nat /\ jobs[o].more \in BOOLEAN
           /\ jobs[o].live \in SUBSET Runs
           /\ jobs[o].state \in {"none", "active", "completed", "failed", "canceled"}
BY DEF TypeOK, JobRecord

\* Two workers never have the same run in hand.
LEMMA Apart ==
    ASSUME Workers, NEW o \in Orchs, NEW p \in Orchs, NEW r \in jobs[o].live, r \in jobs[p].live
    PROVE  o = p
BY DEF Workers, Worker

\* A step of a worker that has no run in hand before or after it.
LEMMA IdleJobStep ==
    ASSUME IInv, NEW o \in Orchs, NEW job \in JobRecord, SetJob(o, job),
           jobs[o].pc \in {"idle", "top", "canceled", "completed"},
           job.pc \in {"idle", "top", "prepare", "canceled", "completed"}, job.live = {},
           job.state # "active" => job.pc = "idle",
           UNCHANGED << k, disk, txn, proc, tokens, sweep, bounds >>
    PROVE  IInv'
<1>1. /\ TypeOK /\ Sound(k) /\ Sound(disk) /\ Grows(disk, k) /\ Lock /\ Todo /\ Prepared
      /\ Workers /\ LiveProcs /\ NoTokenLeak
    BY DEF IInv
<1>2. /\ jobs' \in [Orchs -> JobRecord] /\ jobs'[o] = job
      /\ \A p \in Orchs : p # o => jobs'[p] = jobs[p]
    BY <1>1, SetJobFacts
<1>3. jobs[o].live = {}
    BY <1>1 DEF Workers, Worker
<1>4. /\ leaky' = leaky /\ upsets' = upsets /\ k' = k /\ disk' = disk /\ txn' = txn
      /\ proc' = proc /\ tokens' = tokens /\ sweep' = sweep
    BY DEF bounds
<1>5. TypeOK'
    BY <1>1, <1>2, <1>4 DEF TypeOK
<1>6. Sound(k') /\ Sound(disk') /\ Grows(disk', k')
    BY <1>1, <1>4
<1>7. Lock' /\ Todo' /\ Prepared'
  <2>1. Lock'
    BY <1>1, <1>2, <1>4 DEF Lock, LockFree
  <2>2. Todo' /\ Prepared'
    BY <1>1, <1>2, <1>4 DEF Lock, Todo, Prepared
  <2> QED BY <2>1, <2>2
<1>8. Workers'
  <2> SUFFICES ASSUME NEW p \in Orchs PROVE Worker(p)'
    BY DEF Workers
  <2>1. CASE p = o
    BY <1>2, <2>1 DEF Worker
  <2>2. CASE p # o
    BY <1>1, <1>2, <1>4, <2>2 DEF Workers, Worker
  <2> QED BY <2>1, <2>2
<1>9. LiveProcs'
    BY <1>1, <1>2, <1>3, <1>4 DEF LiveProcs
<1>10. NoTokenLeak'
  <2> SUFFICES ASSUME ~leaky, NEW r \in tokens PROVE \E p \in Orchs : r \in jobs'[p].live
    BY <1>4 DEF NoTokenLeak, InHand
  <2>1. PICK p \in Orchs : r \in jobs[p].live
    BY <1>1 DEF NoTokenLeak, InHand
  <2> QED BY <1>2, <1>3, <2>1
<1> QED BY <1>5, <1>6, <1>7, <1>8, <1>9, <1>10 DEF IInv

\* A job is started, decides on a round, and records its end.
LEMMA StartCheckRecordStep ==
    ASSUME IInv, NEW o \in Orchs,
           StartJob(o) \/ (\E c \in BOOLEAN : JobCheck(o, c)) \/ JobRecords(o)
    PROVE  IInv'
<1>1. TypeOK /\ Workers /\ jobs[o] \in JobRecord
    BY JobFields DEF IInv
<1>2. CASE StartJob(o)
  <2>1. /\ SetJob(o, NewJob) /\ jobs[o].state # "active"
        /\ UNCHANGED << k, disk, txn, proc, tokens, sweep, bounds >>
    BY <1>2 DEF StartJob, Active
  <2>2. jobs[o].pc = "idle"
    BY <1>1, <2>1 DEF Workers, Worker
  <2>3. NewJob \in JobRecord /\ NewJob.pc = "top" /\ NewJob.live = {} /\ NewJob.state = "active"
    BY DEF NewJob, NoJob, JobRecord
  <2> QED BY <2>1, <2>2, <2>3, IdleJobStep
<1>3. CASE \E c \in BOOLEAN : JobCheck(o, c)
  <2>1. PICK c \in BOOLEAN : JobCheck(o, c)
    BY <1>3
  <2> DEFINE pc == IF c THEN "canceled" ELSE IF jobs[o].ran >= Budget THEN "completed" ELSE "prepare"
  <2> DEFINE job == [jobs[o] EXCEPT !.pc = pc]
  <2>2. /\ SetJob(o, job) /\ jobs[o].pc = "top"
        /\ UNCHANGED << k, disk, txn, proc, tokens, sweep, bounds >>
    BY <2>1 DEF JobCheck
  <2>3. pc \in {"canceled", "completed", "prepare"}
    OBVIOUS
  <2> HIDE DEF pc
  <2>4. jobs[o].live = {} /\ jobs[o].state = "active"
    BY <1>1, <2>2 DEF Workers, Worker
  <2>5. job \in JobRecord /\ job.pc = pc /\ job.live = {} /\ job.state = "active"
    BY <1>1, <2>3, <2>4 DEF JobRecord
  <2> HIDE DEF job
  <2> QED BY <2>2, <2>3, <2>5, IdleJobStep
<1>4. CASE JobRecords(o)
  <2> DEFINE job == [NoJob EXCEPT !.state = jobs[o].pc]
  <2>1. /\ SetJob(o, job) /\ jobs[o].pc \in {"canceled", "completed"}
        /\ UNCHANGED << k, disk, txn, proc, tokens, sweep, bounds >>
    BY <1>4 DEF JobRecords
  <2>2. job \in JobRecord /\ job.pc = "idle" /\ job.live = {}
    BY <2>1 DEF NoJob, JobRecord
  <2> HIDE DEF job
  <2> QED BY <2>1, <2>2, IdleJobStep
<1> QED BY <1>2, <1>3, <1>4

\* Somebody takes the lock.
LEMMA BeginStep ==
    ASSUME IInv, LockFree, txn' \in Txn, txn'.op # "none", txn'.runs = {}, Lock', Todo',
           UNCHANGED << k, disk, memory, leaky >>, upsets' \in 0 .. MaxUpsets
    PROVE  IInv'
<1>1. /\ TypeOK /\ Sound(k) /\ Sound(disk) /\ Grows(disk, k)
      /\ Workers /\ LiveProcs /\ NoTokenLeak
    BY DEF IInv
<1>2. /\ leaky' = leaky /\ k' = k /\ disk' = disk /\ jobs' = jobs
      /\ proc' = proc /\ tokens' = tokens /\ sweep' = sweep
    BY DEF memory
<1>3. TypeOK'
    BY <1>1, <1>2 DEF TypeOK
<1>4. Sound(k') /\ Sound(disk') /\ Grows(disk', k')
    BY <1>1, <1>2
<1>5. Prepared'
    BY DEF Prepared
<1>6. Workers' /\ LiveProcs'
    BY <1>1, <1>2 DEF Workers, Worker, LiveProcs
<1>7. NoTokenLeak'
    BY <1>1, <1>2 DEF NoTokenLeak, InHand
<1> QED BY <1>3, <1>4, <1>5, <1>6, <1>7 DEF IInv

\* A job's prepare step, its merge, the batch and the tick.
LEMMA BeginsStep ==
    ASSUME IInv,
           \/ \E o \in Orchs : BeginPrepare(o) \/ BeginMerge(o) \/ BeginSync(o)
           \/ BeginTick
    PROVE  IInv'
<1>1. TypeOK /\ Workers /\ Sound(k) /\ k \in Kernel
    BY DEF IInv, Sound
<1>2. ASSUME NEW o \in Orchs, BeginPrepare(o) PROVE IInv'
  <2>1. /\ LockFree /\ jobs[o].pc = "prepare"
        /\ txn' = [NoTxn EXCEPT !.op = "prepare", !.orch = o, !.phase = "propagate"]
        /\ UNCHANGED << k, disk, memory, bounds >>
    BY <1>2 DEF BeginPrepare
  <2>2. /\ txn' \in Txn /\ txn'.op = "prepare" /\ txn'.orch = o /\ txn'.phase = "propagate"
        /\ txn'.todo = {} /\ txn'.runs = {}
    BY <2>1 DEF NoTxn, Txn
  <2>3. jobs' = jobs /\ UNCHANGED << k, disk, memory, leaky >> /\ upsets' \in 0 .. MaxUpsets
    BY <1>1, <2>1 DEF memory, bounds, TypeOK
  <2>4. Lock' /\ Todo'
    BY <2>1, <2>2, <2>3 DEF Lock, Todo, LockFree
  <2> QED BY <2>1, <2>2, <2>3, <2>4, BeginStep
<1>3. ASSUME NEW o \in Orchs, BeginMerge(o) PROVE IInv'
  <2> DEFINE T == {r \in jobs[o].live : proc[r] # "gone"}
  <2>1. /\ LockFree /\ jobs[o].pc = "exec" /\ \A r \in jobs[o].live : proc[r] # "live"
        /\ txn' = [NoTxn EXCEPT !.op = "merge", !.orch = o, !.phase = "propagate", !.todo = T]
        /\ UNCHANGED << k, disk, memory, bounds >>
    BY <1>3 DEF BeginMerge
  <2>2. T \subseteq jobs[o].live /\ jobs[o].live \in SUBSET Runs
    BY <1>1, JobFields
  <2> HIDE DEF T
  <2>3. /\ txn' \in Txn /\ txn'.op = "merge" /\ txn'.orch = o /\ txn'.phase = "propagate"
        /\ txn'.todo = T /\ txn'.runs = {}
    BY <2>1, <2>2 DEF NoTxn, Txn
  <2>4. /\ jobs' = jobs /\ proc' = proc
        /\ UNCHANGED << k, disk, memory, leaky >> /\ upsets' \in 0 .. MaxUpsets
    BY <1>1, <2>1 DEF memory, bounds, TypeOK
  <2>5. Lock' /\ Todo'
    BY <2>1, <2>2, <2>3, <2>4 DEF Lock, Todo, LockFree
  <2> QED BY <2>1, <2>3, <2>4, <2>5, BeginStep
<1>4. ASSUME NEW o \in Orchs, BeginSync(o) PROVE IInv'
  <2>1. /\ LockFree /\ upsets < MaxUpsets /\ upsets' = upsets + 1
        /\ txn' = [NoTxn EXCEPT !.op = "sync", !.orch = o, !.phase = "propagate"]
        /\ UNCHANGED << k, disk, memory, leaky >>
    BY <1>4 DEF BeginSync, Upset
  <2>2. /\ txn' \in Txn /\ txn'.op = "sync" /\ txn'.orch = o /\ txn'.phase = "propagate"
        /\ txn'.todo = {} /\ txn'.runs = {}
    BY <2>1 DEF NoTxn, Txn
  <2>3. upsets' \in 0 .. MaxUpsets
    BY <1>1, <2>1, KernelAssumption DEF TypeOK
  <2>4. Lock' /\ Todo'
    BY <2>2 DEF Lock, Todo, LockFree
  <2> QED BY <2>1, <2>2, <2>3, <2>4, BeginStep
<1>5. ASSUME BeginTick PROVE IInv'
  <2>1. PICK elapsed \in SUBSET RetryReady(k) :
           txn' = [NoTxn EXCEPT !.op = "tick", !.phase = "retries",
                               !.todo = FirstN(elapsed, MaxPerTick)]
    BY <1>5 DEF BeginTick
  <2> DEFINE T == FirstN(elapsed, MaxPerTick)
  <2>2. \A r \in T : r \in Runs /\ k.rstat[r] # "absent"
    BY DEF FirstN, RetryReady
  <2>3. txn' = [NoTxn EXCEPT !.op = "tick", !.phase = "retries", !.todo = T]
    BY <2>1
  <2> HIDE DEF T
  <2>4. \A r \in T : r \in Runs /\ r <= k.next
    BY <1>1, <2>2, KernelFields, KernelAssumption DEF Sound, Numbered, Runs
  <2>5. /\ txn' \in Txn /\ txn'.op = "tick" /\ txn'.phase = "retries"
        /\ txn'.todo = T /\ txn'.runs = {}
    BY <2>2, <2>3 DEF NoTxn, Txn
  <2>6. LockFree /\ k' = k /\ UNCHANGED << k, disk, memory, leaky >> /\ upsets' \in 0 .. MaxUpsets
    BY <1>1, <1>5 DEF BeginTick, bounds, TypeOK
  <2>7. Lock' /\ Todo'
    BY <2>4, <2>5, <2>6 DEF Lock, Todo, LockFree
  <2> QED BY <2>5, <2>6, <2>7, BeginStep
<1> QED BY <1>2, <1>3, <1>4, <1>5

\* The prepared runs are saved and handed to the worker.
LEMMA CommitPrepareStep == IInv /\ CommitPrepare => IInv'
<1> SUFFICES ASSUME IInv, CommitPrepare PROVE IInv'
    OBVIOUS
<1>1. /\ TypeOK /\ Sound(k) /\ Grows(disk, k) /\ Lock /\ Prepared /\ k \in Kernel
      /\ Workers /\ LiveProcs /\ NoTokenLeak
    BY DEF IInv, Sound
<1> DEFINE o == txn.orch
<1> DEFINE job == [jobs[o] EXCEPT !.pc = "spawn", !.live = txn.runs,
                                  !.ran = @ + txn.ran, !.more = txn.ran > 0]
<1>2. /\ txn.op = "prepare" /\ k' = k /\ disk' = k /\ txn' = NoTxn /\ SetJob(o, job)
      /\ proc' = proc /\ tokens' = tokens /\ sweep' = sweep /\ leaky' = leaky /\ upsets' = upsets
    BY DEF CommitPrepare, Commit, bounds
<1>3. o \in Orchs /\ jobs[o].pc = "prepare"
    BY <1>1, <1>2 DEF Lock
<1>4. jobs[o].live = {} /\ jobs[o].state = "active" /\ jobs[o] \in JobRecord
    BY <1>1, <1>3 DEF Workers, Worker, TypeOK
<1>5. job \in JobRecord /\ job.pc = "spawn" /\ job.live = txn.runs /\ job.state = "active"
  <2> DEFINE n == jobs[o].ran + txn.ran
  <2> DEFINE b == txn.ran > 0
  <2>1. n \in Nat /\ txn.runs \in SUBSET Runs
    BY <1>1, <1>4 DEF TypeOK, Txn, JobRecord
  <2>2. b \in BOOLEAN
    OBVIOUS
  <2>3. job = [jobs[o] EXCEPT !.pc = "spawn", !.live = txn.runs, !.ran = n, !.more = b]
    OBVIOUS
  <2> HIDE DEF n, b, job
  <2> QED BY <1>4, <2>1, <2>2, <2>3 DEF JobRecord
<1> HIDE DEF o, job
<1>6. /\ jobs' \in [Orchs -> JobRecord] /\ jobs'[o] = job
      /\ \A p \in Orchs : p # o => jobs'[p] = jobs[p]
    BY <1>1, <1>2, <1>3, <1>5, SetJobFacts
<1>7. TypeOK'
  <2>1. NoTxn \in Txn
    BY DEF NoTxn, Txn
  <2> QED BY <1>1, <1>2, <1>6, <2>1 DEF TypeOK
<1>8. Sound(k') /\ Sound(disk') /\ Grows(disk', k')
    BY <1>1, <1>2, GrowsRefl
<1>9. Lock' /\ Todo' /\ Prepared'
    BY <1>2 DEF Lock, Todo, Prepared, NoTxn, LockFree
<1>10. \A r \in txn.runs : r <= k.next /\ OrchOf[k.rtask[r]] = o
    BY <1>1 DEF Prepared, o
<1>11. Workers'
  <2> SUFFICES ASSUME NEW p \in Orchs PROVE Worker(p)'
    BY DEF Workers
  <2>1. CASE p = o
    BY <1>2, <1>5, <1>6, <1>10, <2>1 DEF Worker
  <2>2. CASE p # o
    BY <1>1, <1>2, <1>6, <2>2, WorkerKeeps DEF Workers
  <2> QED BY <2>1, <2>2
<1>12. LiveProcs'
    BY <1>1, <1>2, <1>3, <1>6 DEF LiveProcs
<1>13. NoTokenLeak'
  <2> SUFFICES ASSUME ~leaky, NEW r \in tokens PROVE \E p \in Orchs : r \in jobs'[p].live
    BY <1>2 DEF NoTokenLeak, InHand
  <2>1. PICK p \in Orchs : r \in jobs[p].live
    BY <1>1 DEF NoTokenLeak, InHand
  <2> QED BY <1>4, <1>6, <2>1
<1> QED BY <1>7, <1>8, <1>9, <1>11, <1>12, <1>13 DEF IInv

\* The outcomes are saved; the worker keeps its tokens until it finishes.
LEMMA CommitMergeStep == IInv /\ CommitMerge => IInv'
<1> SUFFICES ASSUME IInv, CommitMerge PROVE IInv'
    OBVIOUS
<1>1. /\ TypeOK /\ Sound(k) /\ Grows(disk, k) /\ Lock /\ k \in Kernel /\ disk \in Kernel
      /\ Workers /\ LiveProcs /\ NoTokenLeak
    BY DEF IInv, Sound
<1> DEFINE o == txn.orch
<1> DEFINE L == WithStatus(k, o)
<1> DEFINE b == jobs[o].more /\ StatusOf(k, o) = "running"
<1> DEFINE job == [jobs[o] EXCEPT !.pc = "finish", !.more = b]
<1>2. /\ txn.op = "merge" /\ k' = L /\ disk' = L /\ txn' = NoTxn /\ SetJob(o, job)
      /\ proc' = proc /\ tokens' = tokens /\ sweep' = sweep /\ leaky' = leaky /\ upsets' = upsets
    BY DEF CommitMerge, Commit, bounds
<1>3. /\ o \in Orchs /\ jobs[o].pc = "exec" /\ \A r \in jobs[o].live : proc[r] # "live"
    BY <1>1, <1>2 DEF Lock
<1>4. jobs[o].state = "active" /\ jobs[o] \in JobRecord
    BY <1>1, <1>3 DEF Workers, Worker, TypeOK
<1>5. b \in BOOLEAN
    BY Zenon
<1> HIDE DEF b
<1>6. job \in JobRecord /\ job.pc = "finish" /\ job.live = jobs[o].live /\ job.state = "active"
    BY <1>4, <1>5 DEF JobRecord
<1> HIDE DEF job
<1>7. Sound(L) /\ Grows(k, L)
    BY <1>1, <1>3, WithStatusSound DEF Evolves
<1> HIDE DEF L, o
<1>8. Grows(disk, L) /\ L \in Kernel
    BY <1>1, <1>7, GrowsTrans DEF Sound
<1>9. /\ jobs' \in [Orchs -> JobRecord] /\ jobs'[o] = job
      /\ \A p \in Orchs : p # o => jobs'[p] = jobs[p]
    BY <1>1, <1>2, <1>3, <1>6, SetJobFacts
<1>10. TypeOK'
  <2>1. NoTxn \in Txn
    BY DEF NoTxn, Txn
  <2> QED BY <1>1, <1>2, <1>8, <1>9, <2>1 DEF TypeOK
<1>11. Sound(k') /\ Sound(disk') /\ Grows(disk', k')
    BY <1>2, <1>7, <1>8, GrowsRefl
<1>12. Lock' /\ Todo' /\ Prepared'
    BY <1>2 DEF Lock, Todo, Prepared, NoTxn, LockFree
<1>13. Workers'
  <2> SUFFICES ASSUME NEW p \in Orchs PROVE Worker(p)'
    BY DEF Workers
  <2>1. CASE p = o
    <3>1. \A r \in jobs[o].live : r <= L.next /\ OrchOf[L.rtask[r]] = o
      <4> SUFFICES ASSUME NEW r \in jobs[o].live PROVE r <= L.next /\ OrchOf[L.rtask[r]] = o
        OBVIOUS
      <4>1. r \in Runs /\ r \in Nat /\ r <= disk.next /\ OrchOf[disk.rtask[r]] = o
        BY <1>1, <1>3, JobFields, KernelAssumption DEF Workers, Worker, Runs
      <4>2. disk.next \in Nat /\ L.next \in Nat
        BY <1>1, <1>8, KernelFields, KernelAssumption
      <4> QED BY <1>8, <4>1, <4>2 DEF Grows
    <3> QED BY <1>2, <1>6, <1>9, <2>1, <3>1 DEF Worker
  <2>2. CASE p # o
    BY <1>1, <1>2, <1>8, <1>9, <2>2, WorkerKeeps DEF Workers
  <2> QED BY <2>1, <2>2
<1>14. LiveProcs'
    BY <1>1, <1>2, <1>3, <1>9 DEF LiveProcs
<1>15. NoTokenLeak'
  <2> SUFFICES ASSUME ~leaky, NEW r \in tokens PROVE \E p \in Orchs : r \in jobs'[p].live
    BY <1>2 DEF NoTokenLeak, InHand
  <2>1. PICK p \in Orchs : r \in jobs[p].live
    BY <1>1 DEF NoTokenLeak, InHand
  <2> QED BY <1>6, <1>9, <2>1
<1> QED BY <1>10, <1>11, <1>12, <1>13, <1>14, <1>15 DEF IInv

\* Every brief of the round gets a token and a process.
LEMMA SpawnStep ==
    ASSUME IInv, NEW o \in Orchs, Spawn(o)
    PROVE  IInv'
<1>1. /\ TypeOK /\ Sound(k) /\ Sound(disk) /\ Grows(disk, k) /\ Lock /\ Todo /\ Prepared
      /\ Workers /\ LiveProcs /\ NoTokenLeak
    BY DEF IInv
<1> DEFINE job == [jobs[o] EXCEPT !.pc = "exec"]
<1>2. /\ jobs[o].pc = "spawn" /\ tokens' = tokens \cup jobs[o].live
      /\ proc' = [r \in Runs |-> IF r \in jobs[o].live THEN "live" ELSE proc[r]]
      /\ SetJob(o, job)
      /\ k' = k /\ disk' = disk /\ txn' = txn /\ sweep' = sweep /\ leaky' = leaky /\ upsets' = upsets
    BY DEF Spawn, bounds
<1>3. jobs[o] \in JobRecord /\ jobs[o].state = "active" /\ jobs[o].live \in SUBSET Runs
    BY <1>1, <1>2, JobFields DEF Workers, Worker
<1>4. job \in JobRecord /\ job.pc = "exec" /\ job.live = jobs[o].live /\ job.state = "active"
    BY <1>3 DEF JobRecord
<1> HIDE DEF job
<1>5. /\ jobs' \in [Orchs -> JobRecord] /\ jobs'[o] = job
      /\ \A p \in Orchs : p # o => jobs'[p] = jobs[p]
    BY <1>1, <1>2, <1>4, SetJobFacts
<1>6. TypeOK'
    BY <1>1, <1>2, <1>3, <1>5 DEF TypeOK
<1>7. Sound(k') /\ Sound(disk') /\ Grows(disk', k')
    BY <1>1, <1>2
<1>8. Lock' /\ Todo' /\ Prepared'
  <2>1. txn.op \in {"prepare", "merge"} => txn.orch \in Orchs /\ txn.orch # o
    BY <1>1, <1>2 DEF Lock
  <2>2. txn.op = "merge" => \A r \in jobs[txn.orch].live : proc'[r] # "live"
    <3> SUFFICES ASSUME txn.op = "merge", NEW r \in jobs[txn.orch].live PROVE proc'[r] # "live"
      OBVIOUS
    <3>1. txn.orch \in Orchs /\ txn.orch # o /\ proc[r] # "live"
      BY <1>1, <2>1 DEF Lock
    <3>2. r \notin jobs[o].live
      BY <1>1, <3>1, Apart
    <3>3. r \in Runs
      BY <1>1, <3>1, JobFields
    <3> QED BY <1>2, <3>1, <3>2, <3>3
  <2>3. Lock'
    BY <1>1, <1>2, <1>5, <2>1, <2>2 DEF Lock, LockFree
  <2> QED BY <1>1, <1>2, <1>5, <2>1, <2>3 DEF Todo, Prepared
<1>9. Workers'
  <2> SUFFICES ASSUME NEW p \in Orchs PROVE Worker(p)'
    BY DEF Workers
  <2>1. CASE p = o
    BY <1>1, <1>2, <1>4, <1>5, <2>1 DEF Workers, Worker
  <2>2. CASE p # o
    BY <1>1, <1>2, <1>5, <2>2 DEF Workers, Worker
  <2> QED BY <2>1, <2>2
<1>10. LiveProcs'
  <2> SUFFICES ASSUME NEW r \in Runs, proc'[r] = "live"
               PROVE  \E p \in Orchs : jobs'[p].pc = "exec" /\ r \in jobs'[p].live
    BY DEF LiveProcs
  <2>1. CASE r \in jobs[o].live
    BY <1>4, <1>5, <2>1
  <2>2. CASE r \notin jobs[o].live
    <3>1. proc[r] = "live"
      BY <1>2, <2>2
    <3>2. PICK p \in Orchs : jobs[p].pc = "exec" /\ r \in jobs[p].live
      BY <1>1, <3>1 DEF LiveProcs
    <3> QED BY <1>2, <1>5, <3>2
  <2> QED BY <2>1, <2>2
<1>11. NoTokenLeak'
  <2> SUFFICES ASSUME ~leaky, NEW r \in tokens' PROVE \E p \in Orchs : r \in jobs'[p].live
    BY <1>2 DEF NoTokenLeak, InHand
  <2>1. \E p \in Orchs : r \in jobs[p].live
    BY <1>1, <1>2 DEF NoTokenLeak, InHand
  <2> QED BY <1>4, <1>5, <2>1
<1> QED BY <1>6, <1>7, <1>8, <1>9, <1>10, <1>11 DEF IInv

\* A process ends, or the panic of its thread ends it.
LEMMA ProcStep ==
    ASSUME IInv, NEW r \in Runs,
           ProcEnds(r) \/ \E o \in Orchs : Panic(o, r) /\ PanicInThread(o, r)
    PROVE  IInv'
<1>1. /\ TypeOK /\ Sound(k) /\ Sound(disk) /\ Grows(disk, k) /\ Lock /\ Todo /\ Prepared
      /\ Workers /\ LiveProcs /\ NoTokenLeak
    BY DEF IInv
<1>2. /\ k' = k /\ disk' = disk /\ txn' = txn /\ jobs' = jobs /\ tokens' = tokens /\ sweep' = sweep
      /\ leaky' = leaky /\ proc[r] = "live"
    BY DEF ProcEnds, Panic, PanicInThread, bounds
<1>3. \E res \in ProcessEnd : proc' = [proc EXCEPT ![r] = res]
    BY DEF ProcEnds, PanicInThread, ProcessEnd
<1>4. /\ proc' \in [Runs -> {"none", "live"} \cup ProcessEnd]
      /\ \A q \in Runs : proc'[q] = "live" => proc[q] = "live"
    BY <1>1, <1>3 DEF TypeOK, ProcessEnd
<1>5. upsets' \in 0 .. MaxUpsets
  <2>1. CASE ProcEnds(r)
    BY <1>1, <2>1 DEF ProcEnds, bounds, TypeOK
  <2>2. CASE \E o \in Orchs : Panic(o, r)
    BY <1>1, <2>2, KernelAssumption DEF Panic, Upset, TypeOK
  <2> QED BY <2>1, <2>2
<1>6. TypeOK'
    BY <1>1, <1>2, <1>4, <1>5 DEF TypeOK
<1>7. Lock' /\ Todo' /\ Prepared'
  <2>1. txn.op = "merge" => \A q \in jobs[txn.orch].live : proc'[q] # "live"
    BY <1>1, <1>4, JobFields DEF Lock
  <2> QED BY <1>1, <1>2, <2>1 DEF Lock, LockFree, Todo, Prepared
<1>8. Workers' /\ LiveProcs' /\ NoTokenLeak'
    BY <1>1, <1>2, <1>4 DEF Workers, Worker, LiveProcs, NoTokenLeak, InHand
<1> QED BY <1>1, <1>2, <1>6, <1>7, <1>8 DEF IInv

\* The worker of o lets go of its runs: at the end of a round, because the
\* round failed, or because a panic took the worker down.
LEMMA LetGo ==
    ASSUME IInv, NEW o \in Orchs, NEW job \in JobRecord, SetJob(o, job), job.live = {},
           job.pc \in {"idle", "top", "completed", "dead"}, job.state # "active" => job.pc = "idle",
           proc' = [r \in Runs |-> IF r \in jobs[o].live THEN "none" ELSE proc[r]],
           tokens' \in SUBSET tokens, tokens \ jobs[o].live \subseteq tokens',
           ~leaky' => ~leaky /\ tokens' \cap jobs[o].live = {},
           leaky' \in BOOLEAN, upsets' \in 0 .. MaxUpsets, disk' = disk, sweep' = sweep,
           txn' = txn \/ txn' = NoTxn, Sound(k'), Grows(disk, k'), Lock', Todo', Prepared'
    PROVE  IInv'
<1>1. TypeOK /\ Sound(disk) /\ Workers /\ LiveProcs /\ NoTokenLeak
    BY DEF IInv
<1>2. /\ jobs' \in [Orchs -> JobRecord] /\ jobs'[o] = job
      /\ \A p \in Orchs : p # o => jobs'[p] = jobs[p]
    BY <1>1, SetJobFacts
<1>3. \A p \in Orchs : p # o => jobs[p].live \cap jobs[o].live = {}
    BY <1>1, Apart
<1>4. TypeOK'
  <2>1. NoTxn \in Txn
    BY DEF NoTxn, Txn
  <2>2. txn' \in Txn /\ k' \in Kernel
    BY <1>1, <2>1 DEF TypeOK, Sound
  <2>3. proc' \in [Runs -> {"none", "live"} \cup ProcessEnd]
    BY <1>1 DEF TypeOK
  <2>4. tokens' \in SUBSET Runs
    BY <1>1 DEF TypeOK
  <2> QED BY <1>1, <1>2, <2>2, <2>3, <2>4 DEF TypeOK
<1>5. Workers'
  <2> SUFFICES ASSUME NEW p \in Orchs PROVE Worker(p)'
    BY DEF Workers
  <2>1. CASE p = o
    BY <1>2, <2>1 DEF Worker
  <2>2. CASE p # o
    <3>1. jobs[p].live \subseteq tokens => jobs[p].live \subseteq tokens'
      BY <1>3, <2>2
    <3> QED BY <1>1, <1>2, <2>2, <3>1 DEF Workers, Worker
  <2> QED BY <2>1, <2>2
<1>6. LiveProcs'
  <2> SUFFICES ASSUME NEW r \in Runs, proc'[r] = "live"
               PROVE  \E p \in Orchs : jobs'[p].pc = "exec" /\ r \in jobs'[p].live
    BY DEF LiveProcs
  <2>1. r \notin jobs[o].live /\ proc[r] = "live"
    OBVIOUS
  <2>2. PICK p \in Orchs : jobs[p].pc = "exec" /\ r \in jobs[p].live
    BY <1>1, <2>1 DEF LiveProcs
  <2> QED BY <1>2, <2>1, <2>2
<1>7. NoTokenLeak'
  <2> SUFFICES ASSUME ~leaky', NEW r \in tokens' PROVE \E p \in Orchs : r \in jobs'[p].live
    BY DEF NoTokenLeak, InHand
  <2>1. r \in tokens /\ r \notin jobs[o].live /\ ~leaky
    OBVIOUS
  <2>2. PICK p \in Orchs : r \in jobs[p].live
    BY <1>1, <2>1 DEF NoTokenLeak, InHand
  <2> QED BY <1>2, <2>1, <2>2
<1> QED BY <1>1, <1>4, <1>5, <1>6, <1>7 DEF IInv

\* The tokens are dropped at the end of a round.
LEMMA FinishStep ==
    ASSUME IInv, NEW o \in Orchs, Finish(o)
    PROVE  IInv'
<1>1. /\ TypeOK /\ Sound(k) /\ Grows(disk, k) /\ Lock /\ Todo /\ Prepared /\ Workers
      /\ jobs[o] \in JobRecord
    BY JobFields DEF IInv
<1> DEFINE pc == IF jobs[o].more THEN "top" ELSE "completed"
<1> DEFINE job == [jobs[o] EXCEPT !.pc = pc, !.live = {}]
<1>2. /\ jobs[o].pc = "finish" /\ tokens' = tokens \ jobs[o].live
      /\ proc' = [r \in Runs |-> IF r \in jobs[o].live THEN "none" ELSE proc[r]]
      /\ SetJob(o, job)
      /\ k' = k /\ disk' = disk /\ txn' = txn /\ sweep' = sweep /\ leaky' = leaky /\ upsets' = upsets
    BY DEF Finish, bounds
<1>3. pc \in {"top", "completed"}
    OBVIOUS
<1> HIDE DEF pc
<1>4. jobs[o].state = "active"
    BY <1>1, <1>2 DEF Workers, Worker
<1>5. job \in JobRecord /\ job.pc = pc /\ job.live = {} /\ job.state = "active"
    BY <1>1, <1>3, <1>4 DEF JobRecord
<1> HIDE DEF job
<1>6. /\ jobs'[o] = job /\ \A p \in Orchs : p # o => jobs'[p] = jobs[p]
    BY <1>1, <1>2, <1>5, SetJobFacts
<1>7. txn.op \in {"prepare", "merge"} => txn.orch \in Orchs /\ txn.orch # o
    BY <1>1, <1>2 DEF Lock
<1>8. Lock'
  <2>1. txn.op = "merge" => \A r \in jobs[txn.orch].live : proc'[r] # "live"
    BY <1>1, <1>2, <1>7, JobFields DEF Lock
  <2> QED BY <1>1, <1>2, <1>6, <1>7, <2>1 DEF Lock, LockFree
<1>9. Todo' /\ Prepared'
    BY <1>1, <1>2, <1>6, <1>7 DEF Todo, Prepared
<1>10. leaky' \in BOOLEAN /\ upsets' \in 0 .. MaxUpsets
    BY <1>1, <1>2, Zenon DEF TypeOK
<1>11. /\ tokens' \in SUBSET tokens /\ tokens \ jobs[o].live \subseteq tokens'
       /\ ~leaky' => ~leaky /\ tokens' \cap jobs[o].live = {}
    BY <1>2
<1> QED BY <1>1, <1>2, <1>3, <1>5, <1>8, <1>9, <1>10, <1>11, LetGo

\* A round whose save fails ends its job; a merge then keeps its tokens.
LEMMA RoundFailsStep == IInv /\ RoundFails => IInv'
<1> SUFFICES ASSUME IInv, RoundFails PROVE IInv'
    OBVIOUS
<1>1. TypeOK /\ Sound(disk) /\ Lock /\ Workers /\ disk \in Kernel
    BY DEF IInv, Sound
<1> DEFINE o == txn.orch
<1> DEFINE job == [NoJob EXCEPT !.state = "failed"]
<1>2. /\ txn.op \in {"prepare", "merge"} /\ upsets < MaxUpsets /\ upsets' = upsets + 1
      /\ k' = disk /\ txn' = NoTxn /\ SetJob(o, job)
      /\ proc' = [r \in Runs |-> IF r \in jobs[o].live THEN "none" ELSE proc[r]]
      /\ leaky' = (leaky \/ txn.op = "merge")
      /\ disk' = disk /\ tokens' = tokens /\ sweep' = sweep
    BY DEF RoundFails, Upset
<1>3. o \in Orchs /\ (txn.op = "prepare" => jobs[o].live = {})
    BY <1>1, <1>2 DEF Lock, Workers, Worker
<1> HIDE DEF o
<1>4. job \in JobRecord /\ job.live = {} /\ job.pc = "idle"
    BY DEF NoJob, JobRecord
<1> HIDE DEF job
<1>5. leaky' \in BOOLEAN
    BY <1>2
<1>6. upsets' \in 0 .. MaxUpsets
    BY <1>1, <1>2, KernelAssumption DEF TypeOK
<1>7. ~leaky' => ~leaky /\ tokens' \cap jobs[o].live = {}
  <2>1. ~leaky' => ~leaky /\ txn.op # "merge"
    BY <1>2, Zenon
  <2>2. txn.op # "merge" => jobs[o].live = {}
    BY <1>2, <1>3
  <2> QED BY <2>1, <2>2
<1>8. Sound(k') /\ Grows(disk, k')
    BY <1>1, <1>2, GrowsRefl
<1>9. Lock' /\ Todo' /\ Prepared'
    BY <1>2 DEF Lock, Todo, Prepared, NoTxn, LockFree
<1> QED BY <1>2, <1>3, <1>4, <1>5, <1>6, <1>7, <1>8, <1>9, LetGo

\* The panic of a round's single brief takes the worker down with its token.
LEMMA PanicOfWorkerStep ==
    ASSUME IInv, NEW o \in Orchs, NEW r \in Runs, Panic(o, r), PanicOfWorker(o, r)
    PROVE  IInv'
<1>1. /\ TypeOK /\ Sound(k) /\ Grows(disk, k) /\ Lock /\ Todo /\ Prepared /\ Workers
      /\ jobs[o] \in JobRecord
    BY JobFields DEF IInv
<1> DEFINE job == [jobs[o] EXCEPT !.pc = "dead", !.live = {}]
<1>2. /\ jobs[o].pc = "exec" /\ jobs[o].live = {r} /\ proc[r] = "live" /\ SetJob(o, job)
      /\ proc' = [proc EXCEPT ![r] = "none"] /\ leaky' = TRUE
      /\ k' = k /\ disk' = disk /\ txn' = txn /\ tokens' = tokens /\ sweep' = sweep
      /\ upsets < MaxUpsets /\ upsets' = upsets + 1
    BY DEF Panic, PanicOfWorker, Upset
<1>3. jobs[o].state = "active"
    BY <1>1, <1>2 DEF Workers, Worker
<1>4. job \in JobRecord /\ job.pc = "dead" /\ job.live = {} /\ job.state = "active"
    BY <1>1, <1>3 DEF JobRecord
<1> HIDE DEF job
<1>5. jobs'[o] = job /\ \A p \in Orchs : p # o => jobs'[p] = jobs[p]
    BY <1>1, <1>2, <1>4, SetJobFacts
<1>6. proc' = [q \in Runs |-> IF q \in jobs[o].live THEN "none" ELSE proc[q]]
    BY <1>1, <1>2 DEF TypeOK
<1>7. txn.op \in {"prepare", "merge"} => txn.orch \in Orchs /\ txn.orch # o
    BY <1>1, <1>2 DEF Lock
<1>8. Lock'
  <2>1. txn.op = "merge" => \A q \in jobs[txn.orch].live : proc'[q] # "live"
    BY <1>1, <1>6, <1>7, JobFields DEF Lock
  <2> QED BY <1>1, <1>2, <1>5, <1>7, <2>1 DEF Lock, LockFree
<1>9. Todo' /\ Prepared'
    BY <1>1, <1>2, <1>5, <1>7 DEF Todo, Prepared
<1>10. upsets' \in 0 .. MaxUpsets
    BY <1>1, <1>2, KernelAssumption DEF TypeOK
<1>11. leaky' \in BOOLEAN /\ leaky'
    BY <1>2, Zenon
<1> QED BY <1>1, <1>2, <1>4, <1>6, <1>8, <1>9, <1>10, <1>11, LetGo

-----------------------------------------------------------------------------
(* The watchdog and the restart.                                           *)

\* A stall window passes.
LEMMA QuietStep ==
    ASSUME IInv, NEW r \in Runs, Quiet(r)
    PROVE  IInv'
<1>1. /\ TypeOK /\ Sound(k) /\ Lock
      /\ k \in Kernel /\ Numbered(k) /\ QuietRuns(k) /\ Executing(k) /\ Descends(k) /\ Earned(k)
    BY DEF IInv, Sound
<1>2. /\ LockFree /\ k.rstat[r] = "running"
      /\ k' = [k EXCEPT !.quiet = @ \cup {r}] /\ disk' = k'
      /\ txn' = txn /\ jobs' = jobs /\ proc' = proc /\ tokens' = tokens /\ sweep' = sweep
      /\ leaky' = leaky /\ upsets' = upsets
    BY DEF Quiet, memory, bounds
<1>3. txn = NoTxn /\ k = disk
    BY <1>1, <1>2 DEF Lock
<1> DEFINE L == [k EXCEPT !.quiet = @ \cup {r}]
<1>4. /\ L \in Kernel /\ L.quiet = k.quiet \cup {r} /\ L.task = k.task /\ L.rtask = k.rtask
      /\ L.rstat = k.rstat /\ L.from = k.from /\ L.next = k.next /\ L.step = k.step /\ L.srun = k.srun
    BY <1>1 DEF Kernel
<1>5. k' = L /\ disk' = L
    BY <1>2
<1> HIDE DEF L
<1>6. Sound(L)
  <2>1. Numbered(L) /\ QuietRuns(L) /\ Executing(L) /\ Descends(L) /\ Earned(L)
    BY <1>1, <1>2, <1>4 DEF Numbered, QuietRuns, Executing, Descends, Earned
  <2> QED BY <1>4, <2>1 DEF Sound
<1>7. Grows(disk, L)
    BY <1>1, <1>3, <1>4, KernelFields, KernelAssumption DEF Grows
<1>8. /\ upsets' \in 0 .. MaxUpsets /\ sweep' \in [on : BOOLEAN, seen : SUBSET Runs]
    BY <1>1, <1>2 DEF TypeOK
<1> QED BY <1>2, <1>3, <1>5, <1>6, <1>7, <1>8, PublishStep

\* The sweep reads the registries.
LEMMA SweepReadStep == IInv /\ SweepRead => IInv'
<1> SUFFICES ASSUME IInv, SweepRead PROVE IInv'
    OBVIOUS
<1>1. /\ TypeOK /\ Sound(k) /\ Sound(disk) /\ Grows(disk, k) /\ Lock /\ Todo /\ Prepared
      /\ Workers /\ LiveProcs /\ NoTokenLeak
    BY DEF IInv
<1>2. /\ sweep' = [on |-> TRUE, seen |-> tokens]
      /\ k' = k /\ disk' = disk /\ txn' = txn /\ jobs' = jobs /\ proc' = proc /\ tokens' = tokens
      /\ leaky' = leaky /\ upsets' = upsets
    BY DEF SweepRead, bounds
<1>3. sweep'.on /\ sweep'.seen = tokens /\ sweep' \in [on : BOOLEAN, seen : SUBSET Runs]
    BY <1>1, <1>2 DEF TypeOK
<1>4. TypeOK'
    BY <1>1, <1>2, <1>3 DEF TypeOK
<1>5. Sound(k') /\ Sound(disk') /\ Grows(disk', k')
    BY <1>1, <1>2
<1>6. Lock' /\ Todo' /\ Prepared'
    BY <1>1, <1>2 DEF Lock, Todo, Prepared, LockFree
<1>7. Workers' /\ LiveProcs'
    BY <1>1, <1>2 DEF Workers, Worker, LiveProcs
<1>8. NoTokenLeak'
    BY <1>1, <1>2 DEF NoTokenLeak, InHand
<1> QED BY <1>4, <1>5, <1>6, <1>7, <1>8 DEF IInv

\* The sweep recovers the runs it takes for stale.
LEMMA SweepRecoverStep == IInv /\ SweepRecover => IInv'
<1> SUFFICES ASSUME IInv, SweepRecover PROVE IInv'
    OBVIOUS
<1>1. TypeOK /\ Sound(k) /\ Lock /\ sweep.seen \in SUBSET Runs
    BY DEF IInv, TypeOK
<1>2. /\ LockFree /\ k' = Recovered(k, sweep.seen) /\ disk' = k' /\ txn' = txn /\ sweep' = NoSweep
      /\ jobs' = jobs /\ proc' = proc /\ tokens' = tokens /\ leaky' = leaky /\ upsets' = upsets
    BY DEF SweepRecover, Handler, bounds
<1>3. txn = NoTxn /\ k = disk
    BY <1>1, <1>2 DEF Lock
<1>4. Sound(disk') /\ Grows(disk, disk')
    BY <1>1, <1>2, <1>3, RecoveredSound DEF Evolves
<1>5. /\ upsets' \in 0 .. MaxUpsets /\ sweep' \in [on : BOOLEAN, seen : SUBSET Runs]
    BY <1>1, <1>2 DEF TypeOK, NoSweep
<1> QED BY <1>2, <1>3, <1>4, <1>5, PublishStep

\* A restart finds what was saved and nothing in memory.
LEMMA CrashStep == IInv /\ Crash => IInv'
<1> SUFFICES ASSUME IInv, Crash PROVE IInv'
    OBVIOUS
<1>1. TypeOK /\ Sound(disk) /\ disk \in Kernel
    BY DEF IInv, Sound
<1>2. /\ upsets < MaxUpsets /\ upsets' = upsets + 1 /\ leaky' = FALSE
      /\ k' = disk /\ txn' = NoTxn /\ disk' = disk
      /\ jobs' = [o \in Orchs |-> NoJob] /\ proc' = [r \in Runs |-> "none"]
      /\ tokens' = {} /\ sweep' = NoSweep
    BY DEF Crash, Upset
<1>3. TypeOK'
  <2>1. txn' \in Txn /\ jobs' \in [Orchs -> JobRecord]
    BY <1>2 DEF NoTxn, Txn, NoJob, JobRecord
  <2>2. proc' \in [Runs -> {"none", "live"} \cup ProcessEnd] /\ tokens' \in SUBSET Runs
    BY <1>2
  <2>3. sweep' \in [on : BOOLEAN, seen : SUBSET Runs]
    BY <1>2 DEF NoSweep
  <2>4. leaky' \in BOOLEAN
    BY <1>2, Zenon
  <2>5. upsets' \in 0 .. MaxUpsets
    BY <1>1, <1>2, KernelAssumption DEF TypeOK
  <2>6. k' \in Kernel /\ disk' \in Kernel
    BY <1>1, <1>2
  <2> QED BY <2>1, <2>2, <2>3, <2>4, <2>5, <2>6 DEF TypeOK
<1>4. Sound(k') /\ Sound(disk') /\ Grows(disk', k')
    BY <1>1, <1>2, GrowsRefl
<1>5. Lock' /\ Todo' /\ Prepared'
    BY <1>2 DEF Lock, Todo, Prepared, NoTxn, LockFree
<1>6. Workers' /\ LiveProcs' /\ NoTokenLeak'
    BY <1>2 DEF Workers, Worker, LiveProcs, NoTokenLeak, InHand, NoJob, NoSweep
<1> QED BY <1>3, <1>4, <1>5, <1>6 DEF IInv

-----------------------------------------------------------------------------
(* The invariant and what follows from it.                                 *)

\* Every step of the system preserves the invariant.
LEMMA NextIInv == IInv /\ [Next]_vars => IInv'
<1> SUFFICES ASSUME IInv, [Next]_vars PROVE IInv'
    OBVIOUS
<1>1. CASE LockHolder
  <2>1. CASE PropagatePass \/ PickBriefs \/ BriefInline \/ BriefPrepared \/ MergeBrief
    BY <2>1, PropagatePassStep, PickBriefsStep, BriefInlineStep, BriefPreparedStep, MergeBriefStep
  <2>2. CASE NextRound \/ TickRetry \/ TickPick \/ TickRun
    BY <2>2, NextRoundStep, TickRetryStep, TickPickStep, TickRunStep
  <2>3. CASE CommitPrepare \/ CommitMerge \/ CommitSync \/ CommitTick
    BY <2>3, CommitPrepareStep, CommitMergeStep, CommitStep
  <2> QED BY <1>1, <2>1, <2>2, <2>3 DEF LockHolder
<1>2. ASSUME NEW o \in Orchs, Job(o) PROVE IInv'
  <2>1. CASE StartJob(o) \/ (\E c \in BOOLEAN : JobCheck(o, c)) \/ JobRecords(o)
    BY <2>1, StartCheckRecordStep
  <2>2. CASE Spawn(o)
    BY <2>2, SpawnStep
  <2>3. CASE Finish(o)
    BY <2>3, FinishStep
  <2>4. CASE BeginPrepare(o) \/ BeginMerge(o)
    BY <2>4, BeginsStep
  <2>5. CASE \E r \in Runs : Panic(o, r)
    BY <2>5, ProcStep, PanicOfWorkerStep DEF Panic
  <2> QED BY <1>2, <2>1, <2>2, <2>3, <2>4, <2>5 DEF Job, Works, Locks
<1>3. CASE (\E o \in Orchs : BeginSync(o)) \/ BeginTick
    BY <1>3, BeginsStep
<1>4. CASE RoundFails \/ SaveFails
    BY <1>4, RoundFailsStep, CommitStep
<1>5. CASE \E t \in Tasks : Operator(t)
    BY <1>5, OperatorStep
<1>6. CASE \E r \in Runs : OnRun(r)
    BY <1>6, ProcStep, RetryRunStep, QuietStep DEF OnRun
<1>7. CASE SweepRead \/ SweepRecover \/ Crash
    BY <1>7, SweepReadStep, SweepRecoverStep, CrashStep
<1>8. CASE UNCHANGED vars
  <2>1. /\ k' = k /\ disk' = disk /\ txn' = txn /\ jobs' = jobs /\ proc' = proc /\ tokens' = tokens
        /\ sweep' = sweep /\ leaky' = leaky /\ upsets' = upsets
    BY <1>8 DEF vars, memory, bounds
  <2>2. /\ TypeOK' /\ Sound(k') /\ Sound(disk') /\ Grows(disk', k')
    BY <2>1 DEF IInv, TypeOK
  <2>3. Lock' /\ Todo' /\ Prepared'
    BY <2>1 DEF IInv, Lock, Todo, Prepared, LockFree
  <2>4. Workers' /\ LiveProcs' /\ NoTokenLeak'
    BY <2>1 DEF IInv, Workers, Worker, LiveProcs, NoTokenLeak, InHand
  <2> QED BY <2>2, <2>3, <2>4 DEF IInv
<1> QED BY <1>1, <1>2, <1>3, <1>4, <1>5, <1>6, <1>7, <1>8 DEF Next

\* The invariant is one of every behaviour, for any tasks, orchestrations,
\* budgets and bounds, whatever the operator calls and whatever fails.
THEOREM KernelInvariant == Spec => []IInv
BY InitIInv, NextIInv, PTL DEF Spec

\* Every variable keeps its shape: type correctness of the kernel, the jobs and
\* the registries.
THEOREM KernelTypeCorrect == Spec => []TypeOK
<1>1. IInv => TypeOK
    BY DEF IInv
<1> QED BY <1>1, KernelInvariant, PTL

\* A task saved as Running has a Running run (start_run, mark_run_stale, the
\* operator's routes): there is always something for the watchdog to recover.
THEOREM RunningTasksHaveRuns == Spec => []RunningTaskHasRun
<1>1. IInv => RunningTaskHasRun
    BY ActiveRunFacts DEF IInv, Sound, Executing, RunningTaskHasRun
<1> QED BY <1>1, KernelInvariant, PTL

\* A token belongs to a run some worker has in hand (run_parallel_round), until
\* the save of a merge fails or a panic takes the worker of a single brief down.
THEOREM TokensHaveWorkers == Spec => []NoTokenLeak
<1>1. IInv => NoTokenLeak
    BY DEF IInv
<1> QED BY <1>1, KernelInvariant, PTL

\* A brief saved as completed has a completed run of its task, no newer than
\* the run it names (record_brief_outcome).
THEOREM CompletedBriefsRan == Spec => []CompletedBriefRan
<1>1. IInv => CompletedBriefRan
    BY DEF IInv, Sound, Earned, CompletedBriefRan, RunsOf
<1> QED BY <1>1, KernelInvariant, PTL

\* The lineages retry_run writes descend, so that transient_attempt_for ends.
THEOREM LineagesDescend == Spec => []LineageDescends
<1>1. IInv => LineageDescends
    BY DEF IInv, Sound, Descends, LineageDescends
<1> QED BY <1>1, KernelInvariant, PTL
=============================================================================
