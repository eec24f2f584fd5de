-------------------------- MODULE KernelBoardProofs --------------------------
(***************************************************************************)
(* Proofs about the briefs of KernelRuns: what an orchestration's status   *)
(* says is true, and, if the batch route is not called while a job's       *)
(* briefs run, the saved outcomes implement the abstract board.            *)
(***************************************************************************)
EXTENDS KernelRunsProofs

-----------------------------------------------------------------------------
(* How the board changes.                                                  *)

\* The brief can be executed.
Open(K, t) == K.step[t] = "pending" /\ \A d \in Deps[t] : K.step[d] = "completed"

\* From K to L every changed outcome was pending and is one the board allows.
Progress(K, L) ==
    \A t \in Tasks :
        \/ L.step[t] = K.step[t]
        \/ K.step[t] = "pending" /\ (Board!Executed(L.step, t) \/ Board!Abandoned(L.step, t))

\* The runs of S are runs of different briefs, all of them open.
Hands(K, S) ==
    \A r \in S : /\ K.rtask[r] \in Tasks /\ Open(K, K.rtask[r])
                 /\ \A q \in S : q # r => K.rtask[q] # K.rtask[r]

Truth(K) ==
    \A o \in Orchs :
        /\ K.orch[o] = "completed" => \A t \in Briefs(o) : K.step[t] = "completed"
        /\ K.orch[o] = "attention" => \A t \in Briefs(o) : K.step[t] # "pending"

\* Dependencies are tasks of the same orchestration.
LEMMA DepTasks ==
    ASSUME NEW t \in Tasks, NEW d \in Deps[t]
    PROVE  d \in Tasks /\ OrchOf[d] = OrchOf[t]
BY KernelAssumption

\* An outcome that is not pending stays.
LEMMA ProgressFinal ==
    ASSUME NEW K, NEW L, Progress(K, L), NEW t \in Tasks, K.step[t] # "pending"
    PROVE  L.step[t] = K.step[t]
BY DEF Progress

\* Progress composes.
LEMMA ProgressTrans ==
    ASSUME NEW K, NEW L, NEW M, Progress(K, L), Progress(L, M)
    PROVE  Progress(K, M)
<1> SUFFICES ASSUME NEW t \in Tasks, M.step[t] # K.step[t]
             PROVE  /\ K.step[t] = "pending"
                    /\ Board!Executed(M.step, t) \/ Board!Abandoned(M.step, t)
    BY DEF Progress
<1>1. CASE L.step[t] = K.step[t]
    BY <1>1 DEF Progress
<1>2. CASE L.step[t] # K.step[t]
  <2>1. /\ K.step[t] = "pending"
        /\ Board!Executed(L.step, t) \/ Board!Abandoned(L.step, t)
    BY <1>2 DEF Progress
  <2>2. L.step[t] # "pending"
    BY <2>1 DEF Board!Executed, Board!Abandoned
  <2>3. M.step[t] = L.step[t]
    BY <2>2, ProgressFinal
  <2>4. \A d \in Deps[t] : L.step[d] # "pending" => M.step[d] = L.step[d]
    BY DepTasks, ProgressFinal
  <2>5. CASE Board!Executed(L.step, t)
    BY <2>1, <2>3, <2>4, <2>5 DEF Board!Executed
  <2>6. CASE Board!Abandoned(L.step, t)
    BY <2>1, <2>3, <2>4, <2>6 DEF Board!Abandoned
  <2> QED BY <2>1, <2>5, <2>6
<1> QED BY <1>1, <1>2

\* The board that is not touched makes progress.
LEMMA ProgressSame ==
    ASSUME NEW K, NEW L, L.step = K.step
    PROVE  Progress(K, L)
BY DEF Progress

\* Brief t gets an outcome.
Recorded(K, L, t, a) == L.step = [K.step EXCEPT ![t] = a]

\* An open brief is executed.
LEMMA ProgressExecuted ==
    ASSUME NEW K \in Kernel, NEW L, NEW t \in Tasks, Open(K, t),
           NEW a \in {"completed", "failed", "blocked"}, Recorded(K, L, t, a)
    PROVE  Progress(K, L)
<1>1. K.step \in [Tasks -> StepOutcome]
    BY KernelFields
<1>2. \A d \in Deps[t] : d # t /\ L.step[d] = "completed"
    BY <1>1, DepTasks DEF Open, Recorded
<1>3. Board!Executed(L.step, t)
    BY <1>1, <1>2 DEF Board!Executed, Recorded
<1> QED BY <1>1, <1>3 DEF Progress, Open, Recorded

\* propagate_dependency_blocks abandons the briefs it blocks.
LEMMA ProgressBlocked ==
    ASSUME NEW K \in Kernel, NEW L, NEW o,
           L.step = [t \in Tasks |-> IF t \in Blocking(K, o) THEN "blocked" ELSE K.step[t]]
    PROVE  Progress(K, L)
<1> SUFFICES ASSUME NEW t \in Tasks, L.step[t] # K.step[t]
             PROVE  K.step[t] = "pending" /\ Board!Abandoned(L.step, t)
    BY DEF Progress
<1>1. t \in Blocking(K, o) /\ L.step[t] = "blocked"
    OBVIOUS
<1>2. PICK d \in Deps[t] : K.step[d] \in {"failed", "blocked"}
    BY <1>1 DEF Blocking
<1>3. d \in Tasks /\ d \notin Blocking(K, o)
    BY <1>2, DepTasks DEF Blocking
<1>4. L.step[d] = K.step[d]
    BY <1>3
<1> QED BY <1>1, <1>2, <1>4 DEF Blocking, Board!Abandoned

\* An open brief whose outcome stays pending stays open.
LEMMA HandsKeep ==
    ASSUME NEW K, NEW L, NEW S, Hands(K, S), Progress(K, L),
           \A r \in S : L.rtask[r] = K.rtask[r] /\ L.step[K.rtask[r]] = K.step[K.rtask[r]]
    PROVE  Hands(L, S)
<1> SUFFICES ASSUME NEW r \in S
             PROVE  /\ L.rtask[r] \in Tasks /\ Open(L, L.rtask[r])
                    /\ \A q \in S : q # r => L.rtask[q] # L.rtask[r]
    BY DEF Hands
<1>1. K.rtask[r] \in Tasks /\ Open(K, K.rtask[r]) /\ L.rtask[r] = K.rtask[r]
    BY DEF Hands
<1>2. L.step[K.rtask[r]] = "pending"
    BY <1>1 DEF Open
<1>3. \A d \in Deps[K.rtask[r]] : L.step[d] = "completed"
    BY <1>1, DepTasks, ProgressFinal DEF Open
<1> QED BY <1>1, <1>2, <1>3 DEF Hands, Open

\* Outcomes of open orchestrations may change.
LEMMA TruthKeeps ==
    ASSUME NEW K, NEW L, Truth(K), L.orch = K.orch,
           \A t \in Tasks : L.step[t] # K.step[t] => K.step[t] = "pending"
    PROVE  Truth(L)
BY DEF Truth, Briefs

\* finalize_orchestration_batch computes the status of its own orchestration.
LEMMA TruthStatus ==
    ASSUME NEW K \in Kernel, NEW D, Truth(D), NEW o \in Orchs, NEW L,
           L.step = K.step, L.orch = [K.orch EXCEPT ![o] = StatusOf(K, o)], K.orch = D.orch,
           \A t \in Tasks : K.step[t] # D.step[t] => OrchOf[t] = o
    PROVE  Truth(L)
<1> SUFFICES ASSUME NEW p \in Orchs
             PROVE  /\ L.orch[p] = "completed" => \A t \in Briefs(p) : L.step[t] = "completed"
                    /\ L.orch[p] = "attention" => \A t \in Briefs(p) : L.step[t] # "pending"
    BY DEF Truth
<1>1. K.orch \in [Orchs -> OrchStatus]
    BY KernelFields
<1>2. CASE p = o
  <2>1. L.orch[p] = StatusOf(K, o)
    BY <1>1, <1>2
  <2>2. StatusOf(K, o) = "completed" => \A t \in Briefs(o) : K.step[t] = "completed"
    BY Zenon DEF StatusOf
  <2>3. StatusOf(K, o) = "attention" => ~ \E t \in Briefs(o) : K.step[t] = "pending"
    BY Zenon DEF StatusOf
  <2> QED BY <1>2, <2>1, <2>2, <2>3
<1>3. CASE p # o
  <2>1. L.orch[p] = D.orch[p]
    BY <1>1, <1>3
  <2>2. \A t \in Briefs(p) : L.step[t] = D.step[t]
    BY <1>3 DEF Briefs
  <2> QED BY <2>1, <2>2 DEF Truth
<1> QED BY <1>2, <1>3

-----------------------------------------------------------------------------
(* What the holder's steps do to the board.                                *)

\* Everything but the holder's copy and its list stays.
Working ==
    /\ disk' = disk /\ jobs' = jobs /\ proc' = proc /\ txn'.op = txn.op /\ txn'.orch = txn.orch
    /\ k' \in Kernel /\ Grows(k, k') /\ k'.orch = k.orch

\* propagate_dependency_blocks
LEMMA PropagateFacts ==
    ASSUME IInv, PropagatePass
    PROVE  /\ Working /\ Steady(k, k') /\ txn' = txn /\ txn.op \in {"prepare", "merge", "sync"}
           /\ txn.phase = "propagate"
           /\ k'.step = [t \in Tasks |-> IF t \in Blocking(k, txn.orch) THEN "blocked" ELSE k.step[t]]
<1>1. Sound(k) /\ Lock /\ txn \in Txn
    BY DEF IInv, TypeOK
<1>2. /\ txn.phase = "propagate" /\ k' = Block(k, Blocking(k, txn.orch))
      /\ txn' = txn /\ disk' = disk /\ jobs' = jobs /\ proc' = proc
    BY DEF PropagatePass, Propagating, memory
<1>3. txn.op \in {"prepare", "merge", "sync"}
    BY <1>1, <1>2 DEF Lock, LockFree, NoTxn, Txn
<1>4. /\ Sound(k') /\ Evolves(k, k') /\ k'.orch = k.orch
      /\ k'.step = [t \in Tasks |-> IF t \in Blocking(k, txn.orch) THEN "blocked" ELSE k.step[t]]
    BY <1>1, <1>2, BlockSound
<1> QED BY <1>2, <1>3, <1>4 DEF Working, Sound, Evolves

\* A brief that ends under the lock.
LEMMA InlineFacts ==
    ASSUME IInv, BriefInline
    PROVE  /\ Working /\ Steady(k, k') /\ txn'.phase = txn.phase /\ txn'.runs = txn.runs
           /\ txn.op \in {"prepare", "sync"} /\ txn.phase = "briefs"
           /\ \E t \in txn.todo : \E a \in {"completed", "failed", "blocked"} :
                 /\ t \in Tasks /\ OrchOf[t] = txn.orch /\ Open(k, t)
                 /\ txn'.todo = txn.todo \ {t} /\ k'.step = [k.step EXCEPT ![t] = a]
<1>1. TypeOK /\ Sound(k) /\ Lock /\ Todo /\ k \in Kernel /\ txn \in Txn
    BY DEF IInv, Sound, TypeOK
<1> DEFINE t == Min(txn.todo)
<1>2. /\ txn.phase = "briefs" /\ t \in txn.todo /\ txn' = [txn EXCEPT !.todo = @ \ {t}]
      /\ disk' = disk /\ jobs' = jobs /\ proc' = proc
    BY <1>1, NextTodo DEF BriefInline, memory
<1>3. PICK e \in Executions(k, t, Results) : k' = RecordOutcome(e.k, t, e.res)
    BY DEF BriefInline
<1> HIDE DEF t
<1>4. /\ txn'.op = txn.op /\ txn'.orch = txn.orch /\ txn'.phase = txn.phase
      /\ txn'.todo = txn.todo \ {t} /\ txn'.runs = txn.runs
    BY <1>1, <1>2 DEF Txn
<1>5. t \in Ready(k, txn.orch)
    BY <1>1, <1>2 DEF Todo
<1>6. t \in Tasks /\ OrchOf[t] = txn.orch /\ Open(k, t)
    BY <1>5 DEF Ready, Briefs, Open
<1>7. Sound(e.k) /\ Evolves(k, e.k) /\ SameBoard(k, e.k)
    BY <1>1, <1>3, <1>6, ExecutionsSound
<1>8. e.res = "ok" => \E r \in Runs : e.k.rstat[r] = "completed" /\ e.k.rtask[r] = t
    BY <1>1, <1>3, <1>6, ExecutionsSound
<1>9. /\ Sound(k') /\ Evolves(e.k, k') /\ k'.orch = k.orch
      /\ k'.step = [k.step EXCEPT ![t] = OutcomeAfter(e.res)]
  <2> DEFINE M == e.k
  <2> DEFINE res == e.res
  <2>1. Sound(M) /\ M.step = k.step /\ M.orch = k.orch /\ Backed(M, t, res)
    BY <1>7, <1>8 DEF Backed, SameBoard
  <2>2. k' = RecordOutcome(M, t, res)
    BY <1>3
  <2> HIDE DEF M, res
  <2>3. /\ Sound(RecordOutcome(M, t, res)) /\ Evolves(M, RecordOutcome(M, t, res))
        /\ RecordOutcome(M, t, res).step = [M.step EXCEPT ![t] = OutcomeAfter(res)]
        /\ RecordOutcome(M, t, res).orch = M.orch
    BY <1>6, <2>1, RecordSound
  <2> QED BY <2>1, <2>2, <2>3 DEF M, res
<1>10. Working /\ Steady(k, k')
  <2>1. Evolves(k, k')
    BY <1>1, <1>7, <1>9, EvolvesTrans DEF Sound
  <2> QED BY <1>2, <1>4, <1>9, <2>1 DEF Working, Sound, Evolves
<1>11. OutcomeAfter(e.res) \in {"completed", "failed", "blocked"}
    BY EndingTypes
<1>12. txn.op \in {"prepare", "sync"}
    BY <1>1, <1>2 DEF Lock, LockFree, NoTxn, Txn
<1> QED BY <1>2, <1>4, <1>6, <1>9, <1>10, <1>11, <1>12

\* A brief that will run off the lock.
LEMMA PreparedFacts ==
    ASSUME IInv, BriefPrepared
    PROVE  /\ Working /\ Steady(k, k')
           /\ txn'.phase = txn.phase /\ txn.op = "prepare" /\ txn.phase = "briefs"
           /\ k'.step = k.step
           /\ \E t \in txn.todo : \E r \in Runs :
                 /\ t \in Tasks /\ Open(k, t) /\ k'.rtask[r] = t
                 /\ txn'.todo = txn.todo \ {t} /\ txn'.runs = txn.runs \cup {r}
<1>1. TypeOK /\ Sound(k) /\ Lock /\ Todo /\ k \in Kernel /\ txn \in Txn
    BY DEF IInv, Sound, TypeOK
<1> DEFINE t == Min(txn.todo)
<1> DEFINE s == IF k.task[t] = "queued" THEN StartRun(k, t) ELSE k
<1> DEFINE r == ActiveRun(s, t)
<1>2. /\ txn.op = "prepare" /\ txn.phase = "briefs" /\ t \in txn.todo
      /\ k.task[t] = "queued" => k.next < MaxRuns
      /\ r # NoRun /\ k' = Handed(s, t, r)
      /\ txn' = [txn EXCEPT !.todo = @ \ {t}, !.runs = @ \cup {r}]
      /\ disk' = disk /\ jobs' = jobs /\ proc' = proc
    BY <1>1, NextTodo DEF BriefPrepared, Handed, memory
<1>3. t \in Ready(k, txn.orch)
    BY <1>1, <1>2 DEF Todo
<1>4. t \in Tasks /\ Open(k, t)
    BY <1>3 DEF Ready, Briefs, Open
<1> HIDE DEF t
<1>5. Sound(s) /\ Evolves(k, s) /\ SameBoard(k, s)
  <2>1. Evolves(k, k) /\ SameBoard(k, k)
    BY <1>1, EvolvesRefl DEF SameBoard
  <2> QED BY <1>1, <1>2, <1>4, <2>1, StartRunSound
<1> HIDE DEF s
<1>6. r \in Runs /\ s.rtask[r] = t
    BY <1>2, ActiveRunFacts
<1> HIDE DEF r
<1>7. /\ Sound(k') /\ Evolves(s, k') /\ k'.step = s.step /\ k'.orch = s.orch /\ k'.rtask = s.rtask
  <2>1. s.step[t] # "completed"
    BY <1>4, <1>5 DEF SameBoard, Open
  <2> QED BY <1>2, <1>4, <1>5, <1>6, <2>1, PreparedSound
<1>8. /\ txn'.op = txn.op /\ txn'.orch = txn.orch /\ txn'.phase = txn.phase
      /\ txn'.todo = txn.todo \ {t} /\ txn'.runs = txn.runs \cup {r}
    BY <1>1, <1>2 DEF Txn
<1>9. Working /\ Steady(k, k')
  <2>1. Evolves(k, k')
    BY <1>1, <1>5, <1>7, EvolvesTrans DEF Sound
  <2>2. k' \in Kernel /\ k'.orch = k.orch
    BY <1>5, <1>7 DEF Sound, SameBoard
  <2> QED BY <1>2, <1>8, <2>1, <2>2 DEF Working, Evolves
<1>10. k'.step = k.step /\ k'.rtask[r] = t
    BY <1>5, <1>6, <1>7 DEF SameBoard
<1> QED BY <1>2, <1>4, <1>6, <1>8, <1>9, <1>10

\* The run state an execution ends in tells how it ended.
LEMMA RunAfterVerdict ==
    ASSUME NEW K, NEW r, NEW res
    PROVE  RunAfter(K, r, res) \in Verdict(res)
<1>1. Planned(K, r) \in {"retry", "spent"}
    BY DEF Planned
<1>2. CASE res = "ok"
    BY <1>2 DEF RunAfter, Verdict
<1>3. CASE res = "cancelled"
    BY <1>3 DEF RunAfter, Verdict
<1>4. CASE res = "transient"
    BY <1>1, <1>4 DEF RunAfter, Verdict
<1>5. CASE res \notin {"ok", "cancelled", "transient"}
    BY <1>5 DEF RunAfter, Verdict
<1> QED BY <1>2, <1>3, <1>4, <1>5

\* What finalizing a brief does to the board and to its run.
LEMMA MergedBoard ==
    ASSUME NEW K \in Kernel, NEW r \in Runs, K.rtask[r] \in Tasks, NEW res, res # "dangling",
           NEW L, L = RecordOutcome(Settle(K, r, res), K.rtask[r], res)
    PROVE  /\ L.rtask = K.rtask /\ L.orch = K.orch
           /\ L.rstat[r] \in Verdict(res) /\ \A q \in Runs \ {r} : L.rstat[q] = K.rstat[q]
           /\ L.step = [K.step EXCEPT ![K.rtask[r]] = OutcomeAfter(res)]
<1> DEFINE S == Settle(K, r, res)
<1> DEFINE t == K.rtask[r]
<1> DEFINE a == RunAfter(K, r, res)
<1> DEFINE b == TaskAfter(res)
<1>1. Settled(K, S, r, t, a, b)
    BY SettleFields
<1>2. L = RecordOutcome(S, t, res) /\ t \in Tasks /\ a \in Verdict(res)
    BY RunAfterVerdict
<1> HIDE DEF S, t, a, b
<1>3. /\ S \in Kernel /\ S.rtask = K.rtask /\ S.step = K.step /\ S.orch = K.orch
      /\ S.rstat[r] \in Verdict(res) /\ \A q \in Runs \ {r} : S.rstat[q] = K.rstat[q]
    BY <1>1, <1>2, KernelFields DEF Settled, SameBoard
<1>4. /\ L \in Kernel /\ L.step = [S.step EXCEPT ![t] = OutcomeAfter(res)]
      /\ L.srun = [S.srun EXCEPT ![t] = NewestRun(S, t)]
      /\ L.task = S.task /\ L.rtask = S.rtask /\ L.rstat = S.rstat /\ L.from = S.from
      /\ L.quiet = S.quiet /\ L.next = S.next /\ L.orch = S.orch
    BY <1>2, <1>3, RecordFields
<1> QED BY <1>3, <1>4 DEF t

\* finalize_prepared_brief
LEMMA MergeFacts ==
    ASSUME IInv, MergeBrief
    PROVE  /\ Working /\ txn'.phase = txn.phase /\ txn.op = "merge" /\ k'.rtask = k.rtask
           /\ \E r \in txn.todo : \E a \in {"completed", "failed", "blocked"} :
                 /\ k.rtask[r] \in Tasks /\ OrchOf[k.rtask[r]] = txn.orch
                 /\ k'.rstat[r] \in Verdict(proc[r]) /\ \A q \in Runs \ {r} : k'.rstat[q] = k.rstat[q]
                 /\ txn'.todo = txn.todo \ {r} /\ k'.step = [k.step EXCEPT ![k.rtask[r]] = a]
<1>1. /\ TypeOK /\ Sound(k) /\ Lock /\ Todo /\ Workers /\ Grows(disk, k)
      /\ k \in Kernel /\ disk \in Kernel /\ txn \in Txn /\ Numbered(k)
    BY DEF IInv, Sound, TypeOK
<1> DEFINE r == Min(txn.todo)
<1> DEFINE res == proc[r]
<1>2. /\ txn.op = "merge" /\ r \in txn.todo
      /\ k' = RecordOutcome(Settle(k, r, res), k.rtask[r], res)
      /\ txn' = [txn EXCEPT !.todo = @ \ {r}] /\ disk' = disk /\ jobs' = jobs /\ proc' = proc
    BY <1>1, NextTodo DEF MergeBrief, memory
<1> HIDE DEF r
<1>3. r \in Runs /\ r <= disk.next /\ OrchOf[disk.rtask[r]] = txn.orch
    BY <1>1, <1>2, JobFields DEF Lock, Todo, Workers, Worker
<1>4. r <= k.next
    BY <1>1, <1>3, KernelFields, KernelAssumption DEF Grows, Runs
<1>5. k.rtask[r] \in Tasks /\ OrchOf[k.rtask[r]] = txn.orch
    BY <1>1, <1>3, <1>4 DEF Grows, Numbered
<1>6. res # "dangling" /\ res = proc[r]
    BY <1>1, <1>3 DEF TypeOK, ProcessEnd
<1> HIDE DEF res
<1>7. Sound(k') /\ Grows(k, k')
  <2>1. ASSUME NEW L, L = RecordOutcome(Settle(k, r, res), k.rtask[r], res)
        PROVE  Sound(L) /\ Grows(k, L)
    BY <1>1, <1>3, <1>4, <1>6, <2>1, MergeSound
  <2> QED BY <1>2, <2>1
<1>8. /\ k'.rtask = k.rtask /\ k'.orch = k.orch
      /\ k'.rstat[r] \in Verdict(res) /\ \A q \in Runs \ {r} : k'.rstat[q] = k.rstat[q]
      /\ k'.step = [k.step EXCEPT ![k.rtask[r]] = OutcomeAfter(res)]
  <2>1. ASSUME NEW L, L = RecordOutcome(Settle(k, r, res), k.rtask[r], res)
        PROVE  /\ L.rtask = k.rtask /\ L.orch = k.orch
               /\ L.rstat[r] \in Verdict(res) /\ \A q \in Runs \ {r} : L.rstat[q] = k.rstat[q]
               /\ L.step = [k.step EXCEPT ![k.rtask[r]] = OutcomeAfter(res)]
    BY <1>1, <1>3, <1>5, <1>6, <2>1, MergedBoard
  <2> QED BY <1>2, <2>1
<1>9. /\ txn'.op = txn.op /\ txn'.orch = txn.orch /\ txn'.phase = txn.phase
      /\ txn'.todo = txn.todo \ {r}
    BY <1>1, <1>2 DEF Txn
<1>10. Working
    BY <1>2, <1>7, <1>8, <1>9 DEF Working, Sound
<1>11. OutcomeAfter(res) \in {"completed", "failed", "blocked"}
    BY EndingTypes
<1> QED BY <1>2, <1>5, <1>6, <1>7, <1>8, <1>9, <1>10, <1>11

\* The other steps of a holder leave the board alone.
LEMMA OtherFacts ==
    ASSUME IInv, PickBriefs \/ NextRound \/ TickRetry \/ TickPick \/ TickRun
    PROVE  Working /\ Steady(k, k') /\ k'.step = k.step
<1>1. TypeOK /\ Sound(k) /\ Todo /\ k \in Kernel /\ txn \in Txn
    BY DEF IInv, Sound, TypeOK
<1>2. disk' = disk /\ jobs' = jobs /\ proc' = proc
    BY DEF PickBriefs, NextRound, TickRetry, TickPick, TickRun, memory
<1>3. txn'.op = txn.op /\ txn'.orch = txn.orch
    BY <1>1 DEF PickBriefs, NextRound, TickRetry, TickPick, TickRun, Txn
<1>4. Sound(k') /\ Evolves(k, k') /\ SameBoard(k, k')
  <2>1. CASE PickBriefs \/ NextRound \/ TickPick
    <3>1. k' = k
      BY <2>1 DEF PickBriefs, NextRound, TickPick
    <3> QED BY <1>1, <3>1, EvolvesRefl DEF SameBoard
  <2>2. CASE TickRetry
    <3> DEFINE r == Min(txn.todo)
    <3>1. txn.phase = "retries" /\ r \in txn.todo /\ k' \in Retries(k, r)
      BY <1>1, <2>2, NextTodo DEF TickRetry
    <3> HIDE DEF r
    <3>2. r \in Runs /\ r <= k.next
      BY <1>1, <3>1 DEF Todo
    <3> QED BY <1>1, <3>1, <3>2, RetriesSound
  <2>3. CASE TickRun
    <3> DEFINE t == Min(txn.todo)
    <3>1. txn.phase = "tasks" /\ t \in txn.todo
      BY <1>1, <2>3, NextTodo DEF TickRun
    <3>2. PICK e \in Executions(k, t, Results) : k' = e.k
      BY <2>3 DEF TickRun
    <3> HIDE DEF t
    <3>3. t \in Tasks
      BY <1>1, <3>1 DEF Todo
    <3> QED BY <1>1, <3>2, <3>3, ExecutionsSound
  <2> QED BY <2>1, <2>2, <2>3
<1> QED BY <1>2, <1>3, <1>4 DEF Working, Sound, SameBoard, Evolves

\* The operator's routes and the watchdog leave the board alone.
LEMMA EditFacts ==
    ASSUME IInv,
           \/ \E t \in Tasks : Operator(t)
           \/ \E r \in Runs : RetryRun(r) \/ ResumeRun(r) \/ Quiet(r)
           \/ SweepRecover
    PROVE  /\ LockFree /\ txn' = txn /\ jobs' = jobs /\ proc' = proc /\ k' = disk'
           /\ disk'.step = disk.step /\ disk'.orch = disk.orch /\ Evolves(disk, disk')
<1>1. Sound(k) /\ k \in Kernel /\ Numbered(k) /\ Lock /\ TypeOK
    BY DEF IInv, Sound
<1>2. ASSUME NEW L, Evolves(k, L), SameBoard(k, L), Edit(L)
      PROVE  /\ LockFree /\ txn' = txn /\ jobs' = jobs /\ proc' = proc /\ k' = disk'
             /\ disk'.step = disk.step /\ disk'.orch = disk.orch /\ Evolves(disk, disk')
  <2>1. LockFree /\ txn' = txn /\ jobs' = jobs /\ proc' = proc /\ k' = L /\ disk' = L
    BY <1>2 DEF Edit, Handler, memory
  <2>2. k = disk
    BY <1>1, <2>1 DEF Lock
  <2> QED BY <1>2, <2>1, <2>2 DEF SameBoard
<1>3. ASSUME NEW t \in Tasks, Operator(t)
      PROVE  \E L : Evolves(k, L) /\ SameBoard(k, L) /\ Edit(L)
  <2>1. CASE Assign(t) \/ Reopen(t)
    BY <1>1, <2>1, RequeueSound DEF Assign, Reopen
  <2>2. CASE ReopenAndRun(t)
    BY <1>1, <2>2, RequeueExecuted DEF ReopenAndRun
  <2>3. CASE ExecuteTask(t)
    BY <1>1, <2>3, ExecutionsSound DEF ExecuteTask
  <2>4. CASE PrimeStartRun(t)
    <3> DEFINE S == StartRun(k, t)
    <3>1. PICK e \in Executions(S, t, Results) : Edit(e.k)
      BY <2>4 DEF PrimeStartRun
    <3>2. Sound(S) /\ Evolves(k, S) /\ SameBoard(k, S)
      BY <1>1, <2>4, StartRunSound DEF PrimeStartRun
    <3> HIDE DEF S
    <3>3. Sound(e.k) /\ Evolves(S, e.k) /\ SameBoard(S, e.k)
      BY <3>1, <3>2, ExecutionsSound
    <3>4. Evolves(k, e.k) /\ SameBoard(k, e.k)
      BY <1>1, <3>2, <3>3, EvolvesTrans DEF Sound, SameBoard
    <3> QED BY <3>1, <3>4
  <2>5. CASE \E s \in {"blocked", "cancelled"} : SetTaskStatus(t, s)
    <3>1. PICK s \in {"blocked", "cancelled"} : SetTaskStatus(t, s)
      BY <2>5
    <3>2. s \in TaskStatus \ {"running"}
      BY DEF TaskStatus
    <3> DEFINE L == [k EXCEPT !.task[t] = s]
    <3>3. L = [k EXCEPT !.task[t] = s] /\ Edit(L)
      BY <3>1 DEF SetTaskStatus
    <3> HIDE DEF L
    <3>4. Evolves(k, L) /\ SameBoard(k, L)
      BY <1>1, <3>2, <3>3, StatusSound
    <3> QED BY <3>3, <3>4
  <2> QED BY <1>3, <2>1, <2>2, <2>3, <2>4, <2>5 DEF Operator
<1>4. ASSUME NEW r \in Runs, RetryRun(r) \/ ResumeRun(r)
      PROVE  \E L : Evolves(k, L) /\ SameBoard(k, L) /\ Edit(L)
  <2>1. k.rstat[r] # "absent"
    BY <1>4 DEF RetryRun, ResumeRun, Failed
  <2>2. r <= k.next /\ k.rtask[r] \in Tasks
    BY <1>1, <2>1, KernelFields, KernelAssumption DEF Numbered, Runs
  <2>3. CASE RetryRun(r)
    BY <1>1, <2>2, <2>3, RetriesSound DEF RetryRun
  <2>4. CASE ResumeRun(r)
    <3> DEFINE t == k.rtask[r]
    <3>1. PICK e \in Executions(Requeue(k, t), t, Results \ {"unsupported", "dangling"}) : Edit(e.k)
      BY <2>4 DEF ResumeRun
    <3>2. t \in Tasks
      BY <2>2
    <3> HIDE DEF t
    <3> QED BY <1>1, <3>1, <3>2, RequeueExecuted
  <2> QED BY <1>4, <2>3, <2>4
<1>5. CASE \E r \in Runs : Quiet(r)
  <2>1. PICK r \in Runs : Quiet(r)
    BY <1>5
  <2>2. /\ LockFree /\ txn' = txn /\ jobs' = jobs /\ proc' = proc /\ disk' = k'
        /\ k' = [k EXCEPT !.quiet = @ \cup {r}]
    BY <2>1 DEF Quiet, memory
  <2>3. /\ k'.step = k.step /\ k'.orch = k.orch /\ k'.rtask = k.rtask
        /\ k'.rstat = k.rstat /\ k'.next = k.next
    BY <1>1, <2>2 DEF Kernel
  <2>4. Evolves(k, k')
    BY <1>1, <2>3, KernelFields, KernelAssumption DEF Evolves, Grows, Steady
  <2> QED BY <1>1, <2>2, <2>3, <2>4 DEF Lock
<1>6. CASE SweepRecover
  <2>1. /\ LockFree /\ txn' = txn /\ jobs' = jobs /\ proc' = proc
        /\ disk' = k' /\ k' = Recovered(k, sweep.seen)
    BY <1>6 DEF SweepRecover, Handler
  <2>2. sweep.seen \in SUBSET Runs
    BY <1>1 DEF TypeOK
  <2>3. SameBoard(k, k') /\ Evolves(k, k')
    BY <1>1, <2>1, <2>2, RecoveredSound
  <2> QED BY <1>1, <2>1, <2>3 DEF Lock, SameBoard
<1> QED BY <1>2, <1>3, <1>4, <1>5, <1>6

-----------------------------------------------------------------------------
(* The status of an orchestration.                                         *)

\* Only the holder's own orchestration is worked on, and only a merge records
\* outcomes without knowing that they are open.
BInv ==
    /\ k.orch = disk.orch
    /\ \A t \in Tasks : k.step[t] # disk.step[t] =>
          OrchOf[t] = txn.orch /\ txn.op \in {"prepare", "merge", "sync"}
    /\ Truth(disk)
    /\ txn.op # "merge" => Truth(k)

\* A step of the holder that leaves other orchestrations alone.
LEMMA HolderTruth ==
    ASSUME BInv, Working,
           \A t \in Tasks : k'.step[t] # k.step[t] =>
              /\ OrchOf[t] = txn.orch /\ txn.op \in {"prepare", "merge", "sync"}
              /\ txn.op = "merge" \/ k.step[t] = "pending"
    PROVE  BInv'
<1>1. k'.orch = disk'.orch
    BY DEF BInv, Working
<1>2. \A t \in Tasks : k'.step[t] # disk'.step[t] =>
         OrchOf[t] = txn'.orch /\ txn'.op \in {"prepare", "merge", "sync"}
    BY DEF BInv, Working
<1>3. Truth(disk')
    BY DEF BInv, Working
<1>4. txn'.op # "merge" => Truth(k')
    BY TruthKeeps DEF BInv, Working
<1> QED BY <1>1, <1>2, <1>3, <1>4 DEF BInv, Truth

\* A step after which nothing is unsaved.
LEMMA SavedTruth ==
    ASSUME k' = disk', Truth(disk')
    PROVE  BInv'
BY DEF BInv, Truth

\* The steps of a holder before it saves.
LEMMA WorkTruth ==
    ASSUME IInv, BInv,
           \/ PropagatePass \/ BriefInline \/ BriefPrepared \/ MergeBrief
           \/ PickBriefs \/ NextRound \/ TickRetry \/ TickPick \/ TickRun
    PROVE  BInv'
<1>1. k.step \in [Tasks -> StepOutcome]
    BY KernelFields DEF IInv, TypeOK
<1>2. CASE PropagatePass
  <2>1. /\ Working /\ txn.op \in {"prepare", "merge", "sync"}
        /\ k'.step = [t \in Tasks |-> IF t \in Blocking(k, txn.orch) THEN "blocked" ELSE k.step[t]]
    BY <1>2, PropagateFacts
  <2>2. \A t \in Tasks : k'.step[t] # k.step[t] => OrchOf[t] = txn.orch /\ k.step[t] = "pending"
    BY <2>1 DEF Blocking, Briefs
  <2> QED BY <2>1, <2>2, HolderTruth
<1>3. CASE BriefInline
  <2>1. Working /\ txn.op \in {"prepare", "sync"}
    BY <1>3, InlineFacts
  <2>2. PICK t \in txn.todo : \E a \in {"completed", "failed", "blocked"} :
           /\ t \in Tasks /\ OrchOf[t] = txn.orch /\ Open(k, t)
           /\ k'.step = [k.step EXCEPT ![t] = a]
    BY <1>3, InlineFacts
  <2>3. \A u \in Tasks : k'.step[u] # k.step[u] => u = t
    BY <1>1, <2>2
  <2> QED BY <2>1, <2>2, <2>3, HolderTruth DEF Open
<1>4. CASE BriefPrepared
  <2>1. Working /\ k'.step = k.step
    BY <1>4, PreparedFacts
  <2> QED BY <2>1, HolderTruth
<1>5. CASE MergeBrief
  <2>1. Working /\ txn.op = "merge"
    BY <1>5, MergeFacts
  <2>2. PICK r \in txn.todo : \E a \in {"completed", "failed", "blocked"} :
           OrchOf[k.rtask[r]] = txn.orch /\ k'.step = [k.step EXCEPT ![k.rtask[r]] = a]
    BY <1>5, MergeFacts
  <2>3. \A u \in Tasks : k'.step[u] # k.step[u] => u = k.rtask[r]
    BY <1>1, <2>2
  <2> QED BY <2>1, <2>2, <2>3, HolderTruth
<1>6. CASE PickBriefs \/ NextRound \/ TickRetry \/ TickPick \/ TickRun
  <2>1. Working /\ k'.step = k.step
    BY <1>6, OtherFacts
  <2> QED BY <2>1, HolderTruth
<1> QED BY <1>2, <1>3, <1>4, <1>5, <1>6

\* The steps in which it saves.
LEMMA CommitTruth ==
    ASSUME IInv, BInv, CommitPrepare \/ CommitTick \/ CommitMerge \/ CommitSync
    PROVE  BInv'
<1>1. Sound(k) /\ Lock /\ k \in Kernel /\ txn \in Txn
    BY DEF IInv, TypeOK
<1>2. CASE CommitPrepare \/ CommitTick
  <2>1. k' = k /\ disk' = k
    BY <1>2 DEF CommitPrepare, CommitTick, Commit
  <2>2. txn.op # "merge"
    BY <1>1, <1>2 DEF CommitPrepare, CommitTick, Lock
  <2>3. Truth(disk')
    BY <2>1, <2>2 DEF BInv
  <2> QED BY <2>1, <2>3, SavedTruth
<1>3. CASE CommitMerge \/ CommitSync
  <2>1. /\ k' = WithStatus(k, txn.orch) /\ disk' = k' /\ txn.op \in {"merge", "sync"}
    BY <1>3 DEF CommitMerge, CommitSync, Commit
  <2>2. txn.orch \in Orchs
    BY <1>1, <2>1 DEF Lock
  <2>3. k'.step = k.step /\ k'.orch = [k.orch EXCEPT ![txn.orch] = StatusOf(k, txn.orch)]
    BY <1>1, <2>1, <2>2, WithStatusSound
  <2>4. Truth(k')
    <3> DEFINE o == txn.orch
    <3>1. o \in Orchs /\ k'.orch = [k.orch EXCEPT ![o] = StatusOf(k, o)]
      BY <2>2, <2>3
    <3>2. Truth(disk) /\ k.orch = disk.orch /\ \A t \in Tasks : k.step[t] # disk.step[t] => OrchOf[t] = o
      BY DEF BInv
    <3> HIDE DEF o
    <3> QED BY <1>1, <2>3, <3>1, <3>2, TruthStatus
  <2> QED BY <2>1, <2>4, SavedTruth
<1> QED BY <1>2, <1>3

\* Steps that leave the kernel and its holder alone.
Aside == UNCHANGED << k, disk, txn >>

Backstage ==
    \/ \E o \in Orchs : \/ StartJob(o) \/ JobRecords(o) \/ Works(o) \/ Spawn(o)
                        \/ \E r \in Runs : Panic(o, r)
    \/ \E r \in Runs : ProcEnds(r)
    \/ SweepRead \/ UNCHANGED vars

\* Workers, processes and the sweep's look at the registries.
LEMMA BackstageAside == ASSUME Backstage PROVE Aside
BY DEF Backstage, Works, StartJob, JobCheck, JobRecords, Spawn, Finish, Panic, ProcEnds, SweepRead,
       Aside, vars

\* A step of one worker: it does not come to its finish, opens no window, is not
\* one that waits for its merge to be saved, and touches its own processes only.
WorkerMoves(p, job) ==
    /\ SetJob(p, job) /\ job.pc # "finish"
    /\ job.pc \in {"spawn", "exec"} => jobs[p].pc = "spawn" /\ job.live = jobs[p].live
    /\ jobs[p].pc # "exec" \/ \E r \in jobs[p].live : proc[r] = "live"
    /\ \A r \in Runs \ jobs[p].live : proc'[r] = proc[r]

\* Such a step moves one worker, ends one process, or neither.
LEMMA BackstageKinds ==
    ASSUME IInv, Backstage
    PROVE  \/ jobs' = jobs /\ proc' = proc
           \/ /\ jobs' = jobs
              /\ \E r \in Runs : proc[r] = "live" /\ \A q \in Runs \ {r} : proc'[q] = proc[q]
           \/ \E p \in Orchs : \E job \in JobRecord : WorkerMoves(p, job)
<1>1. TypeOK /\ Workers
    BY DEF IInv
<1>2. ASSUME NEW p \in Orchs, StartJob(p) \/ JobRecords(p)
      PROVE  \E job \in JobRecord : WorkerMoves(p, job)
  <2>1. NewJob \in JobRecord /\ NewJob.pc = "top"
    BY DEF NewJob, NoJob, JobRecord
  <2>2. ASSUME NEW s \in {"canceled", "completed"}
        PROVE  [NoJob EXCEPT !.state = s] \in JobRecord /\ [NoJob EXCEPT !.state = s].pc = "idle"
    BY DEF NoJob, JobRecord
  <2>3. proc' = proc /\ jobs[p].pc # "exec"
    BY <1>1, <1>2 DEF StartJob, JobRecords, Active, Workers, Worker
  <2>4. \E job \in JobRecord : SetJob(p, job) /\ job.pc \in {"idle", "top"}
    BY <1>2, <2>1, <2>2 DEF StartJob, JobRecords
  <2> QED BY <2>3, <2>4 DEF WorkerMoves
<1>3. ASSUME NEW p \in Orchs, NEW c \in BOOLEAN, JobCheck(p, c)
      PROVE  \E job \in JobRecord : WorkerMoves(p, job)
  <2> DEFINE s == IF c THEN "canceled" ELSE IF jobs[p].ran >= Budget THEN "completed" ELSE "prepare"
  <2> DEFINE job == [jobs[p] EXCEPT !.pc = s]
  <2>1. SetJob(p, job) /\ proc' = proc /\ jobs[p].pc = "top"
    BY <1>3 DEF JobCheck
  <2>2. s \in {"canceled", "completed", "prepare"} /\ jobs[p] \in JobRecord
    BY <1>1, JobFields
  <2> HIDE DEF s
  <2>3. job \in JobRecord /\ job.pc = s
    BY <2>2 DEF JobRecord
  <2> HIDE DEF job
  <2> QED BY <2>1, <2>2, <2>3 DEF WorkerMoves
<1>4. ASSUME NEW p \in Orchs, Spawn(p)
      PROVE  \E job \in JobRecord : WorkerMoves(p, job)
  <2> DEFINE job == [jobs[p] EXCEPT !.pc = "exec"]
  <2>1. /\ SetJob(p, job) /\ jobs[p].pc = "spawn"
        /\ proc' = [r \in Runs |-> IF r \in jobs[p].live THEN "live" ELSE proc[r]]
    BY <1>4 DEF Spawn
  <2>2. job \in JobRecord /\ job.live = jobs[p].live /\ job.pc = "exec"
    BY <1>1, JobFields DEF JobRecord
  <2> HIDE DEF job
  <2> QED BY <2>1, <2>2 DEF WorkerMoves
<1>5. ASSUME NEW p \in Orchs, Finish(p)
      PROVE  \E job \in JobRecord : WorkerMoves(p, job)
  <2> DEFINE s == IF jobs[p].more THEN "top" ELSE "completed"
  <2> DEFINE job == [jobs[p] EXCEPT !.pc = s, !.live = {}]
  <2>1. /\ SetJob(p, job) /\ jobs[p].pc = "finish"
        /\ proc' = [r \in Runs |-> IF r \in jobs[p].live THEN "none" ELSE proc[r]]
    BY <1>5 DEF Finish
  <2>2. s \in {"top", "completed"} /\ jobs[p] \in JobRecord
    BY <1>1, JobFields
  <2> HIDE DEF s
  <2>3. job \in JobRecord /\ job.pc = s
    BY <2>2 DEF JobRecord
  <2> HIDE DEF job
  <2> QED BY <2>1, <2>2, <2>3 DEF WorkerMoves
<1>6. ASSUME NEW p \in Orchs, NEW r \in Runs, Panic(p, r), PanicOfWorker(p, r)
      PROVE  \E job \in JobRecord : WorkerMoves(p, job)
  <2> DEFINE job == [jobs[p] EXCEPT !.pc = "dead", !.live = {}]
  <2>1. /\ SetJob(p, job) /\ jobs[p].live = {r} /\ proc[r] = "live"
        /\ proc' = [proc EXCEPT ![r] = "none"]
    BY <1>6 DEF Panic, PanicOfWorker
  <2>2. job \in JobRecord /\ job.pc = "dead"
    BY <1>1, JobFields DEF JobRecord
  <2>3. \A q \in Runs \ jobs[p].live : proc'[q] = proc[q]
    BY <1>1, <2>1 DEF TypeOK
  <2> HIDE DEF job
  <2> QED BY <2>1, <2>2, <2>3 DEF WorkerMoves
<1>7. ASSUME NEW r \in Runs, ProcEnds(r) \/ \E p \in Orchs : Panic(p, r) /\ PanicInThread(p, r)
      PROVE  jobs' = jobs /\ proc[r] = "live" /\ \A q \in Runs \ {r} : proc'[q] = proc[q]
    BY <1>1, <1>7 DEF ProcEnds, Panic, PanicInThread, TypeOK
<1>8. SweepRead \/ UNCHANGED vars => jobs' = jobs /\ proc' = proc
    BY DEF SweepRead, vars, memory
<1> QED BY <1>2, <1>3, <1>4, <1>5, <1>6, <1>7, <1>8 DEF Backstage, Works, Panic

\* A handler takes the lock.
Begins == (\E o \in Orchs : BeginPrepare(o) \/ BeginMerge(o) \/ BeginSync(o)) \/ BeginTick

\* Everything unsaved is lost.
Loses == RoundFails \/ SaveFails \/ Crash

Edits ==
    \/ \E t \in Tasks : Operator(t)
    \/ \E r \in Runs : RetryRun(r) \/ ResumeRun(r) \/ Quiet(r)
    \/ SweepRecover

Labours ==
    \/ PropagatePass \/ BriefInline \/ BriefPrepared \/ MergeBrief
    \/ PickBriefs \/ NextRound \/ TickRetry \/ TickPick \/ TickRun

Commits == CommitPrepare \/ CommitTick \/ CommitMerge \/ CommitSync

\* Every step is of one of these kinds.
LEMMA Kinds ==
    ASSUME [Next]_vars
    PROVE  Labours \/ Commits \/ Begins \/ Loses \/ Edits \/ Backstage
BY DEF Next, LockHolder, Job, Locks, OnRun, Labours, Commits, Begins, Loses, Edits, Backstage

\* Every step keeps it.
LEMMA NextBInv == IInv /\ BInv /\ [Next]_vars => BInv'
<1> SUFFICES ASSUME IInv, BInv, [Next]_vars PROVE BInv'
    OBVIOUS
<1>1. CASE Labours
    BY <1>1, WorkTruth DEF Labours
<1>2. CASE Commits
    BY <1>2, CommitTruth DEF Commits
<1>3. CASE Begins
  <2>1. k' = k /\ disk' = disk /\ LockFree
    BY <1>3 DEF Begins, BeginPrepare, BeginMerge, BeginSync, BeginTick
  <2>2. k = disk
    BY <2>1 DEF IInv, Lock
  <2>3. k' = disk' /\ Truth(disk')
    BY <2>1, <2>2 DEF BInv
  <2> QED BY <2>3, SavedTruth
<1>4. CASE Loses
  <2>1. k' = disk' /\ disk' = disk
    BY <1>4 DEF Loses, RoundFails, SaveFails, Crash
  <2>2. Truth(disk')
    BY <2>1 DEF BInv
  <2> QED BY <2>1, <2>2, SavedTruth
<1>5. CASE Edits
  <2>1. k' = disk' /\ disk'.step = disk.step /\ disk'.orch = disk.orch
    BY <1>5, EditFacts DEF Edits
  <2>2. Truth(disk')
    BY <2>1, TruthKeeps DEF BInv
  <2> QED BY <2>1, <2>2, SavedTruth
<1>6. CASE Backstage
  <2>1. Aside
    BY <1>6, BackstageAside
  <2> QED BY <2>1 DEF Aside, BInv, Truth
<1> QED BY <1>1, <1>2, <1>3, <1>4, <1>5, <1>6, Kinds

\* Initially no orchestration says more than that it is planned.
LEMMA InitBInv == Init => BInv
<1> SUFFICES ASSUME Init PROVE BInv
    OBVIOUS
<1>1. k = FreshKernel /\ disk = FreshKernel
    BY DEF Init
<1>2. Truth(FreshKernel)
    BY DEF Truth, FreshKernel
<1> QED BY <1>1, <1>2 DEF BInv

\* An orchestration's status is true of its briefs, in every reachable state.
THEOREM StatusesTellTruth == Spec => []StatusTellsTruth
<1>1. BInv => StatusTellsTruth
    BY DEF BInv, Truth, StatusTellsTruth
<1> QED BY <1>1, KernelInvariant, InitBInv, NextBInv, PTL DEF Spec

-----------------------------------------------------------------------------
(* The verdict of an execution.                                            *)

\* A kernel says of every merged round how its processes ended.
Tells(K) ==
    \A o \in Orchs : jobs[o].pc = "finish" =>
        \A r \in jobs[o].live : proc[r] # "gone" => K.rstat[r] \in Verdict(proc[r])

\* So does the holder's copy, of what a merge has gone through.
Merged ==
    txn.op = "merge" => \A r \in jobs[txn.orch].live \ txn.todo :
        proc[r] # "gone" => k.rstat[r] \in Verdict(proc[r])

\* The invariant that carries the verdict from the merge to its save and on.
VInv == Merged /\ Tells(k) /\ VerdictGivesWay

\* The runs a worker has in hand exist, on disk and in every copy.
LEMMA RunInHand ==
    ASSUME IInv, NEW o \in Orchs, NEW r \in jobs[o].live
    PROVE  r \in Runs /\ r <= disk.next /\ r <= k.next
<1>1. r \in Runs /\ r \in Nat /\ r <= disk.next
    BY JobFields, KernelAssumption DEF IInv, Workers, Worker, Runs
<1>2. disk.next \in Nat /\ k.next \in Nat /\ disk.next <= k.next
    BY KernelFields, KernelAssumption DEF IInv, TypeOK, Grows
<1> QED BY <1>1, <1>2

\* An evolution leaves a verdict standing.
LEMMA VerdictStands ==
    ASSUME NEW K, NEW L, Steady(K, L), NEW r \in Runs, r <= K.next, NEW end,
           K.rstat[r] \in Verdict(end)
    PROVE  L.rstat[r] \in Verdict(end)
<1>1. /\ Verdict(end) \in {{"completed"}, {"cancelled"}, {"retry", "spent"}, {"failed"}}
  <2>1. CASE end = "ok"
    BY <2>1 DEF Verdict
  <2>2. CASE end = "cancelled"
    BY <2>2 DEF Verdict
  <2>3. CASE end = "transient"
    BY <2>3 DEF Verdict
  <2>4. CASE end \notin {"ok", "cancelled", "transient"}
    BY <2>4 DEF Verdict
  <2> QED BY <2>1, <2>2, <2>3, <2>4
<1>2. K.rstat[r] \notin Unsettled
    BY <1>1 DEF Unsettled
<1>3. L.rstat[r] = K.rstat[r] \/ {K.rstat[r], L.rstat[r]} \subseteq {"retry", "spent"}
    BY <1>2 DEF Steady
<1> QED BY <1>1, <1>3

\* A worker about to drop its tokens has nothing to fear from a step that does
\* not touch it or its processes.
LEMMA VerdictKeeps ==
    ASSUME IInv, NEW K, NEW L, Tells(K), Steady(K, L), K \in {k, disk},
           \A o \in Orchs : jobs'[o].pc = "finish" =>
              /\ jobs[o].pc = "finish" /\ jobs'[o].live = jobs[o].live
              /\ \A r \in jobs[o].live : proc'[r] = proc[r],
           NEW o \in Orchs, jobs'[o].pc = "finish", NEW r \in jobs'[o].live, proc'[r] # "gone"
    PROVE  L.rstat[r] \in Verdict(proc'[r])
<1>1. r \in jobs[o].live /\ jobs[o].pc = "finish" /\ proc'[r] = proc[r]
    OBVIOUS
<1>2. K.rstat[r] \in Verdict(proc[r])
    BY <1>1 DEF Tells
<1>3. r \in Runs /\ r <= K.next
    BY <1>1, RunInHand
<1> DEFINE end == proc[r]
<1>4. K.rstat[r] \in Verdict(end) /\ proc'[r] = end
    BY <1>1, <1>2
<1> HIDE DEF end
<1>5. L.rstat[r] \in Verdict(end)
    BY <1>3, <1>4, VerdictStands
<1> QED BY <1>4, <1>5

\* A step after which nobody holds the lock and nothing is unsaved.
LEMMA VerdictSaved ==
    ASSUME IInv, k' = disk', txn'.op # "merge",
           \A o \in Orchs : jobs'[o].pc = "finish" =>
              \A r \in jobs'[o].live : proc'[r] # "gone" => disk'.rstat[r] \in Verdict(proc'[r])
    PROVE  VInv'
<1>1. VerdictGivesWay'
    BY DEF VerdictGivesWay
<1>2. Tells(k)'
    BY DEF Tells
<1> QED BY <1>1, <1>2 DEF VInv, Merged

\* The merge itself writes the verdict, whatever the run has become meanwhile,
\* and nobody else's.
LEMMA WorkVerdict ==
    ASSUME IInv, VInv, Labours
    PROVE  VInv'
<1>0. TypeOK /\ Lock /\ Workers
    BY DEF IInv
<1>1. Working
    BY PropagateFacts, InlineFacts, PreparedFacts, MergeFacts, OtherFacts DEF Labours
<1>2. VerdictGivesWay'
    BY <1>1 DEF Working, VInv, VerdictGivesWay
<1>3. CASE ~MergeBrief
  <2>1. Steady(k, k')
    BY <1>3, PropagateFacts, InlineFacts, PreparedFacts, OtherFacts DEF Labours
  <2>2. Tells(k)'
    <3> SUFFICES ASSUME NEW o \in Orchs, jobs'[o].pc = "finish", NEW r \in jobs'[o].live, proc'[r] # "gone"
                 PROVE  k'.rstat[r] \in Verdict(proc'[r])
      BY DEF Tells
    <3> DEFINE L == k'
    <3>1. Steady(k, L) /\ Tells(k) /\ jobs' = jobs /\ proc' = proc
      BY <1>1, <2>1 DEF Working, VInv
    <3> HIDE DEF L
    <3>2. L.rstat[r] \in Verdict(proc'[r])
      BY <3>1, VerdictKeeps
    <3> QED BY <3>2 DEF L
  <2>3. Merged'
    <3> SUFFICES ASSUME txn.op = "merge", NEW r \in jobs[txn.orch].live \ txn'.todo, proc[r] # "gone"
                 PROVE  k'.rstat[r] \in Verdict(proc[r])
      BY <1>1 DEF Working, Merged
    <3>1. PropagatePass
      BY <1>0, <1>3 DEF Labours, BriefInline, BriefPrepared, PickBriefs, NextRound, TickRetry, TickPick,
                        TickRun, Lock
    <3>2. txn' = txn /\ txn.orch \in Orchs
      BY <1>0, <3>1, PropagateFacts DEF Lock
    <3>3. k.rstat[r] \in Verdict(proc[r])
      BY <3>2 DEF VInv, Merged
    <3>4. r \in Runs /\ r <= k.next
      BY <3>2, RunInHand
    <3> QED BY <2>1, <3>3, <3>4, VerdictStands
  <2> QED BY <1>2, <2>2, <2>3 DEF VInv
<1>4. CASE MergeBrief
  <2>1. /\ txn.op = "merge" /\ txn.orch \in Orchs /\ jobs[txn.orch].pc = "exec"
        /\ txn.todo \subseteq jobs[txn.orch].live
    BY <1>0, <1>4, MergeFacts DEF Lock, IInv, Todo
  <2>2. PICK r \in txn.todo :
           /\ k'.rstat[r] \in Verdict(proc[r]) /\ \A q \in Runs \ {r} : k'.rstat[q] = k.rstat[q]
           /\ txn'.todo = txn.todo \ {r}
    BY <1>4, MergeFacts
  <2>3. Tells(k)'
    <3> SUFFICES ASSUME NEW o \in Orchs, jobs[o].pc = "finish", NEW q \in jobs[o].live, proc[q] # "gone"
                 PROVE  k'.rstat[q] \in Verdict(proc[q])
      BY <1>1 DEF Tells, Working
    <3>1. q \in Runs /\ q # r
      BY <1>0, <2>1, <2>2, RunInHand, Apart
    <3> QED BY <2>2, <3>1 DEF VInv, Tells
  <2>4. Merged'
    <3> SUFFICES ASSUME NEW q \in jobs[txn.orch].live \ txn'.todo, proc[q] # "gone"
                 PROVE  k'.rstat[q] \in Verdict(proc[q])
      BY <1>1 DEF Working, Merged
    <3>1. q \in Runs
      BY <2>1, RunInHand
    <3>2. q # r => k.rstat[q] \in Verdict(proc[q])
      BY <2>1, <2>2 DEF VInv, Merged
    <3> QED BY <2>2, <3>1, <3>2
  <2> QED BY <1>2, <2>3, <2>4 DEF VInv
<1> QED BY <1>3, <1>4

\* The save of the merge publishes it.
LEMMA CommitVerdict ==
    ASSUME IInv, VInv, Commits
    PROVE  VInv'
<1>1. TypeOK /\ Sound(k) /\ Lock /\ k \in Kernel
    BY DEF IInv, Sound
<1>2. txn' = NoTxn /\ proc' = proc /\ disk' = k'
    BY DEF Commits, CommitPrepare, CommitTick, CommitMerge, CommitSync, Commit, memory
<1>3. Steady(k, disk')
  <2>1. CASE CommitPrepare \/ CommitTick
    <3>1. disk' = k
      BY <2>1 DEF CommitPrepare, CommitTick, Commit
    <3> QED BY <1>1, <3>1, EvolvesRefl DEF Evolves
  <2>2. CASE CommitMerge \/ CommitSync
    <3>1. disk' = WithStatus(k, txn.orch) /\ txn.orch \in Orchs
      BY <1>1, <2>2 DEF CommitMerge, CommitSync, Commit, Lock
    <3> QED BY <1>1, <3>1, WithStatusSound DEF Evolves
  <2> QED BY <2>1, <2>2 DEF Commits
<1>4. SUFFICES ASSUME NEW o \in Orchs, jobs'[o].pc = "finish", NEW r \in jobs'[o].live, proc[r] # "gone"
               PROVE  disk'.rstat[r] \in Verdict(proc[r])
    BY <1>2, VerdictSaved DEF NoTxn
<1>5. CASE CommitTick \/ CommitSync \/ (CommitPrepare /\ o # txn.orch) \/ (CommitMerge /\ o # txn.orch)
  <2>1. jobs'[o] = jobs[o]
    BY <1>1, <1>5 DEF CommitTick, CommitSync, CommitPrepare, CommitMerge, SetJob, memory, TypeOK
  <2>2. k.rstat[r] \in Verdict(proc[r])
    BY <1>4, <2>1 DEF VInv, Tells
  <2>3. r \in Runs /\ r <= k.next
    BY <1>4, <2>1, RunInHand
  <2> QED BY <1>3, <2>2, <2>3, VerdictStands
<1>6. CASE CommitPrepare /\ o = txn.orch
  <2>1. jobs'[o].pc = "spawn"
    BY <1>1, <1>6 DEF CommitPrepare, SetJob, TypeOK, JobRecord
  <2> QED BY <1>4, <2>1
<1>7. CASE CommitMerge /\ o = txn.orch
  <2>1. txn.op = "merge" /\ txn.todo = {} /\ jobs'[o].live = jobs[o].live
    BY <1>1, <1>7 DEF CommitMerge, Propagating, SetJob, TypeOK, JobRecord
  <2>2. k.rstat[r] \in Verdict(proc[r])
    BY <1>4, <1>7, <2>1 DEF VInv, Merged
  <2>3. r \in Runs /\ r <= k.next
    BY <1>4, <2>1, RunInHand
  <2> QED BY <1>3, <2>2, <2>3, VerdictStands
<1> QED BY <1>5, <1>6, <1>7 DEF Commits

\* Steps that take the lock, lose what is unsaved, or edit the kernel.
LEMMA OtherVerdict ==
    ASSUME IInv, VInv, Begins \/ Loses \/ Edits
    PROVE  VInv'
<1>1. TypeOK /\ Lock /\ Workers /\ disk \in Kernel /\ Tells(disk)
    BY DEF IInv, TypeOK, VInv, VerdictGivesWay, Tells
<1>2. CASE Begins
  <2>1. /\ k' = k /\ disk' = disk /\ jobs' = jobs /\ proc' = proc
    BY <1>2 DEF Begins, BeginPrepare, BeginMerge, BeginSync, BeginTick, memory
  <2>2. VerdictGivesWay' /\ Tells(k)'
    BY <2>1 DEF VInv, VerdictGivesWay, Tells
  <2>3. Merged'
    <3>1. CASE \E o \in Orchs : BeginMerge(o)
      <4>1. PICK o \in Orchs : BeginMerge(o)
        BY <3>1
      <4>2. txn'.orch = o /\ txn'.todo = {r \in jobs[o].live : proc[r] # "gone"}
        BY <4>1 DEF BeginMerge, NoTxn
      <4> QED BY <2>1, <4>2 DEF Merged
    <3>2. CASE (\E o \in Orchs : BeginPrepare(o) \/ BeginSync(o)) \/ BeginTick
      <4>1. txn'.op # "merge"
        BY <3>2 DEF BeginPrepare, BeginSync, BeginTick, NoTxn
      <4> QED BY <4>1 DEF Merged
    <3> QED BY <1>2, <3>1, <3>2 DEF Begins
  <2> QED BY <2>2, <2>3 DEF VInv
<1>3. ASSUME k' = disk', txn'.op # "merge", Steady(disk, disk'),
             \A o \in Orchs : jobs'[o].pc = "finish" =>
                jobs'[o] = jobs[o] /\ \A r \in jobs[o].live : proc'[r] = proc[r]
      PROVE  VInv'
  <2> DEFINE L == disk'
  <2>1. Steady(disk, L)
    BY <1>3
  <2> HIDE DEF L
  <2>2. \A o \in Orchs : jobs'[o].pc = "finish" =>
           \A r \in jobs'[o].live : proc'[r] # "gone" => L.rstat[r] \in Verdict(proc'[r])
    BY <1>1, <1>3, <2>1, VerdictKeeps
  <2> QED BY <1>3, <2>2, VerdictSaved DEF L
<1>4. CASE Loses
  <2>1. disk' = disk /\ k' = disk /\ txn' = NoTxn
    BY <1>4 DEF Loses, RoundFails, SaveFails, Crash
  <2>2. ASSUME NEW o \in Orchs, jobs'[o].pc = "finish"
        PROVE  jobs'[o] = jobs[o] /\ \A r \in jobs[o].live : proc'[r] = proc[r]
    <3>1. CASE RoundFails
      <4>1. /\ txn.orch \in Orchs /\ jobs' = [jobs EXCEPT ![txn.orch] = [NoJob EXCEPT !.state = "failed"]]
            /\ proc' = [r \in Runs |-> IF r \in jobs[txn.orch].live THEN "none" ELSE proc[r]]
        BY <1>1, <3>1 DEF RoundFails, SetJob, Lock
      <4>2. o # txn.orch /\ jobs'[o] = jobs[o]
        BY <1>1, <2>2, <4>1 DEF TypeOK, NoJob
      <4>3. \A r \in jobs[o].live : r \in Runs /\ r \notin jobs[txn.orch].live
        BY <1>1, <4>1, <4>2, Apart, JobFields
      <4> QED BY <4>1, <4>2, <4>3
    <3>2. CASE SaveFails
      BY <3>2 DEF SaveFails, memory
    <3>3. CASE Crash
      BY <2>2, <3>3 DEF Crash, NoJob
    <3> QED BY <1>4, <3>1, <3>2, <3>3 DEF Loses
  <2>3. Steady(disk, disk')
    BY <1>1, <2>1, EvolvesRefl DEF Evolves
  <2> QED BY <1>3, <2>1, <2>2, <2>3 DEF NoTxn
<1>5. CASE Edits
  <2>1. txn'.op = "none" /\ jobs' = jobs /\ proc' = proc /\ k' = disk' /\ Evolves(disk, disk')
    BY <1>5, EditFacts DEF Edits, LockFree
  <2> QED BY <1>3, <2>1 DEF Evolves
<1> QED BY <1>2, <1>4, <1>5

\* Other workers and processes.
LEMMA BackstageVerdict ==
    ASSUME IInv, VInv, Backstage
    PROVE  VInv'
<1>1. /\ Aside /\ TypeOK /\ Workers /\ Lock /\ LiveProcs
    BY BackstageAside DEF IInv, TypeOK
<1>2. ASSUME NEW o \in Orchs, jobs'[o].pc = "finish" \/ (txn.op = "merge" /\ o = txn.orch)
      PROVE  jobs'[o] = jobs[o] /\ \A r \in jobs[o].live : proc'[r] = proc[r]
  <2>1. \A r \in jobs[o].live : r \in Runs
    BY <1>1, JobFields
  <2>2. txn.op = "merge" /\ o = txn.orch =>
           jobs[o].pc = "exec" /\ \A r \in jobs[o].live : proc[r] # "live"
    BY <1>1 DEF Lock
  <2>3. CASE jobs' = jobs /\ proc' = proc
    BY <2>3
  <2>4. ASSUME jobs' = jobs, NEW r \in Runs, proc[r] = "live",
               \A q \in Runs \ {r} : proc'[q] = proc[q]
        PROVE  jobs'[o] = jobs[o] /\ \A q \in jobs[o].live : proc'[q] = proc[q]
    <3>1. PICK p \in Orchs : jobs[p].pc = "exec" /\ r \in jobs[p].live
      BY <1>1, <2>4 DEF LiveProcs
    <3>2. r \notin jobs[o].live
      BY <1>1, <1>2, <2>2, <2>4, <3>1, Apart
    <3> QED BY <2>1, <2>4, <3>2
  <2>5. ASSUME NEW p \in Orchs, NEW job \in JobRecord, WorkerMoves(p, job)
        PROVE  jobs'[o] = jobs[o] /\ \A r \in jobs[o].live : proc'[r] = proc[r]
    <3>1. jobs'[p] = job /\ \A q \in Orchs : q # p => jobs'[q] = jobs[q]
      BY <1>1, <2>5, SetJobFacts DEF WorkerMoves
    <3>2. o # p
      BY <1>2, <2>2, <2>5, <3>1 DEF WorkerMoves
    <3>3. \A r \in jobs[o].live : r \notin jobs[p].live
      BY <1>1, <3>2, Apart
    <3> QED BY <2>1, <2>5, <3>1, <3>2, <3>3 DEF WorkerMoves
  <2> QED BY <2>3, <2>4, <2>5, BackstageKinds
<1>3. VerdictGivesWay' /\ Tells(k)'
    BY <1>1, <1>2 DEF Aside, VInv, VerdictGivesWay, Tells
<1>4. Merged'
  <2>1. txn.op = "merge" => txn.orch \in Orchs
    BY <1>1 DEF Lock
  <2> QED BY <1>1, <1>2, <2>1 DEF Aside, VInv, Merged
<1> QED BY <1>3, <1>4 DEF VInv

\* Every step keeps it.
LEMMA NextVInv == IInv /\ VInv /\ [Next]_vars => VInv'
BY WorkVerdict, CommitVerdict, OtherVerdict, BackstageVerdict, Kinds

\* Initially there is no round.
LEMMA InitVInv == Init => VInv
BY DEF Init, VInv, Merged, Tells, VerdictGivesWay, NoTxn, NoJob

\* Once a round is merged, each of its runs says how its process ended
\* (finalize_cli_run writes it whatever the run's status is by then), although
\* the watchdog, the operator and other holders of the lock work on the same
\* kernel before, between and after.
THEOREM VerdictsGiveWay == Spec => []VerdictGivesWay
<1>1. VInv => VerdictGivesWay
    BY DEF VInv
<1> QED BY <1>1, KernelInvariant, InitVInv, NextVInv, PTL DEF Spec

-----------------------------------------------------------------------------
(* The board, when no batch is called in the window of a job.              *)

\* The window of a job: its briefs are out of the kernel's hands.
InWindow(o) == jobs[o].pc \in {"spawn", "exec"}

Windows == \A o \in Orchs : InWindow(o) => Hands(disk, jobs[o].live)

BatchApart == txn.op = "sync" => ~InWindow(txn.orch)

Preparing ==
    txn.op = "prepare" =>
        /\ Hands(k, txn.runs)
        /\ \A r \in txn.runs : k.rtask[r] \notin txn.todo
        /\ txn.phase = "propagate" => txn.runs = {}

Merging == txn.op = "merge" => Hands(k, txn.todo)

\* Whoever holds briefs holds open ones.
WInv == Progress(disk, k) /\ Windows /\ BatchApart /\ Preparing /\ Merging

\* Fewer runs are in hand.
LEMMA HandsFewer ==
    ASSUME NEW K, NEW S, Hands(K, S), NEW T, T \subseteq S
    PROVE  Hands(K, T)
BY DEF Hands

\* What the holder's work does to the board, and to the briefs it holds.
LEMMA WorkProgress ==
    ASSUME IInv, WInv, Labours
    PROVE  Progress(k, k') /\ Merging'
<1>1. k \in Kernel
    BY DEF IInv, TypeOK
<1>2. CASE PropagatePass
  <2>1. /\ txn' = txn
        /\ k'.step = [t \in Tasks |-> IF t \in Blocking(k, txn.orch) THEN "blocked" ELSE k.step[t]]
    BY <1>2, PropagateFacts
  <2>2. Progress(k, k')
    <3> DEFINE o == txn.orch
    <3>1. k'.step = [t \in Tasks |-> IF t \in Blocking(k, o) THEN "blocked" ELSE k.step[t]]
      BY <2>1
    <3> HIDE DEF o
    <3> QED BY <1>1, <3>1, ProgressBlocked
  <2>3. txn.todo = {}
    BY <1>2 DEF PropagatePass, Propagating
  <2> QED BY <2>1, <2>2, <2>3 DEF Merging, Hands
<1>3. CASE BriefInline
  <2>1. txn'.op # "merge"
    BY <1>3, InlineFacts DEF Working
  <2>2. PICK t \in Tasks : Open(k, t) /\ \E a \in {"completed", "failed", "blocked"} :
           k'.step = [k.step EXCEPT ![t] = a]
    BY <1>3, InlineFacts
  <2>3. PICK a \in {"completed", "failed", "blocked"} : k'.step = [k.step EXCEPT ![t] = a]
    BY <2>2
  <2>4. Recorded(k, k', t, a)
    BY <2>3 DEF Recorded
  <2>5. Progress(k, k')
    BY <1>1, <2>2, <2>4, ProgressExecuted
  <2> QED BY <2>1, <2>5 DEF Merging
<1>4. CASE BriefPrepared
  <2>1. k'.step = k.step /\ txn'.op # "merge"
    BY <1>4, PreparedFacts DEF Working
  <2> QED BY <2>1, ProgressSame DEF Merging
<1>5. CASE MergeBrief
  <2>1. Working /\ txn.op = "merge" /\ k'.rtask = k.rtask
    BY <1>5, MergeFacts
  <2>2. PICK r \in txn.todo : \E a \in {"completed", "failed", "blocked"} :
           txn'.todo = txn.todo \ {r} /\ k'.step = [k.step EXCEPT ![k.rtask[r]] = a]
    BY <1>5, MergeFacts
  <2>3. PICK a \in {"completed", "failed", "blocked"} : k'.step = [k.step EXCEPT ![k.rtask[r]] = a]
    BY <2>2
  <2>4. Hands(k, txn.todo)
    BY <2>1 DEF WInv, Merging
  <2> DEFINE t == k.rtask[r]
  <2>5. t \in Tasks /\ Open(k, t) /\ \A q \in txn.todo : q # r => k.rtask[q] # t
    BY <2>4 DEF Hands
  <2>6. k'.step = [k.step EXCEPT ![t] = a]
    BY <2>3
  <2> HIDE DEF t
  <2>7. Progress(k, k')
    <3>1. Recorded(k, k', t, a)
      BY <2>6 DEF Recorded
    <3> QED BY <1>1, <2>5, <3>1, ProgressExecuted
  <2>8. Hands(k, txn'.todo)
    BY <2>2, <2>4, HandsFewer
  <2>9. \A q \in txn'.todo : k'.rtask[q] = k.rtask[q] /\ k'.step[k.rtask[q]] = k.step[k.rtask[q]]
    <3>1. k.step \in [Tasks -> StepOutcome]
      BY <1>1, KernelFields
    <3>2. \A q \in txn'.todo : k.rtask[q] \in Tasks /\ k.rtask[q] # t
      BY <2>2, <2>5, <2>8 DEF Hands
    <3> QED BY <2>1, <2>6, <3>1, <3>2
  <2>10. Hands(k', txn'.todo)
    BY <2>7, <2>8, <2>9, HandsKeep
  <2> QED BY <2>7, <2>10 DEF Merging
<1>6. CASE PickBriefs \/ NextRound \/ TickRetry \/ TickPick \/ TickRun
  <2>1. Working /\ k'.step = k.step
    BY <1>6, OtherFacts
  <2>2. txn.op # "merge"
    BY <1>6 DEF PickBriefs, NextRound, TickRetry, TickPick, TickRun, IInv, Lock
  <2> QED BY <2>1, <2>2, ProgressSame DEF Working, Merging
<1> QED BY <1>2, <1>3, <1>4, <1>5, <1>6 DEF Labours

\* What it does to the runs a prepare step will hand to its worker.
LEMMA WorkPreparing ==
    ASSUME IInv, WInv, Labours
    PROVE  Preparing'
<1>1. CASE txn.op # "prepare"
  <2>1. txn'.op = txn.op
    BY PropagateFacts, InlineFacts, PreparedFacts, MergeFacts, OtherFacts DEF Labours, Working
  <2> QED BY <1>1, <2>1 DEF Preparing
<1>2. CASE txn.op = "prepare"
  <2>1. /\ Hands(k, txn.runs) /\ \A r \in txn.runs : k.rtask[r] \notin txn.todo
        /\ txn.phase = "propagate" => txn.runs = {}
    BY <1>2 DEF WInv, Preparing
  <2>2. k \in Kernel /\ Prepared /\ txn \in Txn /\ Lock
    BY DEF IInv, TypeOK
  <2>3. \A r \in txn.runs : r \in Runs /\ r <= k.next /\ k.rtask[r] \in Tasks
    BY <2>1, <2>2 DEF Prepared, Txn, Hands
  <2>4. Progress(k, k')
    BY WorkProgress
  <2>5. CASE PropagatePass
    <3>1. txn' = txn /\ txn.phase = "propagate"
      BY <2>5, PropagateFacts
    <3> QED BY <2>1, <3>1 DEF Preparing, Hands
  <2>6. CASE BriefInline
    <3>1. Grows(k, k') /\ txn'.runs = txn.runs /\ txn'.phase = "briefs"
      BY <2>6, InlineFacts DEF Working
    <3>2. PICK t \in txn.todo : \E a \in {"completed", "failed", "blocked"} :
             txn'.todo = txn.todo \ {t} /\ k'.step = [k.step EXCEPT ![t] = a]
      BY <2>6, InlineFacts
    <3>3. \A r \in txn.runs : k'.rtask[r] = k.rtask[r]
      BY <2>3, <3>1 DEF Grows
    <3>4. \A r \in txn.runs : k'.step[k.rtask[r]] = k.step[k.rtask[r]]
      BY <2>1, <2>2, <2>3, <3>2, KernelFields
    <3>5. Hands(k', txn.runs)
      BY <2>1, <2>4, <3>3, <3>4, HandsKeep
    <3> QED BY <2>1, <3>1, <3>2, <3>3, <3>5 DEF Preparing
  <2>7. CASE BriefPrepared
    <3>1. Grows(k, k') /\ k'.step = k.step /\ txn'.phase = "briefs"
      BY <2>7, PreparedFacts DEF Working
    <3>2. PICK t \in txn.todo : \E r \in Runs :
             /\ t \in Tasks /\ Open(k, t) /\ k'.rtask[r] = t
             /\ txn'.todo = txn.todo \ {t} /\ txn'.runs = txn.runs \cup {r}
      BY <2>7, PreparedFacts
    <3>3. PICK r \in Runs : /\ t \in Tasks /\ Open(k, t) /\ k'.rtask[r] = t
                            /\ txn'.todo = txn.todo \ {t} /\ txn'.runs = txn.runs \cup {r}
      BY <3>2
    <3>4. \A q \in txn.runs : k'.rtask[q] = k.rtask[q] /\ k'.rtask[q] \notin txn.todo
      BY <2>1, <2>3, <3>1 DEF Grows
    <3>5. Hands(k', txn.runs)
      BY <2>1, <2>4, <3>1, <3>4, HandsKeep
    <3>6. Open(k', t) /\ t \in txn.todo
      BY <3>1, <3>3 DEF Open
    <3>7. Hands(k', txn'.runs)
      BY <3>3, <3>4, <3>5, <3>6 DEF Hands
    <3>8. \A q \in txn'.runs : k'.rtask[q] \notin txn'.todo
      BY <3>3, <3>4
    <3> QED BY <3>1, <3>7, <3>8 DEF Preparing
  <2>8. CASE PickBriefs
    <3>1. txn.phase = "propagate" /\ txn'.runs = txn.runs /\ txn'.phase = "briefs"
      BY <2>2, <2>8 DEF PickBriefs, Propagating, Txn
    <3> QED BY <2>1, <3>1 DEF Preparing, Hands
  <2>9. CASE MergeBrief \/ NextRound \/ TickRetry \/ TickPick \/ TickRun
    BY <1>2, <2>2, <2>9 DEF MergeBrief, NextRound, TickRetry, TickPick, TickRun, Lock
  <2> QED BY <2>5, <2>6, <2>7, <2>8, <2>9 DEF Labours
<1> QED BY <1>1, <1>2

\* The holder's work keeps the invariant.
LEMMA WorkHands ==
    ASSUME IInv, WInv, Labours
    PROVE  WInv'
<1>1. Progress(k, k') /\ Merging' /\ Preparing'
    BY WorkProgress, WorkPreparing
<1>2. Working
    BY PropagateFacts, InlineFacts, PreparedFacts, MergeFacts, OtherFacts DEF Labours
<1>3. Progress(disk', k')
    BY <1>1, <1>2, ProgressTrans DEF WInv, Working
<1>4. Windows' /\ BatchApart'
    BY <1>2 DEF WInv, Working, Windows, BatchApart, InWindow, Hands, Open
<1>5. Progress(disk, k)'
    BY <1>3 DEF Progress, Board!Executed, Board!Abandoned
<1> QED BY <1>1, <1>4, <1>5 DEF WInv

\* A window of another orchestration than the holder's survives its save.
LEMMA WindowSaved ==
    ASSUME IInv, BInv, WInv, NEW L, L.step = k.step, Grows(k, L),
           NEW o \in Orchs, InWindow(o), o # txn.orch \/ txn.op = "tick"
    PROVE  Hands(L, jobs[o].live)
<1>1. Hands(disk, jobs[o].live)
    BY DEF WInv, Windows
<1>2. \A r \in jobs[o].live : r \in Runs /\ r <= disk.next /\ OrchOf[disk.rtask[r]] = o
    BY JobFields DEF IInv, Workers, Worker
<1>3. /\ disk.next \in Nat /\ k.next \in Nat /\ disk.next <= k.next
      /\ \A r \in Runs : r <= disk.next => k.rtask[r] = disk.rtask[r]
    BY KernelFields, KernelAssumption DEF IInv, TypeOK, Grows
<1>4. \A r \in jobs[o].live : L.rtask[r] = disk.rtask[r]
    BY <1>2, <1>3, KernelAssumption DEF Grows, Runs
<1>5. \A r \in jobs[o].live : disk.rtask[r] \in Tasks
    BY <1>1 DEF Hands
<1>6. \A r \in jobs[o].live : L.step[disk.rtask[r]] = disk.step[disk.rtask[r]]
    BY <1>2, <1>5 DEF BInv
<1>7. Progress(disk, L)
    BY ProgressSame, ProgressTrans DEF WInv
<1> QED BY <1>1, <1>4, <1>6, <1>7, HandsKeep

\* A step after which nobody holds the lock and nothing is unsaved.
LEMMA SavedHands ==
    ASSUME k' = disk', txn'.op \notin {"prepare", "merge", "sync"},
           \A o \in Orchs : InWindow(o)' => Hands(disk', jobs'[o].live)
    PROVE  WInv'
<1>1. Progress(disk, k)'
    BY DEF Progress
<1>2. Windows'
    BY DEF Windows, InWindow, Hands, Open
<1> QED BY <1>1, <1>2 DEF WInv, BatchApart, Preparing, Merging

\* A save keeps it.
LEMMA CommitHands ==
    ASSUME IInv, BInv, WInv, Commits
    PROVE  WInv'
<1>1. /\ Sound(k) /\ Lock /\ k \in Kernel /\ txn \in Txn /\ TypeOK
    BY DEF IInv, TypeOK
<1>2. k' = disk' /\ txn' = NoTxn
    BY DEF Commits, CommitPrepare, CommitTick, CommitMerge, CommitSync, Commit
<1>3. disk'.step = k.step /\ Grows(k, disk')
  <2>1. CASE CommitPrepare \/ CommitTick
    <3>1. disk' = k
      BY <2>1 DEF CommitPrepare, CommitTick, Commit
    <3> QED BY <1>1, <3>1, GrowsRefl
  <2>2. CASE CommitMerge \/ CommitSync
    <3>1. disk' = WithStatus(k, txn.orch) /\ txn.orch \in Orchs
      BY <1>1, <2>2 DEF CommitMerge, CommitSync, Commit, Lock
    <3> QED BY <1>1, <3>1, WithStatusSound DEF Evolves
  <2> QED BY <2>1, <2>2 DEF Commits
<1>4. ASSUME NEW o \in Orchs, InWindow(o), o # txn.orch \/ txn.op = "tick"
      PROVE  Hands(disk', jobs[o].live)
    BY <1>3, <1>4, WindowSaved
<1>5. ASSUME NEW o \in Orchs, InWindow(o)' PROVE Hands(disk', jobs'[o].live)
  <2>1. CASE CommitPrepare
    <3>1. /\ disk' = k /\ txn.op = "prepare" /\ txn.orch \in Orchs
          /\ jobs' = [jobs EXCEPT ![txn.orch] =
                [jobs[txn.orch] EXCEPT !.pc = "spawn", !.live = txn.runs,
                                       !.ran = @ + txn.ran, !.more = txn.ran > 0]]
      BY <1>1, <2>1 DEF CommitPrepare, Commit, SetJob, Lock
    <3>2. CASE o = txn.orch
      <4>1. jobs'[o].live = txn.runs
        BY <1>1, <3>1, <3>2 DEF TypeOK, JobRecord
      <4>2. Hands(k, txn.runs)
        BY <3>1 DEF WInv, Preparing
      <4> QED BY <3>1, <4>1, <4>2
    <3>3. CASE o # txn.orch
      <4>1. jobs'[o] = jobs[o]
        BY <1>1, <3>1, <3>3 DEF TypeOK
      <4>2. InWindow(o)
        BY <1>5, <4>1 DEF InWindow
      <4> QED BY <1>4, <3>3, <4>1, <4>2
    <3> QED BY <3>2, <3>3
  <2>2. CASE CommitTick
    <3>1. jobs' = jobs /\ txn.op = "tick"
      BY <1>1, <2>2 DEF CommitTick, memory, Lock, LockFree, NoTxn, Txn
    <3>2. InWindow(o)
      BY <1>5, <3>1 DEF InWindow
    <3> QED BY <1>4, <3>1, <3>2
  <2>3. CASE CommitMerge
    <3>1. /\ txn.orch \in Orchs
          /\ jobs' = [jobs EXCEPT ![txn.orch] =
                [jobs[txn.orch] EXCEPT !.pc = "finish",
                                       !.more = @ /\ StatusOf(k, txn.orch) = "running"]]
      BY <1>1, <2>3 DEF CommitMerge, SetJob, Lock
    <3>2. o # txn.orch
      BY <1>1, <1>5, <3>1 DEF InWindow, TypeOK, JobRecord
    <3>3. jobs'[o] = jobs[o]
      BY <1>1, <3>1, <3>2 DEF TypeOK
    <3>4. InWindow(o)
      BY <1>5, <3>3 DEF InWindow
    <3> QED BY <1>4, <3>2, <3>3, <3>4
  <2>4. CASE CommitSync
    <3>1. jobs' = jobs /\ txn.op = "sync"
      BY <2>4 DEF CommitSync, memory
    <3>2. InWindow(o) /\ o # txn.orch
      BY <1>5, <3>1 DEF InWindow, WInv, BatchApart
    <3> QED BY <1>4, <3>1, <3>2
  <2> QED BY <2>1, <2>2, <2>3, <2>4 DEF Commits
<1> QED BY <1>2, <1>5, SavedHands DEF NoTxn

\* Taking the lock keeps it: this is where the batch route has to wait.
LEMMA BeginHands ==
    ASSUME ~SyncInWindow, IInv, WInv, Begins
    PROVE  WInv'
<1>1. LockFree /\ k' = k /\ disk' = disk /\ jobs' = jobs
    BY DEF Begins, BeginPrepare, BeginMerge, BeginSync, BeginTick, memory
<1>2. k = disk
    BY <1>1 DEF IInv, Lock
<1>3. Windows' /\ Progress(disk, k)'
    BY <1>1, <1>2 DEF WInv, Windows, InWindow, Hands, Open, Progress
<1>4. CASE \E o \in Orchs : BeginPrepare(o)
    BY <1>3, <1>4 DEF BeginPrepare, NoTxn, WInv, BatchApart, Preparing, Merging, Hands
<1>5. CASE \E o \in Orchs : BeginMerge(o)
  <2>1. PICK o \in Orchs : BeginMerge(o)
    BY <1>5
  <2>2. /\ InWindow(o) /\ txn'.op = "merge" /\ txn'.todo \subseteq jobs[o].live
    BY <2>1 DEF BeginMerge, InWindow, NoTxn
  <2>3. Hands(k, txn'.todo)
    BY <1>2, <2>2, HandsFewer DEF WInv, Windows
  <2>4. Merging'
    BY <1>1, <2>3 DEF Merging, Hands, Open
  <2> QED BY <1>3, <2>2, <2>4 DEF WInv, BatchApart, Preparing
<1>6. CASE \E o \in Orchs : BeginSync(o)
  <2>1. PICK o \in Orchs : BeginSync(o)
    BY <1>6
  <2>2. txn'.op = "sync" /\ txn'.orch = o /\ ~InWindow(o)
    BY <2>1 DEF BeginSync, InWindow, NoTxn
  <2>3. BatchApart'
    BY <1>1, <2>2 DEF BatchApart, InWindow
  <2> QED BY <1>3, <2>2, <2>3 DEF WInv, Preparing, Merging
<1>7. CASE BeginTick
  <2>1. txn'.op = "tick"
    BY <1>7 DEF BeginTick, NoTxn
  <2> QED BY <1>3, <2>1 DEF WInv, BatchApart, Preparing, Merging
<1> QED BY <1>4, <1>5, <1>6, <1>7 DEF Begins

\* Losing what was not saved keeps it.
LEMMA LoseHands ==
    ASSUME IInv, WInv, Loses
    PROVE  WInv'
<1>1. k' = disk' /\ disk' = disk /\ txn' = NoTxn
    BY DEF Loses, RoundFails, SaveFails, Crash
<1>2. TypeOK /\ Lock
    BY DEF IInv
<1>3. ASSUME NEW o \in Orchs, InWindow(o)' PROVE InWindow(o) /\ jobs'[o] = jobs[o]
  <2>1. CASE RoundFails
    <3>1. txn.orch \in Orchs /\ jobs' = [jobs EXCEPT ![txn.orch] = [NoJob EXCEPT !.state = "failed"]]
      BY <1>2, <2>1 DEF RoundFails, SetJob, Lock
    <3>2. o # txn.orch
      BY <1>2, <1>3, <3>1 DEF InWindow, TypeOK, NoJob
    <3> QED BY <1>2, <1>3, <3>1, <3>2 DEF InWindow, TypeOK
  <2>2. CASE SaveFails
    BY <1>3, <2>2 DEF SaveFails, memory, InWindow
  <2>3. CASE Crash
    BY <1>3, <2>3 DEF Crash, InWindow, NoJob
  <2> QED BY <2>1, <2>2, <2>3 DEF Loses
<1>4. \A o \in Orchs : InWindow(o)' => Hands(disk', jobs'[o].live)
    BY <1>1, <1>3 DEF WInv, Windows
<1> QED BY <1>1, <1>4, SavedHands DEF NoTxn

\* The operator's routes and the watchdog keep it.
LEMMA EditHands ==
    ASSUME IInv, WInv, Edits
    PROVE  WInv'
<1>1. /\ LockFree /\ txn' = txn /\ jobs' = jobs /\ k' = disk' /\ disk'.step = disk.step
      /\ Evolves(disk, disk')
    BY EditFacts DEF Edits
<1>2. ASSUME NEW o \in Orchs, InWindow(o)' PROVE Hands(disk', jobs'[o].live)
  <2>1. Hands(disk, jobs[o].live)
    BY <1>1, <1>2 DEF WInv, Windows, InWindow
  <2>2. \A r \in jobs[o].live : r \in Runs /\ r <= disk.next
    BY JobFields DEF IInv, Workers, Worker
  <2>3. Progress(disk, disk')
    BY <1>1, ProgressSame
  <2>4. Hands(disk', jobs[o].live)
    BY <1>1, <2>1, <2>2, <2>3, HandsKeep DEF Evolves, Grows
  <2> QED BY <1>1, <2>4
<1> QED BY <1>1, <1>2, SavedHands DEF LockFree

\* So do the steps that leave the kernel alone: no worker opens its window in one.
LEMMA BackstageHands ==
    ASSUME IInv, WInv, Backstage
    PROVE  WInv'
<1>1. Aside /\ TypeOK
    BY BackstageAside DEF IInv
<1>2. ASSUME NEW o \in Orchs, InWindow(o)' PROVE InWindow(o) /\ jobs'[o].live = jobs[o].live
  <2>1. CASE jobs' = jobs
    BY <1>2, <2>1 DEF InWindow
  <2>2. ASSUME NEW p \in Orchs, NEW job \in JobRecord, WorkerMoves(p, job)
        PROVE  InWindow(o) /\ jobs'[o].live = jobs[o].live
    BY <1>1, <1>2, <2>2, SetJobFacts DEF InWindow, WorkerMoves
  <2> QED BY <2>1, <2>2, BackstageKinds
<1>3. Windows'
    BY <1>1, <1>2 DEF WInv, Windows, Aside, Hands, Open
<1>4. BatchApart'
  <2>1. txn' = txn /\ (txn.op = "sync" => txn.orch \in Orchs /\ ~InWindow(txn.orch))
    BY <1>1 DEF Aside, IInv, Lock, WInv, BatchApart
  <2>2. txn.op = "sync" => ~InWindow(txn.orch)'
    BY <1>2, <2>1
  <2> QED BY <2>1, <2>2 DEF BatchApart, InWindow
<1> QED BY <1>1, <1>3, <1>4 DEF WInv, Aside, Preparing, Merging, Hands, Open, Progress, Board!Executed, Board!Abandoned

\* Every step keeps it.
LEMMA NextWInv == ASSUME ~SyncInWindow PROVE IInv /\ BInv /\ WInv /\ [Next]_vars => WInv'
<1> SUFFICES ASSUME IInv, BInv, WInv, [Next]_vars PROVE WInv'
    OBVIOUS
<1> QED BY WorkHands, CommitHands, BeginHands, LoseHands, EditHands, BackstageHands, Kinds

\* Initially nobody holds a brief.
LEMMA InitWInv == Init => WInv
<1> SUFFICES ASSUME Init PROVE WInv
    OBVIOUS
<1>1. k = disk /\ txn.op = "none" /\ \A o \in Orchs : ~InWindow(o)
    BY DEF Init, NoTxn, NoJob, InWindow
<1> QED BY <1>1 DEF WInv, Progress, Windows, BatchApart, Preparing, Merging

\* If no batch is called in a job's window, holders of briefs hold open ones.
THEOREM HandsHold == ASSUME ~SyncInWindow PROVE Spec => []WInv
<1>1. Spec => []BInv
    BY KernelInvariant, InitBInv, NextBInv, PTL DEF Spec
<1>2. IInv /\ BInv /\ WInv /\ [Next]_vars => WInv'
    BY NextWInv
<1> QED BY <1>1, <1>2, KernelInvariant, InitWInv, PTL DEF Spec

\* Every step publishes outcomes as the board allows, or none.
LEMMA StepPublishes ==
    ASSUME IInv, WInv, [Next]_vars
    PROVE  [Board!Publish]_(disk.step)
<1> SUFFICES ASSUME disk'.step # disk.step PROVE Board!Publish
    BY DEF Board!Publish
<1>1. Commits
  <2>1. Labours => disk' = disk
    BY PropagateFacts, InlineFacts, PreparedFacts, MergeFacts, OtherFacts DEF Labours, Working
  <2>2. Begins => disk' = disk
    BY DEF Begins, BeginPrepare, BeginMerge, BeginSync, BeginTick
  <2>3. Loses => disk' = disk
    BY DEF Loses, RoundFails, SaveFails, Crash
  <2>4. Edits => disk'.step = disk.step
    BY EditFacts DEF Edits
  <2>5. Backstage => disk' = disk
    BY BackstageAside DEF Aside
  <2> QED BY <2>1, <2>2, <2>3, <2>4, <2>5, Kinds
<1>2. disk'.step = k.step
  <2>1. CASE CommitPrepare \/ CommitTick
    BY <2>1 DEF CommitPrepare, CommitTick, Commit
  <2>2. CASE CommitMerge \/ CommitSync
    <3>1. Sound(k) /\ disk' = WithStatus(k, txn.orch) /\ txn.orch \in Orchs
      BY <2>2 DEF CommitMerge, CommitSync, Commit, IInv, Lock
    <3> QED BY <3>1, WithStatusSound
  <2> QED BY <1>1, <2>1, <2>2 DEF Commits
<1>3. Progress(disk, disk')
    BY <1>2, ProgressSame, ProgressTrans DEF WInv
<1>4. disk'.step \in [Tasks -> {"pending", "completed", "failed", "blocked"}]
    BY <1>2, KernelFields DEF IInv, TypeOK, StepOutcome
<1> DEFINE S == {t \in Tasks : disk'.step[t] # disk.step[t]}
<1>5. /\ S \in SUBSET Tasks /\ \A t \in S : disk.step[t] = "pending"
      /\ \A t \in Tasks \ S : disk'.step[t] = disk.step[t]
      /\ \A t \in S : Board!Executed(disk'.step, t) \/ Board!Abandoned(disk'.step, t)
    BY <1>3 DEF Progress
<1> HIDE DEF S
<1> QED BY <1>4, <1>5 DEF Board!Publish

\* If no batch is called in a job's window, the saved outcomes implement the
\* abstract board: one final outcome each, dependencies first.
THEOREM BoardRefined == ASSUME ~SyncInWindow PROVE Spec => BoardImplemented
<1>1. Init => Board!Init
    BY DEF Init, FreshKernel, Board!Init
<1>2. IInv /\ WInv /\ [Next]_vars => [Board!Publish]_(disk.step)
    BY StepPublishes
<1>3. Spec => []WInv
    BY HandsHold
<1> QED BY <1>1, <1>2, <1>3, KernelInvariant, PTL DEF Spec, BoardImplemented, Board!Spec

\* If no batch is called in a job's window, no brief is decided while its
\* process is alive.
THEOREM NeverExecutedTwice == ASSUME ~SyncInWindow PROVE Spec => []NoDoubleExecution
<1>1. IInv /\ WInv => NoDoubleExecution
  <2> SUFFICES ASSUME IInv, WInv, NEW o \in Orchs, NEW r \in jobs[o].live, proc[r] = "live"
               PROVE  disk.step[disk.rtask[r]] = "pending"
    BY DEF NoDoubleExecution
  <2>1. r \in Runs
    BY JobFields DEF IInv
  <2>2. PICK p \in Orchs : jobs[p].pc = "exec" /\ r \in jobs[p].live
    BY <2>1 DEF IInv, LiveProcs
  <2>3. Hands(disk, jobs[p].live)
    BY <2>2 DEF WInv, Windows, InWindow
  <2> QED BY <2>2, <2>3 DEF Hands, Open
<1>2. Spec => []WInv
    BY HandsHold
<1> QED BY <1>1, <1>2, KernelInvariant, PTL
=============================================================================
