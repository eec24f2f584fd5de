------------------------- MODULE ExecutionGatewayProofs -------------------------
(***************************************************************************)
(* Proofs about ExecutionGateway: what the two ledgers and the rollbacks   *)
(* guarantee for any number of calls, keys and rollbacks, and any pattern  *)
(* of failing stores and crashes.                                          *)
(***************************************************************************)
EXTENDS ExecutionGateway, TLAPS

Recording == {"record_ok", "record_dry", "record_failed"}

\* What a call has done by the time it is where it is.
CallInv ==
    \A c \in Calls :
        /\ pc[c] \in {"idle", "lookup", "handler", "record_dry", "replayed"} => outcome[c] = "none"
        /\ pc[c] = "handler" => ~opt[c].dry_run
        /\ pc[c] = "record_ok" => outcome[c] = "ok" /\ ~opt[c].dry_run
        /\ pc[c] = "record_dry" => opt[c].dry_run
        /\ pc[c] = "record_failed" => outcome[c] # "ok"
        /\ outcome[c] # "none" => ~opt[c].dry_run
        /\ Present(c) => pc[c] = "done"
        /\ Present(c) /\ row[c].success /\ ~row[c].dry_run =>
              outcome[c] = "ok" /\ ~opt[c].dry_run

\* What a rollback is about to undo may be undone, and what it has been
\* through was undone or is among its errors.
WalkInv ==
    \A r \in Rollbacks :
        /\ \A c \in scope[r] : /\ Present(c) /\ row[c].success /\ ~row[c].dry_run
                               /\ opt[c].tier = "auto"
        /\ todo[r] \subseteq scope[r]
        /\ rpc[r] = "mark" => current[r] \in scope[r] /\ undone[current[r]] > 0
        /\ rpc[r] = "done" => todo[r] = {}
        /\ \A c \in scope[r] \ todo[r] : undone[c] > 0 \/ c \in errors[r]

LedgerInv == TypeOK /\ CallInv /\ WalkInv

\* A row that was inserted is not the absent row.
LEMMA RowIsPresent ==
    ASSUME NEW x \in Row
    PROVE  x # NoRow /\ [x EXCEPT !.rolled_back = TRUE] \in Row
           /\ [x EXCEPT !.rolled_back = TRUE].success = x.success
           /\ [x EXCEPT !.rolled_back = TRUE].dry_run = x.dry_run
           /\ [x EXCEPT !.rolled_back = TRUE].rolled_back = TRUE
<1>1. "absent" \in DOMAIN NoRow
  BY DEF NoRow
<1>2. "absent" \notin DOMAIN x
  BY DEF Row
<1> QED
  BY <1>1, <1>2 DEF Row

\* Nothing has been called at the start.
LEMMA LedgerInit == Init => LedgerInv
<1> SUFFICES ASSUME Init PROVE LedgerInv
  OBVIOUS
<1>1. NoOptions \in Options
  BY DEF NoOptions, Options
<1>2. TypeOK
  <2>1. faults \in 0 .. MaxFaults /\ crashes \in 0 .. MaxCrashes
    BY GatewayAssumption DEF Init
  <2>2. row \in [Calls -> Row \cup {NoRow}] /\ opt \in [Calls -> Options]
    BY <1>1 DEF Init
  <2> QED
    BY <2>1, <2>2 DEF Init, TypeOK, Pc, Outcome, RollbackPc
<1>3. CallInv
  BY DEF Init, CallInv, Present
<1>4. WalkInv
  BY DEF Init, WalkInv
<1> QED
  BY <1>2, <1>3, <1>4 DEF LedgerInv

\* The steps of a call leave what a rollback works on alone.
LEMMA WalkFrame ==
    ASSUME TypeOK, WalkInv, UNCHANGED rollbackVars,
           \A c \in Calls : Present(c) => row'[c] = row[c] /\ opt'[c] = opt[c]
    PROVE  WalkInv'
BY DEF TypeOK, WalkInv, rollbackVars, Present

\* The steps of a rollback leave what a call has done alone.
LEMMA CallFrame ==
    ASSUME TypeOK, CallInv, UNCHANGED << pc, opt, outcome >>,
           \A c \in Calls : \/ row'[c] = row[c]
                            \/ Present(c) /\ row'[c] = [row[c] EXCEPT !.rolled_back = TRUE]
    PROVE  CallInv'
<1> SUFFICES ASSUME NEW c \in Calls, Present(c)'
             PROVE  Present(c) /\ row'[c].success = row[c].success
                    /\ row'[c].dry_run = row[c].dry_run
  BY DEF CallInv, Present
<1>1. CASE row'[c] = row[c]
  BY <1>1 DEF Present
<1>2. CASE Present(c) /\ row'[c] = [row[c] EXCEPT !.rolled_back = TRUE]
  BY <1>2, RowIsPresent DEF Present, TypeOK
<1> QED
  BY <1>1, <1>2

\* Every step of a call keeps the invariant.
LEMMA CallStepLedger ==
    ASSUME LedgerInv, NEW c \in Calls, CallStep(c)
    PROVE  LedgerInv'
<1> USE DEF LedgerInv, callVars, ledgerVars, boundVars
<1>1. CASE \E o \in Options : Dispatch(c, o)
  <2>1. PICK o \in Options : Dispatch(c, o)
    BY <1>1
  <2>2. TypeOK'
    BY <2>1 DEF Dispatch, TypeOK, rollbackVars, Pc
  <2>3. CallInv'
    BY <2>1 DEF Dispatch, TypeOK, CallInv, Present
  <2>4. WalkInv'
    BY <2>1, WalkFrame DEF Dispatch, TypeOK, CallInv
  <2> QED
    BY <2>2, <2>3, <2>4
<1>2. CASE Replay(c)
  <2>1. TypeOK' /\ CallInv'
    BY <1>2 DEF Replay, TypeOK, CallInv, Present, rollbackVars, Pc
  <2>2. WalkInv'
    BY <1>2, WalkFrame DEF Replay
  <2> QED
    BY <2>1, <2>2
<1>3. CASE FreshKey(c) \/ LookupFails(c)
  <2>1. pc[c] = "lookup" /\ Proceed(c)
    BY <1>3 DEF FreshKey, LookupFails
  <2>2. faults' \in 0 .. MaxFaults
    BY <1>3, GatewayAssumption DEF FreshKey, LookupFails, Fault, TypeOK
  <2>3. TypeOK'
    BY <2>1, <2>2 DEF Proceed, TypeOK, rollbackVars, Pc
  <2>4. CallInv'
    BY <2>1 DEF Proceed, TypeOK, CallInv, Present
  <2>5. WalkInv'
    BY <2>1, WalkFrame DEF Proceed
  <2> QED
    BY <2>3, <2>4, <2>5
<1>4. CASE Handle(c)
  <2>1. TypeOK'
    BY <1>4 DEF Handle, TypeOK, rollbackVars, Pc, Outcome
  <2>2. CallInv'
    BY <1>4 DEF Handle, TypeOK, CallInv, Present
  <2>3. WalkInv'
    BY <1>4, WalkFrame DEF Handle
  <2> QED
    BY <2>1, <2>2, <2>3
<1>5. CASE Record(c)
  <2> DEFINE x == [success |-> pc[c] # "record_failed", dry_run |-> opt[c].dry_run,
                   rolled_back |-> FALSE]
  <2>1. opt[c].dry_run \in BOOLEAN
    BY DEF TypeOK, Options
  <2>2. x \in Row /\ x.success = (pc[c] # "record_failed") /\ x.dry_run = opt[c].dry_run
    BY <2>1 DEF Row
  <2>3. row' = row \/ row' = [row EXCEPT ![c] = x]
    BY <1>5 DEF Record
  <2>4. pc[c] \in Recording /\ pc' = [pc EXCEPT ![c] = "done"] /\ ~Present(c)
    BY <1>5 DEF Return, Record, Recording, CallInv
  <2> HIDE DEF x
  <2>5. row' \in [Calls -> Row \cup {NoRow}]
    BY <2>2, <2>3 DEF TypeOK
  <2>6. completed' \in SUBSET Calls /\ failed' \in SUBSET Calls
    BY <1>5 DEF Record, Return, InMemory, TypeOK
  <2>7. TypeOK'
    BY <1>5, <2>4, <2>5, <2>6 DEF Return, Record, TypeOK, rollbackVars, Pc
  <2>8. CallInv'
    <3>1. UNCHANGED << opt, outcome >>
      BY <1>5 DEF Record
    <3>2. \A d \in Calls : d # c => row'[d] = row[d] /\ pc'[d] = pc[d]
      BY <2>3, <2>4 DEF TypeOK
    <3>3. pc'[c] = "done" /\ (row'[c] = NoRow \/ row'[c] = x)
      BY <2>3, <2>4 DEF TypeOK, Present
    <3>4. x.success /\ ~x.dry_run => outcome[c] = "ok" /\ ~opt[c].dry_run
      BY <2>2, <2>4 DEF CallInv, Recording
    <3> QED
      BY <3>1, <3>2, <3>3, <3>4 DEF CallInv, Present
  <2>9. WalkInv'
    BY <1>5, <2>3, <2>4, WalkFrame DEF Record, TypeOK
  <2> QED
    BY <2>7, <2>8, <2>9
<1>6. CASE RecordFails(c)
  <2>1. faults' \in 0 .. MaxFaults
    BY <1>6, GatewayAssumption DEF RecordFails, Fault, TypeOK
  <2>2. completed' \in SUBSET Calls /\ failed' \in SUBSET Calls
    BY <1>6 DEF RecordFails, Return, InMemory, TypeOK
  <2>3. TypeOK'
    BY <1>6, <2>1, <2>2 DEF Return, RecordFails, TypeOK, rollbackVars, Pc
  <2>4. CallInv'
    BY <1>6 DEF Return, RecordFails, TypeOK, CallInv, Present
  <2>5. WalkInv'
    BY <1>6, WalkFrame DEF RecordFails
  <2> QED
    BY <2>3, <2>4, <2>5
<1> QED
  BY <1>1, <1>2, <1>3, <1>4, <1>5, <1>6 DEF CallStep

\* Every step of a rollback keeps the invariant.
LEMMA RollbackStepLedger ==
    ASSUME LedgerInv, NEW r \in Rollbacks, RollbackStep(r)
    PROVE  LedgerInv'
<1> USE DEF LedgerInv, callVars, ledgerVars, boundVars
<1>1. CASE RollbackStart(r)
  <2>1. TypeOK'
    BY <1>1 DEF RollbackStart, TypeOK, RollbackPc
  <2>2. CallInv'
    BY <1>1, CallFrame DEF RollbackStart
  <2>3. WalkInv'
    BY <1>1 DEF RollbackStart, TypeOK, WalkInv, Present, Undoable
  <2> QED
    BY <2>1, <2>2, <2>3
<1>2. ASSUME NEW c \in Calls, Compensate(r, c) PROVE LedgerInv'
  <2>1. TypeOK'
    BY <1>2 DEF Compensate, TypeOK, RollbackPc
  <2>2. CallInv'
    BY <1>2, CallFrame DEF Compensate
  <2>3. \A d \in Calls : undone[d] > 0 => undone'[d] > 0
    BY <1>2 DEF Compensate, TypeOK
  <2>4. undone'[c] > 0 /\ c \in todo[r]
    BY <1>2 DEF Compensate, TypeOK, Newest
  <2>5. WalkInv'
    BY <1>2, <2>3, <2>4 DEF Compensate, TypeOK, WalkInv, Present
  <2> QED
    BY <2>1, <2>2, <2>5
<1>3. ASSUME NEW c \in Calls, CompensateFails(r, c) PROVE LedgerInv'
  <2>1. TypeOK'
    BY <1>3 DEF CompensateFails, TypeOK, RollbackPc
  <2>2. CallInv'
    BY <1>3, CallFrame DEF CompensateFails
  <2>3. WalkInv'
    BY <1>3 DEF CompensateFails, TypeOK, WalkInv, Present
  <2> QED
    BY <2>1, <2>2, <2>3
<1>4. CASE MarkRolledBack(r)
  <2> DEFINE c == current[r]
  <2>1. c \in Calls /\ Present(c) /\ row[c] \in Row
    BY <1>4 DEF MarkRolledBack, WalkInv, TypeOK, Present
  <2>2. row' = [row EXCEPT ![c] = [row[c] EXCEPT !.rolled_back = TRUE]]
    BY <1>4 DEF MarkRolledBack
  <2>3. /\ row'[c] \in Row /\ row'[c] # NoRow
        /\ row'[c].success = row[c].success /\ row'[c].dry_run = row[c].dry_run
        /\ row'[c] = [row[c] EXCEPT !.rolled_back = TRUE]
    BY <2>1, <2>2, RowIsPresent DEF TypeOK
  <2>4. \A d \in Calls : d # c => row'[d] = row[d]
    BY <2>2 DEF TypeOK
  <2> HIDE DEF c
  <2>5. TypeOK'
    BY <1>4, <2>1, <2>2, <2>3 DEF MarkRolledBack, TypeOK, RollbackPc
  <2>6. CallInv'
    BY <1>4, <2>1, <2>3, <2>4, CallFrame DEF MarkRolledBack
  <2>7. WalkInv'
    <3>1. UNCHANGED << opt, scope, todo, undone, errors, current >>
      BY <1>4 DEF MarkRolledBack
    <3>2. \A q \in Rollbacks : rpc'[q] = rpc[q] \/ rpc'[q] = "walk"
      BY <1>4 DEF MarkRolledBack, TypeOK
    <3>3. \A d \in Calls : Present(d) => Present(d)' /\ row'[d].success = row[d].success
                                         /\ row'[d].dry_run = row[d].dry_run
      BY <2>3, <2>4 DEF Present
    <3>4. \A q \in Rollbacks : scope[q] \subseteq Calls
      BY DEF TypeOK
    <3> QED
      BY <3>1, <3>2, <3>3, <3>4 DEF WalkInv
  <2> QED
    BY <2>5, <2>6, <2>7
<1>5. CASE MarkFails(r)
  <2>1. faults' \in 0 .. MaxFaults
    BY <1>5, GatewayAssumption DEF MarkFails, Fault, TypeOK
  <2>2. TypeOK'
    BY <1>5, <2>1 DEF MarkFails, TypeOK, RollbackPc
  <2>3. CallInv'
    BY <1>5, CallFrame DEF MarkFails
  <2>4. WalkInv'
    BY <1>5 DEF MarkFails, TypeOK, WalkInv, Present
  <2> QED
    BY <2>2, <2>3, <2>4
<1>6. CASE RollbackEnd(r)
  <2>1. TypeOK'
    BY <1>6 DEF RollbackEnd, TypeOK, RollbackPc
  <2>2. CallInv'
    BY <1>6, CallFrame DEF RollbackEnd
  <2>3. WalkInv'
    BY <1>6 DEF RollbackEnd, TypeOK, WalkInv, Present
  <2> QED
    BY <2>1, <2>2, <2>3
<1> QED
  BY <1>1, <1>2, <1>3, <1>4, <1>5, <1>6 DEF RollbackStep

\* Calls, rollbacks and crashes keep the invariant.
LEMMA LedgerNext == LedgerInv /\ [Next]_vars => LedgerInv'
<1> SUFFICES ASSUME LedgerInv, [Next]_vars PROVE LedgerInv'
  OBVIOUS
<1> USE DEF callVars, ledgerVars, rollbackVars, boundVars
<1>1. CASE Crash
  <2>1. crashes' \in 0 .. MaxCrashes
    BY <1>1, GatewayAssumption DEF Crash, LedgerInv, TypeOK
  <2>2. TypeOK'
    BY <1>1, <2>1 DEF Crash, LedgerInv, TypeOK, Pc, RollbackPc
  <2>3. CallInv'
    BY <1>1 DEF Crash, LedgerInv, TypeOK, CallInv, Present
  <2>4. WalkInv'
    BY <1>1 DEF Crash, LedgerInv, TypeOK, WalkInv, Present, Active
  <2> QED
    BY <2>2, <2>3, <2>4 DEF LedgerInv
<1>2. CASE UNCHANGED vars
  BY <1>2 DEF vars, LedgerInv, TypeOK, CallInv, WalkInv, Present
<1> QED
  BY <1>1, <1>2, CallStepLedger, RollbackStepLedger DEF Next

\* The invariant holds throughout.
LEMMA LedgerAlways == Spec => []LedgerInv
<1>1. LedgerInv /\ [Next]_vars => LedgerInv'
  BY LedgerNext
<1> QED
  BY <1>1, LedgerInit, PTL DEF Spec

(* Type correctness.  It rests on the walk: a rollback marks only actions  *)
(* that have a row.                                                        *)
THEOREM TypeCorrect == Spec => []TypeOK
<1>1. LedgerInv => TypeOK
  BY DEF LedgerInv
<1> QED
  BY <1>1, LedgerAlways, PTL

(* A rollback that returns has undone every Tier A action of its snapshot  *)
(* or reports it as failed, whatever fails in between.                     *)
THEOREM RollbacksCoverScope == Spec => []RollbackCoversScope
<1>1. LedgerInv => RollbackCoversScope
  BY DEF LedgerInv, WalkInv, RollbackCoversScope
<1> QED
  BY <1>1, LedgerAlways, PTL

(* rollback.rs: "unwinds in reverse".  By the time a rollback turns to an  *)
(* action, each action of its snapshot that started later has been undone  *)
(* or is among its errors, whatever other rollbacks and calls do between   *)
(* its steps.                                                              *)
UnwindsInReverse ==
    [][\A r \in Rollbacks, c \in Calls : Compensate(r, c) \/ CompensateFails(r, c) =>
          \A d \in scope[r] : started[d] > started[c] => undone[d] > 0 \/ d \in errors[r]]_vars

(* A rollback unwinds its transaction newest first and leaves no gap: what *)
(* it skips over is reported.                                              *)
THEOREM RollbacksUnwindInReverse == Spec => UnwindsInReverse
<1>1. ASSUME LedgerInv, NEW r \in Rollbacks, NEW c \in Calls,
             Compensate(r, c) \/ CompensateFails(r, c),
             NEW d \in scope[r], started[d] > started[c]
      PROVE  undone[d] > 0 \/ d \in errors[r]
  <2>1. c \in Calls /\ d \in Calls /\ started[c] \in Nat /\ started[d] \in Nat
    BY <1>1 DEF LedgerInv, TypeOK
  <2>2. Newest(c, todo[r])
    BY <1>1 DEF Compensate, CompensateFails
  <2>3. d \notin todo[r]
    BY <1>1, <2>1, <2>2 DEF Newest
  <2> QED
    BY <1>1, <2>3 DEF LedgerInv, WalkInv
<1>2. LedgerInv =>
        \A r \in Rollbacks, c \in Calls : Compensate(r, c) \/ CompensateFails(r, c) =>
            \A d \in scope[r] : started[d] > started[c] => undone[d] > 0 \/ d \in errors[r]
  BY <1>1
<1> QED
  BY <1>2, LedgerAlways, PTL DEF UnwindsInReverse

-----------------------------------------------------------------------------
(* What is undone.                                                         *)

\* A row keeps what it says of its call; rolled_back is set by a mark only.
RowFrame(c) ==
    /\ Present(c) => /\ Present(c)'
                     /\ opt'[c] = opt[c] /\ outcome'[c] = outcome[c] /\ pc'[c] = pc[c]
                     /\ row'[c].success = row[c].success /\ row'[c].dry_run = row[c].dry_run
                     /\ row[c].rolled_back => row'[c].rolled_back
    /\ Present(c)' /\ row'[c].rolled_back =>
          \/ Present(c) /\ row[c].rolled_back
          \/ \E r \in Rollbacks : MarkRolledBack(r) /\ current[r] = c

\* Every step respects RowFrame.
LEMMA RowFrameNext ==
    ASSUME LedgerInv, [Next]_vars, NEW c \in Calls
    PROVE  RowFrame(c)
<1> USE DEF LedgerInv, callVars, ledgerVars
<1>0. Present(c) => pc[c] = "done"
  BY DEF CallInv
<1>1. ASSUME NEW d \in Calls, Record(d) PROVE RowFrame(c)
  <2>1. /\ UNCHANGED << opt, outcome >>
        /\ pc[d] # "done" /\ pc' = [pc EXCEPT ![d] = "done"]
        /\ \/ row' = row
           \/ \E x \in {y \in Row : ~y.rolled_back} : row' = [row EXCEPT ![d] = x]
    <3>1. opt[d].dry_run \in BOOLEAN
      BY DEF TypeOK, Options
    <3>2. [success |-> pc[d] # "record_failed", dry_run |-> opt[d].dry_run, rolled_back |-> FALSE]
            \in {y \in Row : ~y.rolled_back}
      BY <3>1 DEF Row
    <3> QED
      BY <1>1, <3>2 DEF Return, Record
  <2>2. d # c => row'[c] = row[c] /\ pc'[c] = pc[c]
    BY <2>1 DEF TypeOK
  <2>3. d = c => ~Present(c) /\ (row'[c] = row[c] \/ ~row'[c].rolled_back)
    BY <2>1, <1>0 DEF TypeOK
  <2> QED
    BY <2>1, <2>2, <2>3 DEF RowFrame, Present
<1>2. ASSUME NEW d \in Calls, CallStep(d), ~Record(d) PROVE RowFrame(c)
  <2>1. UNCHANGED row /\ pc[d] # "done"
    BY <1>2 DEF CallStep, Dispatch, Replay, FreshKey, LookupFails, Proceed, Handle, RecordFails
  <2>2. d # c => opt'[c] = opt[c] /\ outcome'[c] = outcome[c] /\ pc'[c] = pc[c]
    BY <1>2 DEF Return, CallStep, Dispatch, Replay, FreshKey, LookupFails, Proceed, Handle,
                RecordFails, TypeOK
  <2> QED
    BY <1>0, <2>1, <2>2 DEF RowFrame, Present
<1>3. ASSUME NEW r \in Rollbacks, MarkRolledBack(r) PROVE RowFrame(c)
  <2>1. current[r] \in Calls /\ row[current[r]] \in Row /\ UNCHANGED << pc, opt, outcome >>
    BY <1>3 DEF MarkRolledBack, WalkInv, TypeOK, Present
  <2>2. row' = [row EXCEPT ![current[r]] = [row[current[r]] EXCEPT !.rolled_back = TRUE]]
    BY <1>3 DEF MarkRolledBack
  <2>3. c # current[r] => row'[c] = row[c]
    BY <2>2 DEF TypeOK
  <2>4. c = current[r] => /\ row'[c] = [row[c] EXCEPT !.rolled_back = TRUE]
                          /\ row[c] \in Row
    BY <2>1, <2>2 DEF TypeOK
  <2> QED
    BY <1>3, <2>1, <2>3, <2>4, RowIsPresent DEF RowFrame, Present
<1>4. ASSUME NEW r \in Rollbacks, RollbackStep(r), ~MarkRolledBack(r) PROVE RowFrame(c)
  BY <1>4 DEF RollbackStep, RollbackStart, Compensate, CompensateFails, MarkFails, RollbackEnd,
              RowFrame, Present
<1>5. CASE Crash
  BY <1>0, <1>5 DEF Crash, RowFrame, Present, TypeOK
<1>6. CASE UNCHANGED vars
  BY <1>6 DEF vars, RowFrame, Present
<1> QED
  BY <1>1, <1>2, <1>3, <1>4, <1>5, <1>6 DEF Next

\* Compensating calls are counted by Compensate alone.
LEMMA UndoneFrame ==
    ASSUME [Next]_vars
    PROVE  undone' = undone \/ \E r \in Rollbacks, c \in Calls : Compensate(r, c)
<1>1. ASSUME NEW d \in Calls, CallStep(d) PROVE undone' = undone
  BY <1>1 DEF CallStep, Dispatch, Replay, FreshKey, LookupFails, Proceed, Handle, Record,
              RecordFails, rollbackVars
<1>2. ASSUME NEW r \in Rollbacks, RollbackStep(r)
      PROVE  undone' = undone \/ \E c \in Calls : Compensate(r, c)
  BY <1>2 DEF RollbackStep, RollbackStart, CompensateFails, MarkRolledBack, MarkFails, RollbackEnd
<1>3. CASE Crash \/ UNCHANGED vars
  BY <1>3 DEF Crash, vars, rollbackVars
<1> QED
  BY <1>1, <1>2, <1>3 DEF Next

UndoneInv ==
    /\ \A c \in Calls : undone[c] > 0 =>
          Present(c) /\ row[c].success /\ ~row[c].dry_run /\ opt[c].tier = "auto"
    /\ RolledBackIsUndone

\* Every step undoes only what a successful row of Tier A records.
LEMMA UndoneNext == LedgerInv /\ UndoneInv /\ [Next]_vars => UndoneInv'
<1> SUFFICES ASSUME LedgerInv, UndoneInv, [Next]_vars, NEW c \in Calls
             PROVE  /\ undone'[c] > 0 => /\ Present(c)' /\ row'[c].success /\ ~row'[c].dry_run
                                         /\ opt'[c].tier = "auto"
                    /\ Present(c)' /\ row'[c].rolled_back => undone'[c] > 0
  BY DEF UndoneInv, RolledBackIsUndone
<1>0. RowFrame(c)
  BY RowFrameNext
<1>1. undone[c] > 0 => undone'[c] > 0
  BY UndoneFrame DEF Compensate, LedgerInv, TypeOK
<1>2. undone'[c] > 0 => undone[c] > 0 \/ \E r \in Rollbacks : c \in scope[r]
  <2>1. ASSUME NEW r \in Rollbacks, NEW d \in Calls, Compensate(r, d)
        PROVE  undone'[c] > 0 => undone[c] > 0 \/ c \in scope[r]
    BY <2>1 DEF Compensate, Newest, LedgerInv, TypeOK, WalkInv
  <2> QED
    BY <2>1, UndoneFrame
<1>3. ASSUME undone'[c] > 0
      PROVE  Present(c) /\ row[c].success /\ ~row[c].dry_run /\ opt[c].tier = "auto"
  BY <1>2, <1>3 DEF UndoneInv, LedgerInv, WalkInv
<1>4. ASSUME NEW r \in Rollbacks, MarkRolledBack(r), current[r] = c PROVE undone[c] > 0
  BY <1>4 DEF MarkRolledBack, LedgerInv, WalkInv
<1> QED
  BY <1>0, <1>1, <1>3, <1>4 DEF RowFrame, UndoneInv, RolledBackIsUndone

\* Nothing is undone at the start, and the invariant is kept.
LEMMA UndoneAlways == Spec => []UndoneInv
<1>1. Init => UndoneInv
  BY DEF Init, UndoneInv, RolledBackIsUndone, Present
<1>2. LedgerInv /\ UndoneInv /\ [Next]_vars => UndoneInv'
  BY UndoneNext
<1> QED
  BY <1>1, <1>2, LedgerAlways, PTL DEF Spec

(* Compensating calls are made only for actions whose tool really ran.     *)
THEOREM EffectsAreUndone == Spec => []OnlyEffectsAreUndone
<1>1. LedgerInv /\ UndoneInv => OnlyEffectsAreUndone
  BY DEF LedgerInv, CallInv, UndoneInv, OnlyEffectsAreUndone, HasEffect
<1> QED
  BY <1>1, LedgerAlways, UndoneAlways, PTL

(* A row is marked rolled back only after its compensation succeeded.      *)
THEOREM RolledBackRowsAreUndone == Spec => []RolledBackIsUndone
<1>1. UndoneInv => RolledBackIsUndone
  BY DEF UndoneInv
<1> QED
  BY <1>1, UndoneAlways, PTL

-----------------------------------------------------------------------------
(* Rollbacks that run one after the other.                                 *)

Alone == ~overlapped /\ faults = 0 /\ crashes = 0

AloneInv ==
    Alone =>
        /\ \A q, r \in Rollbacks : Active(q) /\ Active(r) => q = r
        /\ \A c \in Calls : undone[c] <= 1
        /\ \A r \in Rollbacks : Active(r) => \A c \in todo[r] : undone[c] = 0
        /\ \A c \in Calls : undone[c] > 0 =>
              row[c].rolled_back \/ \E r \in Rollbacks : rpc[r] = "mark" /\ current[r] = c

\* Overlaps, failures and crashes are never forgotten.
LEMMA AloneBefore ==
    ASSUME LedgerInv, [Next]_vars, Alone'
    PROVE  /\ Alone
           /\ ~Crash
           /\ \A r \in Rollbacks : ~MarkFails(r)
<1>0. faults \in Nat /\ crashes \in Nat /\ overlapped \in BOOLEAN
  BY GatewayAssumption DEF LedgerInv, TypeOK
<1>1. ASSUME NEW d \in Calls, CallStep(d) PROVE Alone
  BY <1>0, <1>1 DEF CallStep, Dispatch, Replay, FreshKey, LookupFails, Proceed, Handle, Record,
                    RecordFails, Fault, Alone, boundVars, rollbackVars
<1>2. ASSUME NEW r \in Rollbacks, RollbackStep(r) PROVE Alone
  BY <1>0, <1>2 DEF RollbackStep, RollbackStart, Compensate, CompensateFails, MarkRolledBack,
                    MarkFails, RollbackEnd, Fault, Alone, boundVars
<1>3. ~Crash
  BY <1>0 DEF Crash, Alone
<1>4. \A r \in Rollbacks : ~MarkFails(r)
  BY <1>0 DEF MarkFails, Fault, Alone
<1>5. ASSUME UNCHANGED vars PROVE Alone
  BY <1>5 DEF vars, Alone, boundVars, rollbackVars
<1>6. Alone
  BY <1>1, <1>2, <1>3, <1>5 DEF Next
<1> QED
  BY <1>3, <1>4, <1>6

\* Every step of rollbacks that do not overlap keeps an action undone once.
LEMMA AloneNext == LedgerInv /\ UndoneInv /\ AloneInv /\ [Next]_vars => AloneInv'
<1> SUFFICES ASSUME LedgerInv, UndoneInv, AloneInv, [Next]_vars, Alone' PROVE AloneInv'
  BY DEF AloneInv
<1> USE DEF LedgerInv, callVars, ledgerVars
<1>0. Alone
  BY AloneBefore
<1>1. \A c \in Calls : undone[c] > 0 /\ row[c].rolled_back => row'[c].rolled_back
  BY RowFrameNext DEF RowFrame, UndoneInv
<1>2. ASSUME UNCHANGED rollbackVars PROVE AloneInv'
  BY <1>0, <1>1, <1>2 DEF AloneInv, Active, rollbackVars
<1>3. ASSUME NEW r \in Rollbacks, RollbackStart(r) PROVE AloneInv'
  <2>1. \A q \in Rollbacks : ~Active(q)
    BY <1>3 DEF RollbackStart, Alone
  <2>2. \A c \in Calls : undone[c] > 0 => row[c].rolled_back
    BY <1>0, <2>1 DEF AloneInv, Active
  <2>3. \A c \in todo'[r] : c \in Calls /\ undone[c] = 0
    BY <1>3, <2>2 DEF RollbackStart, Undoable, TypeOK
  <2>4. UNCHANGED << undone, row >>
    BY <1>3 DEF RollbackStart
  <2>5. \A q \in Rollbacks : Active(q)' => q = r
    BY <1>3, <2>1 DEF RollbackStart, Active, TypeOK
  <2> QED
    BY <1>0, <2>2, <2>3, <2>4, <2>5 DEF AloneInv
<1>4. ASSUME NEW r \in Rollbacks, NEW c \in Calls, Compensate(r, c) PROVE AloneInv'
  <2>1. \A q \in Rollbacks : Active(q) => q = r
    BY <1>0, <1>4 DEF Compensate, AloneInv, Active
  <2>2. c \in todo[r] /\ undone[c] = 0
    BY <1>0, <1>4 DEF Compensate, Newest, AloneInv, Active
  <2>3. \A d \in Calls : undone[d] > 0 => row[d].rolled_back
    BY <1>0, <1>4, <2>1 DEF Compensate, AloneInv, Active
  <2>4. /\ undone'[c] = 1 /\ rpc'[r] = "mark" /\ current'[r] = c
        /\ \A d \in Calls : d # c => undone'[d] = undone[d]
        /\ \A q \in Rollbacks : q # r => rpc'[q] = rpc[q]
        /\ todo'[r] = todo[r] \ {c} /\ todo[r] \subseteq Calls
        /\ UNCHANGED row
    BY <1>4, <2>2 DEF Compensate, TypeOK
  <2>5. \A q \in Rollbacks : Active(q)' => q = r
    BY <2>1, <2>4 DEF Active
  <2> QED
    BY <1>0, <1>4, <2>1, <2>3, <2>4, <2>5 DEF AloneInv, Active, Compensate
<1>5. ASSUME NEW r \in Rollbacks, NEW c \in Calls, CompensateFails(r, c) PROVE AloneInv'
  BY <1>0, <1>5 DEF CompensateFails, AloneInv, Active, TypeOK
<1>6. ASSUME NEW r \in Rollbacks, MarkRolledBack(r) PROVE AloneInv'
  <2>1. \A q \in Rollbacks : Active(q) => q = r
    BY <1>0, <1>6 DEF MarkRolledBack, AloneInv, Active
  <2>2. current[r] \in Calls /\ Present(current[r]) /\ row[current[r]] \in Row
    BY <1>6 DEF MarkRolledBack, WalkInv, TypeOK, Present
  <2>3. row'[current[r]].rolled_back = TRUE
    BY <1>6, <2>2, RowIsPresent DEF MarkRolledBack, TypeOK
  <2>4. /\ rpc'[r] = "walk" /\ \A q \in Rollbacks : q # r => rpc'[q] = rpc[q]
        /\ UNCHANGED << undone, todo, current >>
    BY <1>6 DEF MarkRolledBack, TypeOK
  <2> QED
    BY <1>0, <1>1, <1>6, <2>1, <2>3, <2>4 DEF AloneInv, Active, MarkRolledBack
<1>7. ASSUME NEW r \in Rollbacks, RollbackEnd(r) PROVE AloneInv'
  BY <1>0, <1>7 DEF RollbackEnd, AloneInv, Active, TypeOK
<1>8. ASSUME NEW c \in Calls, CallStep(c) PROVE UNCHANGED rollbackVars
  BY <1>8 DEF CallStep, Dispatch, Replay, FreshKey, LookupFails, Proceed, Handle, Record,
              RecordFails
<1> QED
  BY <1>2, <1>3, <1>4, <1>5, <1>6, <1>7, <1>8, AloneBefore DEF Next, RollbackStep, vars

(* Rollbacks that do not overlap, and whose marks neither fail nor are cut *)
(* off by a crash, compensate every action at most once.                   *)
THEOREM UndoneOnce == Spec => []UndoneOnceWhenAlone
<1>1. Init => AloneInv
  BY DEF Init, AloneInv, Active
<1>2. LedgerInv /\ UndoneInv /\ AloneInv /\ [Next]_vars => AloneInv'
  BY AloneNext
<1>3. AloneInv => UndoneOnceWhenAlone
  BY DEF AloneInv, Alone, UndoneOnceWhenAlone
<1> QED
  BY <1>1, <1>2, <1>3, LedgerAlways, UndoneAlways, PTL DEF Spec

-----------------------------------------------------------------------------
(* Idempotency keys, and the two ledgers after a call has returned.        *)

\* The lookup of the key is behind the call.
Past(c) == pc[c] \in {"handler", "done"} \cup Recording \/ outcome[c] # "none"

\* What one step may do to one call.
PathFrame(c) ==
    /\ pc[c] # "idle" => opt'[c] = opt[c]
    /\ \/ before'[c] = before[c]
       \/ /\ pc[c] = "idle" /\ pc'[c] = "lookup"
          /\ before'[c] = {d \in Calls : pc[d] = "done"}
    /\ pc[c] = "done" => pc'[c] = "done" /\ outcome'[c] = outcome[c]
    /\ pc'[c] = "done" => pc[c] = "done" \/ Record(c) \/ RecordFails(c)
    /\ Past(c)' => Past(c) \/ FreshKey(c) \/ LookupFails(c)

\* Every step respects PathFrame.
LEMMA PathFrameNext ==
    ASSUME LedgerInv, [Next]_vars, NEW c \in Calls
    PROVE  PathFrame(c)
<1> USE DEF LedgerInv, callVars
<1>1. ASSUME NEW d \in Calls, NEW o \in Options, Dispatch(d, o) PROVE PathFrame(c)
  BY <1>1 DEF Dispatch, PathFrame, Past, Recording, TypeOK
<1>2. ASSUME NEW d \in Calls, Replay(d) PROVE PathFrame(c)
  BY <1>2 DEF Replay, PathFrame, Past, Recording, TypeOK
<1>3. ASSUME NEW d \in Calls, FreshKey(d) \/ LookupFails(d) PROVE PathFrame(c)
  <2>1. pc[d] = "lookup" /\ UNCHANGED << opt, outcome, before >>
    BY <1>3 DEF FreshKey, LookupFails, Proceed
  <2>2. /\ d # c => pc'[c] = pc[c]
        /\ d = c => pc'[c] \in {"handler"} \cup Recording
    BY <1>3 DEF FreshKey, LookupFails, Proceed, Recording, TypeOK
  <2> QED
    BY <1>3, <2>1, <2>2 DEF PathFrame, Past, Recording
<1>4. ASSUME NEW d \in Calls, Handle(d) PROVE PathFrame(c)
  BY <1>4 DEF Handle, PathFrame, Past, Recording, TypeOK
<1>5. ASSUME NEW d \in Calls, Record(d) \/ RecordFails(d) PROVE PathFrame(c)
  <2>1. /\ pc[d] \in Recording /\ UNCHANGED << opt, outcome, before >>
        /\ pc' = [pc EXCEPT ![d] = "done"]
    BY <1>5 DEF Return, Record, RecordFails, Recording
  <2> QED
    BY <1>5, <2>1 DEF PathFrame, Past, Recording, TypeOK
<1>6. ASSUME NEW r \in Rollbacks, RollbackStep(r) PROVE PathFrame(c)
  <2>1. UNCHANGED callVars
    BY <1>6 DEF RollbackStep, RollbackStart, Compensate, CompensateFails, MarkRolledBack,
                MarkFails, RollbackEnd
  <2> QED
    BY <2>1 DEF PathFrame, Past
<1>7. CASE Crash
  BY <1>7 DEF Crash, PathFrame, Past, Recording, TypeOK
<1>8. CASE UNCHANGED vars
  BY <1>8 DEF vars, PathFrame, Past
<1> QED
  BY <1>1, <1>2, <1>3, <1>4, <1>5, <1>6, <1>7, <1>8 DEF Next, CallStep

\* Failures of the store are never forgotten.
LEMMA FaultsBefore ==
    ASSUME LedgerInv, [Next]_vars, faults' = 0
    PROVE  faults = 0 /\ \A c \in Calls : ~LookupFails(c) /\ ~RecordFails(c)
<1>0. faults \in Nat
  BY GatewayAssumption DEF LedgerInv, TypeOK
<1>1. ASSUME NEW d \in Calls, CallStep(d) PROVE faults = 0
  BY <1>0, <1>1 DEF CallStep, Dispatch, Replay, FreshKey, LookupFails, Proceed, Handle, Record,
                    RecordFails, Fault, boundVars
<1>2. ASSUME NEW r \in Rollbacks, RollbackStep(r) PROVE faults = 0
  BY <1>0, <1>2 DEF RollbackStep, RollbackStart, Compensate, CompensateFails, MarkRolledBack,
                    MarkFails, RollbackEnd, Fault, boundVars
<1>3. ASSUME Crash \/ UNCHANGED vars PROVE faults = 0
  BY <1>3 DEF Crash, vars, boundVars
<1>4. \A c \in Calls : ~LookupFails(c) /\ ~RecordFails(c)
  BY <1>0 DEF LookupFails, RecordFails, Fault
<1>5. faults = 0
  BY <1>1, <1>2, <1>3 DEF Next
<1> QED
  BY <1>4, <1>5

(* While the store does not fail: a call that returned has left its key in *)
(* the ledger, and a call that got past its lookup began before any call   *)
(* with its key had returned.                                              *)
KeyInv ==
    /\ \A c \in Calls : c \notin before[c] /\ \A d \in before[c] : pc[d] = "done"
    /\ faults = 0 => \A c \in Calls : opt[c].key # NoKey =>
          /\ pc[c] = "done" => PriorWith(opt[c].key) # {}
          /\ Past(c) => \A d \in before[c] : opt[d].key # opt[c].key

\* Rows are never deleted, so a key that is in the ledger stays there.
LEMMA KeysStay ==
    ASSUME LedgerInv, [Next]_vars, NEW k
    PROVE  PriorWith(k) \subseteq PriorWith(k)'
BY RowFrameNext DEF RowFrame, PriorWith

\* Every step keeps KeyInv.
LEMMA KeyNext == LedgerInv /\ KeyInv /\ [Next]_vars => KeyInv'
<1> SUFFICES ASSUME LedgerInv, KeyInv, [Next]_vars PROVE KeyInv'
  OBVIOUS
<1>0. \A c \in Calls : before[c] \subseteq Calls
  BY DEF LedgerInv, TypeOK
<1>1. ASSUME NEW c \in Calls
      PROVE  c \notin before'[c] /\ \A d \in before'[c] : d \in Calls /\ pc[d] = "done"
  BY <1>0, PathFrameNext DEF PathFrame, KeyInv
<1>2. \A d \in Calls : pc[d] = "done" => pc'[d] = "done" /\ opt'[d] = opt[d]
  BY PathFrameNext DEF PathFrame
<1>3. ASSUME faults' = 0, NEW c \in Calls, opt'[c].key # NoKey, pc'[c] = "done"
      PROVE  PriorWith(opt[c].key)' # {}
  <2>1. CASE pc[c] = "done"
    BY <1>2, <1>3, <2>1, FaultsBefore, KeysStay DEF KeyInv
  <2>2. CASE Record(c)
    <3>1. /\ opt' = opt /\ opt[c] \in Options
          /\ row' = IF opt[c].mode = "options" /\ InsertAllowed(c)
                    THEN [row EXCEPT ![c] = [success |-> pc[c] # "record_failed",
                                             dry_run |-> opt[c].dry_run, rolled_back |-> FALSE]]
                    ELSE row
      BY <2>2 DEF Record, LedgerInv, TypeOK
    <3>2. opt[c].mode = "options" /\ opt[c].dry_run \in BOOLEAN
      BY <1>3, <3>1 DEF Options
    <3>3. CASE InsertAllowed(c)
      <4>1. row'[c] \in Row
        BY <3>1, <3>2, <3>3 DEF Row, LedgerInv, TypeOK
      <4>2. Present(c)'
        BY <4>1, RowIsPresent DEF Present
      <4> QED
        BY <4>2 DEF PriorWith
    <3>4. CASE ~InsertAllowed(c)
      BY <3>1, <3>4, KeysStay DEF InsertAllowed
    <3> QED
      BY <3>3, <3>4
  <2> QED
    BY <1>3, <2>1, <2>2, PathFrameNext, FaultsBefore DEF PathFrame
<1>4. ASSUME faults' = 0, NEW c \in Calls, opt'[c].key # NoKey, Past(c)', NEW d \in before'[c]
      PROVE  opt'[d].key # opt'[c].key
  <2>1. d \in Calls /\ pc[d] = "done" /\ opt'[d] = opt[d]
    BY <1>1, <1>2, <1>4
  <2>2. Past(c) \/ FreshKey(c)
    BY <1>4, PathFrameNext, FaultsBefore DEF PathFrame
  <2>3. pc[c] # "idle" /\ outcome[c] \in Outcome
    BY <2>2 DEF FreshKey, Past, Recording, LedgerInv, CallInv, TypeOK
  <2>4. opt'[c] = opt[c] /\ before'[c] = before[c]
    BY <2>3, PathFrameNext DEF PathFrame
  <2>5. CASE Past(c)
    BY <1>4, <2>1, <2>4, <2>5, FaultsBefore DEF KeyInv
  <2>6. CASE FreshKey(c)
    <3>1. PriorWith(opt[c].key) = {}
      BY <1>4, <2>4, <2>6 DEF FreshKey, Seen
    <3> QED
      BY <1>4, <2>1, <2>4, <3>1, FaultsBefore DEF KeyInv
  <2> QED
    BY <2>2, <2>5, <2>6
<1>5. \A c \in Calls : c \notin before'[c] /\ \A d \in before'[c] : pc'[d] = "done"
  BY <1>1, <1>2
<1> QED
  BY <1>3, <1>4, <1>5 DEF KeyInv

\* The ledger is empty at the start, and the invariant is kept.
LEMMA KeyAlways == Spec => []KeyInv
<1>1. Init => KeyInv
  BY DEF Init, KeyInv, NoOptions
<1>2. LedgerInv /\ KeyInv /\ [Next]_vars => KeyInv'
  BY KeyNext
<1> QED
  BY <1>1, <1>2, LedgerAlways, PTL DEF Spec

(* A retry that is sent after the first call has returned does not run the *)
(* tool a second time, for as long as the store answers.                   *)
THEOREM RetriesRunOnce == Spec => []RetryAfterReturnRunsOnce
<1>1. KeyInv => RetryAfterReturnRunsOnce
  BY DEF KeyInv, RetryAfterReturnRunsOnce, HasEffect, Past
<1> QED
  BY <1>1, KeyAlways, PTL

\* EffectIsRecorded, with the call that took the key still in the ledger.
RecordedInv ==
    \A c \in Calls : pc[c] = "done" /\ HasEffect(c) /\ opt[c].mode = "options" =>
        \/ Present(c) /\ (row[c].success \/ outcome[c] = "flagged")
        \/ opt[c].key # NoKey /\ \E d \in PriorWith(opt[c].key) : d # c /\ d \notin before[c]
        \/ faults > 0

\* Every step keeps RecordedInv.
LEMMA RecordedNext == LedgerInv /\ KeyInv /\ RecordedInv /\ [Next]_vars => RecordedInv'
<1> SUFFICES ASSUME LedgerInv, KeyInv, RecordedInv, [Next]_vars PROVE RecordedInv'
  OBVIOUS
<1>a. faults' \in Nat
  <2>1. LedgerInv'
    BY LedgerNext
  <2> QED
    BY <2>1, GatewayAssumption DEF LedgerInv, TypeOK
<1> SUFFICES ASSUME faults' = 0, NEW c \in Calls, pc'[c] = "done", HasEffect(c)',
                    opt'[c].mode = "options"
             PROVE  \/ Present(c)' /\ (row'[c].success \/ outcome'[c] = "flagged")
                    \/ /\ opt'[c].key # NoKey
                       /\ \E d \in PriorWith(opt[c].key)' : d # c /\ d \notin before'[c]
  BY <1>a DEF RecordedInv
<1>0. faults = 0 /\ (pc[c] = "done" \/ Record(c))
  BY PathFrameNext, FaultsBefore DEF PathFrame
<1>1. pc[c] # "idle"
  BY <1>0 DEF Record
<1>2. opt'[c] = opt[c] /\ before'[c] = before[c]
  BY <1>1, PathFrameNext DEF PathFrame
<1>3. CASE pc[c] = "done"
  <2>1. outcome'[c] = outcome[c] /\ HasEffect(c)
    BY <1>3, PathFrameNext DEF PathFrame, HasEffect
  <2>2. Present(c) => Present(c)' /\ row'[c].success = row[c].success
    BY RowFrameNext DEF RowFrame
  <2> QED
    BY <1>0, <1>2, <1>3, <2>1, <2>2, KeysStay DEF RecordedInv
<1>4. CASE Record(c)
  <2>1. /\ opt[c] \in Options /\ outcome'[c] = outcome[c] /\ HasEffect(c) /\ pc[c] \in Recording
        /\ row' = IF opt[c].mode = "options" /\ InsertAllowed(c)
                  THEN [row EXCEPT ![c] = [success |-> pc[c] # "record_failed",
                                           dry_run |-> opt[c].dry_run, rolled_back |-> FALSE]]
                  ELSE row
    BY <1>4 DEF Record, Recording, HasEffect, LedgerInv, TypeOK
  <2>2. pc[c] = "record_failed" => outcome[c] = "flagged"
    BY <2>1 DEF HasEffect, LedgerInv, CallInv
  <2>3. CASE InsertAllowed(c)
    <3>1. /\ row'[c] \in Row
          /\ row'[c].success = (pc[c] # "record_failed")
      <4>1. opt[c].dry_run \in BOOLEAN
        BY <2>1 DEF Options
      <4> QED
        BY <1>2, <2>1, <2>3, <4>1 DEF Row, LedgerInv, TypeOK
    <3> QED
      BY <2>1, <2>2, <3>1, RowIsPresent DEF Present
  <2>4. CASE ~InsertAllowed(c)
    <3>1. opt[c].key # NoKey /\ \E d \in Calls : d \in PriorWith(opt[c].key)
      BY <2>4 DEF InsertAllowed, PriorWith
    <3>2. PICK d \in Calls : d \in PriorWith(opt[c].key)
      BY <3>1
    <3>3. d # c
      BY <2>1, <3>2 DEF PriorWith, Recording, LedgerInv, CallInv
    <3>4. d \notin before[c]
      BY <1>0, <2>1, <3>1, <3>2 DEF PriorWith, KeyInv, Past
    <3> QED
      BY <1>2, <3>1, <3>2, <3>3, <3>4, KeysStay
  <2> QED
    BY <2>3, <2>4
<1> QED
  BY <1>0, <1>3, <1>4

(* A side effect does not escape the durable ledger: what EffectIsRecorded *)
(* names are the only ways for one to have no row that a rollback undoes.  *)
THEOREM EffectsAreRecorded == Spec => []EffectIsRecorded
<1>1. Init => RecordedInv
  BY DEF Init, RecordedInv
<1>2. LedgerInv /\ KeyInv /\ RecordedInv /\ [Next]_vars => RecordedInv'
  BY RecordedNext
<1>3. RecordedInv => EffectIsRecorded
  BY DEF RecordedInv, EffectIsRecorded, PriorWith
<1> QED
  BY <1>1, <1>2, <1>3, LedgerAlways, KeyAlways, PTL DEF Spec

\* What a call's history names has returned and, until a crash, a call that has
\* returned is in the in-memory ledger.
MemoryInv ==
    /\ \A c \in Calls : earlier[c] # {} => pc[c] = "done" /\ \A d \in earlier[c] : pc[d] = "done"
    /\ crashes = 0 => \A c \in Calls : pc[c] = "done" =>
          /\ outcome[c] = "ok" => c \in completed
          /\ outcome[c] # "ok" /\ ~opt[c].dry_run => c \in failed

\* A call's history is written when it returns.
LEMMA EarlierFrame ==
    ASSUME LedgerInv, [Next]_vars, NEW c \in Calls
    PROVE  \/ earlier'[c] = earlier[c]
           \/ pc'[c] = "done" /\ earlier'[c] = {d \in Calls : pc[d] = "done"}
<1> USE DEF callVars
<1>1. ASSUME NEW d \in Calls, CallStep(d), ~Record(d), ~RecordFails(d) PROVE UNCHANGED earlier
  BY <1>1 DEF CallStep, Dispatch, Replay, FreshKey, LookupFails, Proceed, Handle
<1>2. ASSUME NEW d \in Calls, Return(d)
      PROVE  \/ earlier'[c] = earlier[c]
             \/ pc'[c] = "done" /\ earlier'[c] = {e \in Calls : pc[e] = "done"}
  BY <1>2 DEF Return, LedgerInv, TypeOK
<1>3. ASSUME NEW r \in Rollbacks, RollbackStep(r) PROVE UNCHANGED earlier
  BY <1>3 DEF RollbackStep, RollbackStart, Compensate, CompensateFails, MarkRolledBack,
              MarkFails, RollbackEnd
<1>4. Crash \/ UNCHANGED vars => UNCHANGED earlier
  BY DEF Crash, vars
<1> QED
  BY <1>1, <1>2, <1>3, <1>4 DEF Next, Record, RecordFails

\* Every step keeps MemoryInv.
LEMMA MemoryNext == LedgerInv /\ MemoryInv /\ [Next]_vars => MemoryInv'
<1> SUFFICES ASSUME LedgerInv, MemoryInv, [Next]_vars PROVE MemoryInv'
  OBVIOUS
<1>a. ASSUME NEW c \in Calls, earlier'[c] # {}
      PROVE  pc'[c] = "done" /\ \A d \in earlier'[c] : pc'[d] = "done"
  <2>1. \A d \in Calls : pc[d] = "done" => pc'[d] = "done"
    BY PathFrameNext DEF PathFrame
  <2>2. \/ earlier'[c] = earlier[c]
        \/ pc'[c] = "done" /\ earlier'[c] = {d \in Calls : pc[d] = "done"}
    BY EarlierFrame
  <2>3. earlier[c] \subseteq Calls
    BY DEF LedgerInv, TypeOK
  <2> QED
    BY <1>a, <2>1, <2>2, <2>3 DEF MemoryInv
<1> SUFFICES ASSUME crashes' = 0, NEW c \in Calls, pc'[c] = "done"
             PROVE  /\ outcome'[c] = "ok" => c \in completed'
                    /\ outcome'[c] # "ok" /\ ~opt'[c].dry_run => c \in failed'
  BY <1>a DEF MemoryInv
<1>0. crashes \in Nat
  BY GatewayAssumption DEF LedgerInv, TypeOK
<1>1. crashes = 0 /\ completed \subseteq completed' /\ failed \subseteq failed'
  <2>1. ASSUME NEW d \in Calls, CallStep(d)
        PROVE  crashes = 0 /\ completed \subseteq completed' /\ failed \subseteq failed'
    BY <2>1 DEF CallStep, Dispatch, Replay, FreshKey, LookupFails, Proceed, Handle, Record,
                RecordFails, Return, InMemory, ledgerVars, boundVars
  <2>2. ASSUME NEW r \in Rollbacks, RollbackStep(r)
        PROVE  crashes = 0 /\ completed \subseteq completed' /\ failed \subseteq failed'
    BY <2>2 DEF RollbackStep, RollbackStart, Compensate, CompensateFails, MarkRolledBack,
                MarkFails, RollbackEnd, ledgerVars, boundVars
  <2>3. ~Crash
    BY <1>0 DEF Crash
  <2>4. ASSUME UNCHANGED vars
        PROVE  crashes = 0 /\ completed \subseteq completed' /\ failed \subseteq failed'
    BY <2>4 DEF vars, ledgerVars, boundVars
  <2> QED
    BY <2>1, <2>2, <2>3, <2>4 DEF Next
<1>2. CASE pc[c] = "done"
  BY <1>1, <1>2, PathFrameNext DEF PathFrame, MemoryInv
<1>3. CASE Record(c) \/ RecordFails(c)
  BY <1>3 DEF Record, RecordFails, Return, InMemory, LedgerInv, CallInv
<1> QED
  BY <1>2, <1>3, PathFrameNext DEF PathFrame

(* Until the process restarts, an irreversible action that completed       *)
(* before another call failed raises the notification, for any number of   *)
(* overlapping calls and whatever the durable ledger does.                 *)
THEOREM IrreversiblesAreAnnounced == Spec => []IrreversibleIsAnnounced
<1>1. Init => MemoryInv
  BY DEF Init, MemoryInv
<1>2. LedgerInv /\ MemoryInv /\ [Next]_vars => MemoryInv'
  BY MemoryNext
<1>3. LedgerInv /\ MemoryInv => IrreversibleIsAnnounced
  BY DEF LedgerInv, TypeOK, MemoryInv, IrreversibleIsAnnounced, NeedsRollbackNotification
<1> QED
  BY <1>1, <1>2, <1>3, LedgerAlways, PTL DEF Spec
=============================================================================
