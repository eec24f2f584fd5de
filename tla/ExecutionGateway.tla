--------------------------- MODULE ExecutionGateway ---------------------------
(***************************************************************************)
(* The execution gateway: tool calls that go through                       *)
(* ToolDispatcher::dispatch and dispatch_with_options                      *)
(* (nodes/tool/dispatcher.rs), the durable ledger of the actions they took *)
(* (nodes/execution/transaction_store.rs), the in-memory ledger            *)
(* (nodes/execution/gateway.rs) and execution.rollback, which undoes a     *)
(* transaction by compensating calls (nodes/execution/rollback.rs).        *)
(*                                                                         *)
(* All calls name one tool and one transaction: the idempotency key is     *)
(* scoped by the tool and a rollback by the transaction, so calls with     *)
(* another tool or transaction never meet.  Handlers and compensating      *)
(* calls are awaited; every call on a store is a step of its own.          *)
(***************************************************************************)
EXTENDS Integers, FiniteSets

CONSTANTS
    Keys,               \* idempotency keys
    NoKey,              \* a call without one
    MaxCalls,           \* bound on dispatched tool calls
    MaxRollbacks,       \* bound on execution.rollback calls
    MaxFaults,          \* bound on failing store calls
    MaxCrashes          \* bound on crashes of the node

ASSUME GatewayAssumption ==
    /\ NoKey \notin Keys
    /\ {MaxCalls, MaxRollbacks, MaxFaults, MaxCrashes} \subseteq Nat

Calls == 1 .. MaxCalls
Rollbacks == 1 .. MaxRollbacks
NoCall == 0

(* GatewayDispatchOptions; mode "bare" is ToolDispatcher::dispatch, which  *)
(* has neither key nor dry run and leaves no durable row.  Tiers: A with a *)
(* compensating tool, B with or without a plan for a human, C blocked.     *)
Options ==
    [mode : {"options"}, key : Keys \cup {NoKey}, tier : {"auto", "plan", "noplan", "blocked"},
     dry_run : BOOLEAN]
    \cup [mode : {"bare"}, key : {NoKey}, tier : {"plan", "noplan"}, dry_run : {FALSE}]

VARIABLES
    pc,                 \* where each call is
    opt,                \* the options each call was dispatched with
    outcome,            \* history: what the handler of each call did
    started,            \* started_at_ms of each call, as an order
    clock,              \* the latest started_at_ms handed out
    row,                \* table gateway_actions, by the call that wrote it
    completed, failed,  \* the in-memory ActionGateway
    rpc,                \* where each rollback is
    todo,               \* actions a rollback has still to compensate
    current,            \* action whose compensation a rollback has to mark
    undone,             \* history: compensating calls that ran, by action
    scope,              \* history: actions each rollback set out to undo
    errors,             \* actions whose compensation failed, by rollback
    before,             \* history: calls that had returned when this one began
    earlier,            \* history: calls that had returned when this one did
    overlapped,         \* history: two rollbacks were under way at once
    faults, crashes     \* how much of the failure bounds is used

callVars == << pc, opt, outcome, started, clock, before, earlier >>
ledgerVars == << row, completed, failed >>
rollbackVars == << rpc, todo, current, undone, scope, errors, overlapped >>
boundVars == << faults, crashes >>
vars == << callVars, ledgerVars, rollbackVars, boundVars >>

Pc == {"idle", "lookup", "handler", "record_ok", "record_dry", "record_failed",
       "done", "replayed", "lost"}
RollbackPc == {"idle", "walk", "mark", "done", "lost"}
Outcome == {"none", "ok", "flagged", "error"}

Row == [success : BOOLEAN, dry_run : BOOLEAN, rolled_back : BOOLEAN]
NoRow == [success |-> FALSE, dry_run |-> FALSE, rolled_back |-> FALSE, absent |-> TRUE]
Present(c) == row[c] # NoRow

NoOptions == [mode |-> "bare", key |-> NoKey, tier |-> "plan", dry_run |-> FALSE]

\* The handler ran to its end, so the tool's side effect happened.
HasEffect(c) == outcome[c] \in {"ok", "flagged"}

Init ==
    /\ pc = [c \in Calls |-> "idle"]
    /\ opt = [c \in Calls |-> NoOptions]
    /\ outcome = [c \in Calls |-> "none"]
    /\ started = [c \in Calls |-> 0]
    /\ clock = 0
    /\ before = [c \in Calls |-> {}]
    /\ earlier = [c \in Calls |-> {}]
    /\ row = [c \in Calls |-> NoRow]
    /\ completed = {} /\ failed = {}
    /\ rpc = [r \in Rollbacks |-> "idle"]
    /\ todo = [r \in Rollbacks |-> {}]
    /\ current = [r \in Rollbacks |-> NoCall]
    /\ undone = [c \in Calls |-> 0]
    /\ scope = [r \in Rollbacks |-> {}]
    /\ errors = [r \in Rollbacks |-> {}]
    /\ overlapped = FALSE
    /\ faults = 0 /\ crashes = 0

Fault == faults < MaxFaults /\ faults' = faults + 1

-----------------------------------------------------------------------------
(* Dispatching a tool call.                                                *)

\* A call that the blocked list, Tier C or the access broker refuses returns
\* before it touches anything.
Admitted(o) == o.tier # "blocked"

Dispatch(c, o) ==
    /\ pc[c] = "idle" /\ \A d \in Calls : d < c => pc[d] # "idle"
    /\ Admitted(o)
    /\ opt' = [opt EXCEPT ![c] = o]
    /\ pc' = [pc EXCEPT ![c] = "lookup"]
    /\ before' = [before EXCEPT ![c] = {d \in Calls : pc[d] = "done"}]
    /\ UNCHANGED << outcome, started, clock, earlier, ledgerVars, rollbackVars, boundVars >>

\* TransactionStore::find_by_idempotency_key
PriorWith(k) == {d \in Calls : Present(d) /\ opt[d].key = k}

\* Mutant: only a successful row answers a retry.
SeenSuccessful(c) ==
    IF opt[c].key = NoKey THEN {} ELSE {d \in PriorWith(opt[c].key) : row[d].success}

Seen(c) == IF opt[c].key = NoKey THEN {} ELSE PriorWith(opt[c].key)

\* A prior row, successful or not, answers the call; the handler is not run.
Replay(c) ==
    /\ pc[c] = "lookup"
    /\ Seen(c) # {}
    /\ pc' = [pc EXCEPT ![c] = "replayed"]
    /\ UNCHANGED << opt, outcome, started, clock, before, earlier, ledgerVars, rollbackVars,
                    boundVars >>

\* Mutant: the start of the call is stamped with an earlier instant.
ProceedStampsEarly(c) ==
    /\ pc' = [pc EXCEPT ![c] = IF opt[c].dry_run THEN "record_dry" ELSE "handler"]
    /\ started' = [started EXCEPT ![c] = clock - 1]
    /\ UNCHANGED << clock, opt, outcome, before, earlier, ledgerVars, rollbackVars, crashes >>

(* Secrets are resolved (a missing one is recorded as a failure), then a   *)
(* dry run is previewed and any other call enters its handler, stamped     *)
(* with a wall clock that may not have moved since the last call.          *)
Proceed(c) ==
    /\ \/ /\ pc' = [pc EXCEPT ![c] = "record_failed"]
          /\ UNCHANGED << started, clock >>
       \/ /\ opt[c].dry_run
          /\ pc' = [pc EXCEPT ![c] = "record_dry"]
          /\ UNCHANGED << started, clock >>
       \/ /\ ~opt[c].dry_run
          /\ pc' = [pc EXCEPT ![c] = "handler"]
          /\ clock' \in {clock, clock + 1} \ {0}
          /\ started' = [started EXCEPT ![c] = clock']
    /\ UNCHANGED << opt, outcome, before, earlier, ledgerVars, rollbackVars, crashes >>

FreshKey(c) ==
    /\ pc[c] = "lookup"
    /\ Seen(c) = {}
    /\ UNCHANGED faults
    /\ Proceed(c)

\* `let Ok(Some(prior)) = ...`: a lookup that fails counts as a miss.
LookupFails(c) ==
    /\ pc[c] = "lookup"
    /\ opt[c].key # NoKey
    /\ Fault
    /\ Proceed(c)

(* The awaited handler returns: a clean reply, a reply the output guard    *)
(* rejects although the tool has run, or an error without a side effect.   *)
Handle(c) ==
    /\ pc[c] = "handler"
    /\ \/ /\ outcome' = [outcome EXCEPT ![c] = "ok"]
          /\ pc' = [pc EXCEPT ![c] = "record_ok"]
       \/ /\ \E o \in {"flagged", "error"} : outcome' = [outcome EXCEPT ![c] = o]
          /\ pc' = [pc EXCEPT ![c] = "record_failed"]
    /\ UNCHANGED << opt, started, clock, before, earlier, ledgerVars, rollbackVars,
                    boundVars >>

\* Mutant: the unique index also covers calls without a key.
InsertAllowedOnce(c) == PriorWith(opt[c].key) = {}

\* The unique index on (tool, idempotency_key).
InsertAllowed(c) == opt[c].key = NoKey \/ PriorWith(opt[c].key) = {}

\* ActionGateway::needs_rollback_notification over legacy_reversible.
NeedsRollbackNotification == failed # {} /\ \E c \in completed : opt[c].tier = "noplan"

\* Mutant: only calls with options reach the in-memory ledger.
InMemoryOptionsOnly(c) ==
    /\ completed' = IF pc[c] # "record_failed" /\ opt[c].mode = "options"
                    THEN completed \cup {c} ELSE completed
    /\ failed' = IF pc[c] = "record_failed" THEN failed \cup {c} ELSE failed

\* ActionGateway::record_completed and record_failed
InMemory(c) ==
    /\ completed' = IF pc[c] = "record_failed" THEN completed ELSE completed \cup {c}
    /\ failed' = IF pc[c] = "record_failed" THEN failed \cup {c} ELSE failed

Return(c) ==
    /\ pc' = [pc EXCEPT ![c] = "done"]
    /\ earlier' = [earlier EXCEPT ![c] = {d \in Calls : pc[d] = "done"}]

\* record_options_success and record_options_failure; `dispatch` records in
\* memory only.  A rejected INSERT is logged and the call returns as usual.
Record(c) ==
    /\ pc[c] \in {"record_ok", "record_dry", "record_failed"}
    /\ InMemory(c)
    /\ row' = IF opt[c].mode = "options" /\ InsertAllowed(c)
              THEN [row EXCEPT ![c] = [success |-> pc[c] # "record_failed",
                                       dry_run |-> opt[c].dry_run, rolled_back |-> FALSE]]
              ELSE row
    /\ Return(c)
    /\ UNCHANGED << opt, outcome, started, clock, before, rollbackVars, boundVars >>

RecordFails(c) ==
    /\ pc[c] \in {"record_ok", "record_dry", "record_failed"}
    /\ opt[c].mode = "options"
    /\ Fault
    /\ InMemory(c)
    /\ Return(c)
    /\ UNCHANGED << opt, outcome, started, clock, before, row, rollbackVars, crashes >>

-----------------------------------------------------------------------------
(* execution.rollback.                                                     *)

Active(r) == rpc[r] \in {"walk", "mark"}

\* Mutant: dry runs are not skipped.
UndoableDryRun(c) == Present(c) /\ ~row[c].rolled_back /\ row[c].success

\* Mutant: what is already rolled back is not skipped.
UndoableAgain(c) == Present(c) /\ row[c].success /\ ~row[c].dry_run

\* The rows of the snapshot that the walk does not skip.
Undoable(c) == /\ Present(c)
               /\ ~row[c].rolled_back
               /\ row[c].success /\ ~row[c].dry_run

\* list_for_transaction; Tier B actions are only listed for review.
RollbackStart(r) ==
    /\ rpc[r] = "idle" /\ \A q \in Rollbacks : q < r => rpc[q] # "idle"
    /\ rpc' = [rpc EXCEPT ![r] = "walk"]
    /\ todo' = [todo EXCEPT ![r] = {c \in Calls : Undoable(c) /\ opt[c].tier = "auto"}]
    /\ scope' = [scope EXCEPT ![r] = {c \in Calls : Undoable(c) /\ opt[c].tier = "auto"}]
    /\ overlapped' = (overlapped \/ \E q \in Rollbacks : Active(q))
    /\ UNCHANGED << callVars, ledgerVars, current, undone, errors, boundVars >>

\* ORDER BY started_at_ms and a random action_id, walked in reverse.
Newest(c, S) == c \in S /\ \A d \in S : started[d] <= started[c]

Compensate(r, c) ==
    /\ rpc[r] = "walk"
    /\ Newest(c, todo[r])
    /\ todo' = [todo EXCEPT ![r] = @ \ {c}]
    /\ undone' = [undone EXCEPT ![c] = @ + 1]
    /\ current' = [current EXCEPT ![r] = c]
    /\ rpc' = [rpc EXCEPT ![r] = "mark"]
    /\ UNCHANGED << callVars, ledgerVars, scope, errors, overlapped, boundVars >>

\* Mutant: an action whose compensation failed is marked all the same.
CompensateFailsMarks(r, c) ==
    /\ rpc[r] = "walk"
    /\ Newest(c, todo[r])
    /\ todo' = [todo EXCEPT ![r] = @ \ {c}]
    /\ errors' = [errors EXCEPT ![r] = @ \cup {c}]
    /\ current' = [current EXCEPT ![r] = c]
    /\ rpc' = [rpc EXCEPT ![r] = "mark"]
    /\ UNCHANGED << callVars, ledgerVars, undone, scope, overlapped, boundVars >>

\* Mutant: the first failure ends the walk.
CompensateFailsStops(r, c) ==
    /\ rpc[r] = "walk"
    /\ Newest(c, todo[r])
    /\ todo' = [todo EXCEPT ![r] = {}]
    /\ errors' = [errors EXCEPT ![r] = @ \cup {c}]
    /\ UNCHANGED << callVars, ledgerVars, rpc, current, undone, scope, overlapped, boundVars >>

\* The compensating call fails, or no dispatcher is configured.
CompensateFails(r, c) ==
    /\ rpc[r] = "walk"
    /\ Newest(c, todo[r])
    /\ todo' = [todo EXCEPT ![r] = @ \ {c}]
    /\ errors' = [errors EXCEPT ![r] = @ \cup {c}]
    /\ UNCHANGED << callVars, ledgerVars, rpc, current, undone, scope, overlapped, boundVars >>

MarkRolledBack(r) ==
    /\ rpc[r] = "mark"
    /\ row' = [row EXCEPT ![current[r]].rolled_back = TRUE]
    /\ rpc' = [rpc EXCEPT ![r] = "walk"]
    /\ UNCHANGED << callVars, completed, failed, todo, current, undone, scope, errors,
                    overlapped, boundVars >>

\* A failing mark is only logged.
MarkFails(r) ==
    /\ rpc[r] = "mark"
    /\ Fault
    /\ rpc' = [rpc EXCEPT ![r] = "walk"]
    /\ UNCHANGED << callVars, ledgerVars, todo, current, undone, scope, errors, overlapped,
                    crashes >>

RollbackEnd(r) ==
    /\ rpc[r] = "walk"
    /\ todo[r] = {}
    /\ rpc' = [rpc EXCEPT ![r] = "done"]
    /\ UNCHANGED << callVars, ledgerVars, todo, current, undone, scope, errors, overlapped,
                    boundVars >>

-----------------------------------------------------------------------------
\* The node dies: calls, rollbacks and the in-memory ledger are gone.
Crash ==
    /\ crashes < MaxCrashes
    /\ crashes' = crashes + 1
    /\ pc' = [c \in Calls |-> IF pc[c] \in {"idle", "done", "replayed"} THEN pc[c] ELSE "lost"]
    /\ rpc' = [r \in Rollbacks |-> IF Active(r) THEN "lost" ELSE rpc[r]]
    /\ completed' = {} /\ failed' = {}
    /\ UNCHANGED << opt, outcome, started, clock, before, earlier, row, todo, current, undone, scope,
                    errors, overlapped, faults >>

CallStep(c) ==
    \/ \E o \in Options : Dispatch(c, o)
    \/ Replay(c) \/ FreshKey(c) \/ LookupFails(c)
    \/ Handle(c) \/ Record(c) \/ RecordFails(c)

RollbackStep(r) ==
    \/ RollbackStart(r)
    \/ \E c \in Calls : Compensate(r, c) \/ CompensateFails(r, c)
    \/ MarkRolledBack(r) \/ MarkFails(r) \/ RollbackEnd(r)

Next ==
    \/ \E c \in Calls : CallStep(c)
    \/ \E r \in Rollbacks : RollbackStep(r)
    \/ Crash

Spec == Init /\ [][Next]_vars

-----------------------------------------------------------------------------
TypeOK ==
    /\ pc \in [Calls -> Pc]
    /\ opt \in [Calls -> Options]
    /\ outcome \in [Calls -> Outcome]
    /\ started \in [Calls -> Nat]
    /\ clock \in Nat
    /\ before \in [Calls -> SUBSET Calls] /\ earlier \in [Calls -> SUBSET Calls]
    /\ row \in [Calls -> Row \cup {NoRow}]
    /\ completed \in SUBSET Calls /\ failed \in SUBSET Calls
    /\ rpc \in [Rollbacks -> RollbackPc]
    /\ todo \in [Rollbacks -> SUBSET Calls]
    /\ current \in [Rollbacks -> Calls \cup {NoCall}]
    /\ undone \in [Calls -> Nat]
    /\ scope \in [Rollbacks -> SUBSET Calls]
    /\ errors \in [Rollbacks -> SUBSET Calls]
    /\ overlapped \in BOOLEAN
    /\ faults \in 0 .. MaxFaults /\ crashes \in 0 .. MaxCrashes

(* A compensating call is only ever made for an action whose tool ran: not *)
(* for a dry run, a failed call or a replayed one, whatever calls and      *)
(* other rollbacks do between the snapshot and the compensation.           *)
OnlyEffectsAreUndone ==
    \A c \in Calls : undone[c] > 0 => HasEffect(c) /\ ~opt[c].dry_run /\ opt[c].tier = "auto"

(* A row is stamped rolled_back only after its compensation succeeded, so  *)
(* that no later rollback skips an action nobody undid.                    *)
RolledBackIsUndone ==
    \A c \in Calls : Present(c) /\ row[c].rolled_back => undone[c] > 0

(* A side effect does not escape the ledger: once the call has returned    *)
(* there is a successful row to roll back, unless the output guard         *)
(* rejected the reply, the key was taken by a call that ran at the same    *)
(* time, or the store failed.                                              *)
EffectIsRecorded ==
    \A c \in Calls : pc[c] = "done" /\ HasEffect(c) /\ opt[c].mode = "options" =>
        \/ Present(c) /\ (row[c].success \/ outcome[c] = "flagged")
        \/ opt[c].key # NoKey /\ \E d \in Calls \ ({c} \cup before[c]) : opt[d].key = opt[c].key
        \/ faults > 0

(* gateway_tier.rs: a retry with the same key is answered without running  *)
(* the tool again.  It holds for a retry that is sent after the first call *)
(* has returned, also across a crash, as long as the store does not fail.  *)
RetryAfterReturnRunsOnce ==
    faults = 0 => \A c, d \in Calls :
        d \in before[c] /\ opt[d].key # NoKey /\ opt[d].key = opt[c].key =>
            ~(HasEffect(c) /\ HasEffect(d))

(* rollback.rs: "skip what we've already undone".  Rollbacks that run one  *)
(* after the other compensate an action once, unless a crash or a failing  *)
(* store separates the compensation from its mark.                         *)
UndoneOnceWhenAlone ==
    ~overlapped /\ faults = 0 /\ crashes = 0 => \A c \in Calls : undone[c] <= 1

(* A rollback that returns has accounted for every Tier A action of its    *)
(* snapshot: it was undone, or it is listed among the failures.            *)
RollbackCoversScope ==
    \A r \in Rollbacks : rpc[r] = "done" =>
        \A c \in scope[r] : undone[c] > 0 \/ c \in errors[r]

(* gateway.rs: "Loud rollback signal when irreversible actions completed   *)
(* pre-failure".  Until the process restarts, an irreversible action that  *)
(* completed before another call failed raises the notification, also when *)
(* the two overlap and whichever entry point each came by.                 *)
IrreversibleIsAnnounced ==
    crashes = 0 /\ (\E d \in Calls : \E c \in earlier[d] :
                      /\ outcome[c] = "ok" /\ opt[c].tier = "noplan"
                      /\ outcome[d] # "ok" /\ ~opt[d].dry_run)
    => NeedsRollbackNotification

(* gateway_tier.rs: "treats two calls with the same (tool,                 *)
(* idempotency_key) as one - the second call is skipped", so that at most  *)
(* one call with a key has a side effect.                                  *)
OneEffectPerKey ==
    \A c, d \in Calls : c # d /\ opt[c].key # NoKey /\ opt[c].key = opt[d].key =>
        ~(HasEffect(c) /\ HasEffect(d))
=============================================================================
