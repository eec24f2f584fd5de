------------------------------- MODULE Approvals -------------------------------
(***************************************************************************)
(* Human approvals: the delivery service with its escalation timers        *)
(* (approval/delivery.rs, approval/store.rs, approval/caps.rs), the plan   *)
(* approvals of the planning coordinator (planning/approval.rs,            *)
(* planning/coordinator.rs) and the mirrors that copy a decision from one  *)
(* store to the other (approval/mirror.rs).                                *)
(*                                                                         *)
(* The module follows one identifier, the approval_id that is also a       *)
(* plan_id: no statement touches the rows of two identifiers (the expiry   *)
(* sweep treats its rows one by one).  Every store call, every awaited     *)
(* send and every access to the map of cancel senders is one step.         *)
(***************************************************************************)
EXTENDS Integers, FiniteSets

CONSTANTS
    MaxDispatches,      \* bound on approval.deliver calls for the identifier
    MaxDecisions,       \* bound on decision calls
    OperatorVerdicts,   \* decisions approval.record_decision is given
    MaxFailures         \* bound on failing store calls and crashes together

ASSUME ApprovalsAssumption ==
    /\ {MaxDispatches, MaxDecisions, MaxFailures} \subseteq Nat
    /\ OperatorVerdicts \subseteq {"approved", "rejected", "expired"}

Dispatches == 1 .. MaxDispatches
Decisions == 1 .. MaxDecisions
NoTimer == 0

VARIABLES
    row,                \* the row of table approval_delivery
    dpc,                \* where each dispatch_request is
    escalates,          \* whether the rule it matched asks for escalation
    tpc,                \* where the escalation timer of each dispatch is
    slot,               \* escalation_cancels: the timer whose sender is kept
    signalled,          \* whether the timer's cancel_rx is ready
    plan,               \* status of the row of table plan_approvals
    kpc,                \* where each decision call is
    origin,             \* the capability it came through
    verdict,            \* its decision
    landed,             \* whether its own first write has happened
    quiet,              \* history: nothing else has touched either row
    executed,           \* history: runs of the plan's workflow
    faults, crashes     \* how much of the failure bounds is used

deliveryVars == << dpc, escalates >>
timerVars == << tpc, slot, signalled >>
decisionVars == << kpc, origin, verdict, landed >>
boundVars == << faults, crashes >>
vars == << row, deliveryVars, timerVars, plan, decisionVars, quiet, executed, boundVars >>

Verdict == {"approved", "rejected", "expired"}
PlanStatus == {"absent", "pending"} \cup Verdict
RowStatus == PlanStatus \cup {"delivery_failed"}

Row == [status : RowStatus, delivered : BOOLEAN, escalated : BOOLEAN]
NoRow == [status |-> "absent", delivered |-> FALSE, escalated |-> FALSE]

\* A decision call writes the delivery row ("write", then "cancel") and the
\* plan row ("decide") in turn, each write mirroring to the other store.
InDecision == {"write", "cancel", "decide", "return"}
Returned == {"done", "refused"}

DispatchPc == {"idle", "send", "mark_delivered", "mark_failed", "spawn", "ended", "lost"}
TimerPc == {"none", "armed", "send", "mark_escalated", "gave_up", "exit", "ended", "lost"}

Pending == row.status = "pending"
DecisionActive(k) == kpc[k] \in InDecision

Init ==
    /\ row = NoRow
    /\ dpc = [d \in Dispatches |-> "idle"]
    /\ escalates = [d \in Dispatches |-> FALSE]
    /\ tpc = [d \in Dispatches |-> "none"]
    /\ slot = NoTimer
    /\ signalled = [d \in Dispatches |-> FALSE]
    /\ plan = "absent"
    /\ kpc = [k \in Decisions |-> "idle"]
    /\ origin = [k \in Decisions |-> "record_decision"]
    /\ verdict = [k \in Decisions |-> "approved"]
    /\ landed = [k \in Decisions |-> FALSE]
    /\ quiet = [k \in Decisions |-> FALSE]
    /\ executed = 0
    /\ faults = 0 /\ crashes = 0

Fault == faults + crashes < MaxFailures /\ faults' = faults + 1

\* History: whatever a decision call was about is no longer undisturbed.
Disturb == quiet' = [k \in Decisions |-> FALSE]

-----------------------------------------------------------------------------
(* dispatch_request.  A request whose channel is disabled, or whose upsert *)
(* fails, returns before anything has changed.                             *)

\* store.upsert is INSERT OR REPLACE: a second request under the same
\* identifier starts again from a pending row.
Upsert(d, esc) ==
    /\ dpc[d] = "idle" /\ \A e \in Dispatches : e < d => dpc[e] # "idle"
    /\ row' = [status |-> "pending", delivered |-> FALSE, escalated |-> FALSE]
    /\ escalates' = [escalates EXCEPT ![d] = esc]
    /\ dpc' = [dpc EXCEPT ![d] = "send"]
    /\ Disturb
    /\ UNCHANGED << timerVars, plan, decisionVars, executed, boundVars >>

Send(d) ==
    /\ dpc[d] = "send"
    /\ \E l \in {"mark_delivered", "mark_failed"} : dpc' = [dpc EXCEPT ![d] = l]
    /\ UNCHANGED << row, escalates, timerVars, plan, decisionVars, quiet, executed, boundVars >>

\* ApprovalRequestStore::mark_delivered
DeliveredRow == IF Pending THEN [row EXCEPT !.delivered = TRUE] ELSE row

\* The timer is armed even if the operator has decided in the meantime.
MarkDelivered(d) ==
    /\ dpc[d] = "mark_delivered"
    /\ row' = DeliveredRow
    /\ dpc' = [dpc EXCEPT ![d] = IF escalates[d] THEN "spawn" ELSE "ended"]
    /\ UNCHANGED << escalates, timerVars, plan, decisionVars, quiet, executed, boundVars >>

\* `mark_delivered(..)?`: the request returns and no timer is armed.
MarkDeliveredFails(d) ==
    /\ dpc[d] = "mark_delivered"
    /\ Fault
    /\ dpc' = [dpc EXCEPT ![d] = "ended"]
    /\ UNCHANGED << row, escalates, timerVars, plan, decisionVars, quiet, executed, crashes >>

\* Mutant: a send that fails late overwrites the decision.
FailedRowAlways == [row EXCEPT !.status = "delivery_failed"]

\* ApprovalRequestStore::mark_delivery_failed
FailedRow == IF Pending THEN [row EXCEPT !.status = "delivery_failed"] ELSE row

MarkDeliveryFailed(d) ==
    /\ dpc[d] = "mark_failed"
    /\ row' = FailedRow
    /\ dpc' = [dpc EXCEPT ![d] = "ended"]
    /\ IF row' = row THEN UNCHANGED quiet ELSE Disturb
    /\ UNCHANGED << escalates, timerVars, plan, decisionVars, executed, boundVars >>

MarkDeliveryFailedFails(d) ==
    /\ dpc[d] = "mark_failed"
    /\ Fault
    /\ dpc' = [dpc EXCEPT ![d] = "ended"]
    /\ UNCHANGED << row, escalates, timerVars, plan, decisionVars, quiet, executed, crashes >>

-----------------------------------------------------------------------------
(* The escalation timer.                                                   *)

\* Dropping the sender that the map holds wakes the timer it belongs to.
DropSender == signalled' = IF slot = NoTimer THEN signalled
                           ELSE [signalled EXCEPT ![slot] = TRUE]

\* spawn_escalation_timer: map.insert drops the sender it replaces.
SpawnTimer(d) ==
    /\ dpc[d] = "spawn"
    /\ dpc' = [dpc EXCEPT ![d] = "ended"]
    /\ tpc' = [tpc EXCEPT ![d] = "armed"]
    /\ DropSender
    /\ slot' = d
    /\ UNCHANGED << row, escalates, plan, decisionVars, quiet, executed, boundVars >>

TimerGoto(d, l) ==
    /\ tpc' = [tpc EXCEPT ![d] = l]
    /\ UNCHANGED << deliveryVars, slot, signalled, plan, decisionVars, quiet, executed >>

\* Mutant: a request that was delivered is not escalated.
TimerFiresUndelivered(d) ==
    /\ tpc[d] = "armed"
    /\ TimerGoto(d, IF Pending /\ ~row.delivered THEN "send" ELSE "exit")
    /\ UNCHANGED << row, boundVars >>

\* The sleep is over: maybe_escalate reads the row.
TimerFires(d) ==
    /\ tpc[d] = "armed"
    /\ TimerGoto(d, IF Pending /\ ~row.escalated THEN "send" ELSE "exit")
    /\ UNCHANGED << row, boundVars >>

TimerCancelled(d) ==
    /\ tpc[d] = "armed"
    /\ signalled[d]
    /\ TimerGoto(d, "exit")
    /\ UNCHANGED << row, boundVars >>

\* The escalation is sent, or its channel is disabled or fails.
EscalationSend(d) ==
    /\ tpc[d] = "send"
    /\ \E l \in {"mark_escalated", "gave_up"} : TimerGoto(d, l)
    /\ UNCHANGED << row, boundVars >>

\* ApprovalRequestStore::mark_escalated
EscalatedRow == IF Pending THEN [row EXCEPT !.escalated = TRUE] ELSE row

MarkEscalated(d) ==
    /\ tpc[d] = "mark_escalated"
    /\ row' = EscalatedRow
    /\ TimerGoto(d, "exit")
    /\ UNCHANGED boundVars

\* A store error in maybe_escalate ends it.
EscalationFails(d) ==
    /\ tpc[d] \in {"armed", "mark_escalated"}
    /\ Fault
    /\ TimerGoto(d, "gave_up")
    /\ UNCHANGED << row, crashes >>

\* Mutant: the entry of a completed timer stays in the map.
TimerExitKeepsEntry(d) ==
    /\ tpc[d] \in {"exit", "gave_up"}
    /\ tpc' = [tpc EXCEPT ![d] = "ended"]
    /\ UNCHANGED << slot, signalled, row, deliveryVars, plan, decisionVars, quiet, executed,
                    boundVars >>

\* The timer's last act removes the entry of the identifier, whosever it is.
TimerExit(d) ==
    /\ tpc[d] \in {"exit", "gave_up"}
    /\ tpc' = [tpc EXCEPT ![d] = "ended"]
    /\ DropSender
    /\ slot' = NoTimer
    /\ UNCHANGED << row, deliveryVars, plan, decisionVars, quiet, executed, boundVars >>

-----------------------------------------------------------------------------
(* Decisions.  approval.record_decision starts at the delivery store,      *)
(* planning.approve_plan and planning.reject_plan at the plan store.       *)

NextDecision(k) == kpc[k] = "idle" /\ \A j \in Decisions : j < k => kpc[j] # "idle"

Begin(k, o, v, l) ==
    /\ NextDecision(k)
    /\ origin' = [origin EXCEPT ![k] = o]
    /\ verdict' = [verdict EXCEPT ![k] = v]
    /\ kpc' = [kpc EXCEPT ![k] = l]
    /\ quiet' = [j \in Decisions |-> j = k /\ Pending /\ plan = "pending"
                                     /\ ~\E i \in Decisions : DecisionActive(i)]
    /\ UNCHANGED << row, deliveryVars, timerVars, plan, landed, executed, boundVars >>

\* Mutant: the decision token is not validated.
BeginAnyDecision(k, v) == row.status # "absent" /\ Begin(k, "record_decision", "pending", "write")

\* Mutant: the timer is cancelled before the decision is written.
BeginCancelsFirst(k, v) == row.status # "absent" /\ Begin(k, "record_decision", v, "cancel")

\* handle_record_decision has read the row and admitted the caller.
BeginRecordDecision(k, v) == row.status # "absent" /\ Begin(k, "record_decision", v, "write")

\* handle_approve_plan has read the plan and verified its signature.
BeginApprove(k) == plan # "absent" /\ Begin(k, "approve_plan", "approved", "decide")

BeginReject(k) == plan # "absent" /\ Begin(k, "reject_plan", "rejected", "decide")

DecisionGoto(k, l) ==
    /\ kpc' = [kpc EXCEPT ![k] = l]
    /\ UNCHANGED << deliveryVars, tpc, origin, verdict, quiet, executed >>

\* Mutant: a first write that lost the race goes on like one that won it.
RefuseNothing(k) == DecisionGoto(k, "return") /\ UNCHANGED landed

\* A write that does not happen ends the chain.  The call's own first write
\* answers with the error; from then on the mirrors swallow it.
Refuse(k) ==
    /\ DecisionGoto(k, IF landed[k] THEN "return" ELSE "refused")
    /\ UNCHANGED landed

\* A write that happens goes on to l.
Land(k, l) ==
    /\ DecisionGoto(k, l)
    /\ landed' = [landed EXCEPT ![k] = TRUE]

\* ApprovalRequestStore::record_decision
WriteDelivery(k) ==
    /\ kpc[k] = "write"
    /\ IF Pending
       THEN row' = [row EXCEPT !.status = verdict[k]] /\ Land(k, "cancel")
       ELSE row' = row /\ Refuse(k)
    /\ UNCHANGED << slot, signalled, plan, boundVars >>

\* The decision removes the cancel sender, if there is one, and fires it;
\* then it is mirrored to the plan store.
CancelTimer(k) ==
    /\ kpc[k] = "cancel"
    /\ DropSender
    /\ slot' = NoTimer
    /\ DecisionGoto(k, "decide")
    /\ UNCHANGED << row, plan, landed, boundVars >>

\* Mutant: a decision on a plan is not mirrored.
DecidePlanUnmirrored(k) ==
    /\ kpc[k] = "decide"
    /\ IF plan = "pending"
       THEN plan' = verdict[k] /\ Land(k, "return")
       ELSE plan' = plan /\ Refuse(k)
    /\ UNCHANGED << row, slot, signalled, boundVars >>

\* planning::ApprovalStore::decide, in one immediate transaction; then the
\* decision is mirrored to the delivery store.
DecidePlan(k) ==
    /\ kpc[k] = "decide"
    /\ IF plan = "pending"
       THEN plan' = verdict[k] /\ Land(k, "write")
       ELSE plan' = plan /\ Refuse(k)
    /\ UNCHANGED << row, slot, signalled, boundVars >>

DecisionStoreFails(k) ==
    /\ kpc[k] \in {"write", "decide"}
    /\ Fault
    /\ Refuse(k)
    /\ UNCHANGED << row, plan, slot, signalled, crashes >>

\* approve_plan runs the workflow once the dispatcher is wired.
Return(k) ==
    /\ kpc[k] = "return"
    /\ kpc' = [kpc EXCEPT ![k] = "done"]
    /\ \E run \in IF origin[k] = "approve_plan" THEN {0, 1} ELSE {0} :
          executed' = executed + run
    /\ UNCHANGED << row, deliveryVars, timerVars, plan, origin, verdict, landed, quiet, boundVars >>

\* decide reads the row again for its answer; a failure there is the answer.
RereadFails(k) ==
    /\ kpc[k] = "return"
    /\ origin[k] # "record_decision"
    /\ Fault
    /\ DecisionGoto(k, "refused")
    /\ UNCHANGED << row, plan, slot, signalled, landed, crashes >>

-----------------------------------------------------------------------------
\* planning.create_plan with require_approval: insert_pending, once.
OpenPlan ==
    /\ plan = "absent"
    /\ plan' = "pending"
    /\ Disturb
    /\ UNCHANGED << row, deliveryVars, timerVars, decisionVars, executed, boundVars >>

\* The expiry sweep; it writes the plan store only.
ExpirePlan ==
    /\ plan = "pending"
    /\ plan' = "expired"
    /\ Disturb
    /\ UNCHANGED << row, deliveryVars, timerVars, decisionVars, executed, boundVars >>

\* The controller dies; the two stores survive, timers and calls do not.
Crash ==
    /\ faults + crashes < MaxFailures
    /\ crashes' = crashes + 1
    /\ dpc' = [d \in Dispatches |-> IF dpc[d] \in {"idle", "ended"} THEN dpc[d] ELSE "lost"]
    /\ tpc' = [d \in Dispatches |-> IF tpc[d] \in {"none", "ended"} THEN tpc[d] ELSE "lost"]
    /\ kpc' = [k \in Decisions |-> IF DecisionActive(k) THEN "lost" ELSE kpc[k]]
    /\ slot' = NoTimer
    /\ UNCHANGED << row, escalates, signalled, plan, origin, verdict, landed, quiet, executed,
                    faults >>

DispatchStep(d) ==
    \/ Send(d)
    \/ MarkDelivered(d) \/ MarkDeliveredFails(d)
    \/ MarkDeliveryFailed(d) \/ MarkDeliveryFailedFails(d)
    \/ SpawnTimer(d)

TimerStep(d) ==
    \/ TimerFires(d) \/ TimerCancelled(d)
    \/ EscalationSend(d) \/ MarkEscalated(d) \/ EscalationFails(d)
    \/ TimerExit(d)

DecisionStep(k) ==
    \/ WriteDelivery(k) \/ CancelTimer(k) \/ DecidePlan(k) \/ DecisionStoreFails(k)
    \/ Return(k) \/ RereadFails(k)

Next ==
    \/ \E d \in Dispatches : (\E esc \in BOOLEAN : Upsert(d, esc)) \/ DispatchStep(d) \/ TimerStep(d)
    \/ \E k \in Decisions :
          \/ \E v \in OperatorVerdicts : BeginRecordDecision(k, v)
          \/ BeginApprove(k) \/ BeginReject(k)
          \/ DecisionStep(k)
    \/ OpenPlan \/ ExpirePlan
    \/ Crash

(* tokio polls the tasks it has spawned: a sleep ends, and a timer that is *)
(* past it goes on.  Operators and requests are under no obligation.       *)
Fairness == \A d \in Dispatches : WF_vars(TimerStep(d)) /\ WF_vars(DispatchStep(d))

Spec == Init /\ [][Next]_vars /\ Fairness

-----------------------------------------------------------------------------
TypeOK ==
    /\ row \in Row
    /\ dpc \in [Dispatches -> DispatchPc]
    /\ escalates \in [Dispatches -> BOOLEAN]
    /\ tpc \in [Dispatches -> TimerPc]
    /\ slot \in Dispatches \cup {NoTimer}
    /\ signalled \in [Dispatches -> BOOLEAN]
    /\ plan \in PlanStatus
    /\ kpc \in [Decisions -> {"idle", "lost"} \cup InDecision \cup Returned]
    /\ origin \in [Decisions -> {"record_decision", "approve_plan", "reject_plan"}]
    /\ verdict \in [Decisions -> Verdict]
    /\ landed \in [Decisions -> BOOLEAN]
    /\ quiet \in [Decisions -> BOOLEAN]
    /\ executed \in Nat
    /\ faults \in Nat /\ crashes \in Nat /\ faults + crashes <= MaxFailures

(* store.rs: "prevents a decided row from being re-decided silently".  A   *)
(* decision stands as the operator gave it: a send that comes back late,   *)
(* an escalation under way, a mirrored decision or another operator leaves *)
(* the whole row alone; only a new request under the identifier resets it. *)
DecisionStands ==
    [][row.status \in Verdict /\ row' # row =>
          \E d \in Dispatches, esc \in BOOLEAN : Upsert(d, esc)]_vars

(* relix-core approval.rs: the stores "need to stay in lock-step".  A      *)
(* decision taken while both rows are pending has reached both of them by  *)
(* the time the call returns, unless another call, the expiry sweep, a new *)
(* request or a failing store interferes.                                  *)
DecisionIsMirrored ==
    \A k \in Decisions : kpc[k] = "done" /\ quiet[k] /\ faults = 0 =>
        row.status = verdict[k] /\ plan = verdict[k]

(* A plan's workflow runs only when the plan is approved, and only once,   *)
(* although two operators may approve it at once, or one reject it while   *)
(* another approves, on either side of the mirror.                         *)
PlanRunsOnce == executed <= 1 /\ (executed = 1 => plan = "approved")

Gate == INSTANCE PlanGate WITH status <- plan, runs <- executed

(* coordinator.rs and planning/approval.rs implement the gate: a plan is   *)
(* decided once and for good, and its workflow is started at most once,    *)
(* from a plan that is approved at that step, although approvals and       *)
(* rejections race on either side of the mirror and the expiry sweep runs. *)
PlanGateImplemented == Gate!Spec

(* delivery.rs: "so we don't leak entries for completed timers".  An entry *)
(* of escalation_cancels belongs to a timer that is still under way.       *)
NoLeakedSender ==
    slot # NoTimer => tpc[slot] \in {"armed", "send", "mark_escalated", "gave_up", "exit"}

(* Nobody silences the timer of a request that is still undecided: unless  *)
(* a second request was made, an armed timer is signalled only once the    *)
(* decision is in the store (record_decision writes first, cancels then).  *)
UndecidedTimerWaits ==
    \A d \in Dispatches :
        Pending /\ tpc[d] = "armed" /\ (\A e \in Dispatches \ {d} : dpc[e] = "idle")
        => ~signalled[d]

(* An undecided request whose rule asks for escalation is escalated, or    *)
(* the escalation was tried and failed, or the timer died with the         *)
(* controller, or a second request superseded it.                          *)
EscalationHappens ==
    \A d \in Dispatches :
        tpc[d] = "armed" ~> \/ row.escalated \/ ~Pending
                            \/ tpc[d] \in {"gave_up", "lost"}
                            \/ \E e \in Dispatches \ {d} : dpc[e] # "idle"

(* delivery.rs: "a re-dispatch supersedes any in-flight timer cleanly".    *)
(* What wakes a timer early is a decision or a later request's timer.      *)
RedispatchSupersedesCleanly ==
    [][\A d \in Dispatches : ~signalled[d] /\ signalled'[d] /\ tpc[d] = "armed" =>
          \/ slot' \notin {NoTimer, d}
          \/ \E k \in Decisions : CancelTimer(k)]_vars
=============================================================================
