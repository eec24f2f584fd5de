---------------------------- MODULE ApprovalsProofs ----------------------------
(***************************************************************************)
(* Proofs about Approvals: what the two stores, the timers and the mirrors *)
(* guarantee for any number of requests and decision calls and any pattern *)
(* of failing stores and crashes.                                          *)
(***************************************************************************)
EXTENDS Approvals, TLAPS

\* The row of a request is well-formed whichever column a store call writes.
LEMMA RowWrites ==
    ASSUME row \in Row, NEW s \in RowStatus
    PROVE  /\ [row EXCEPT !.status = s] \in Row
           /\ [row EXCEPT !.status = s].status = s
           /\ DeliveredRow \in Row /\ DeliveredRow.status = row.status
           /\ EscalatedRow \in Row /\ EscalatedRow.status = row.status
           /\ FailedRow \in Row /\ (FailedRow.status # row.status => Pending)
BY DEF Row, RowStatus, DeliveredRow, EscalatedRow, FailedRow, Pending

\* The empty tables and the idle calls are of their types.
LEMMA TypeOKInit == Init => TypeOK
BY ApprovalsAssumption
   DEF Init, TypeOK, NoRow, Row, RowStatus, PlanStatus, Verdict, DispatchPc, TimerPc, NoTimer

\* Every step keeps the types.
LEMMA TypeOKNext == TypeOK /\ [Next]_vars => TypeOK'
<1> SUFFICES ASSUME TypeOK, [Next]_vars PROVE TypeOK'
  OBVIOUS
<1> USE ApprovalsAssumption DEF deliveryVars, timerVars, decisionVars, boundVars
<1>0. {"pending", "delivery_failed"} \cup Verdict \subseteq RowStatus /\ Verdict \subseteq PlanStatus
  BY DEF RowStatus, PlanStatus
<1>1. ASSUME NEW d \in Dispatches, NEW esc \in BOOLEAN, Upsert(d, esc) PROVE TypeOK'
  BY <1>1 DEF TypeOK, Upsert, Disturb, Row, RowStatus, PlanStatus, DispatchPc
<1>2. ASSUME NEW d \in Dispatches, DispatchStep(d) PROVE TypeOK'
  <2>1. CASE Send(d)
    BY <2>1 DEF TypeOK, Send, DispatchPc
  <2>2. CASE MarkDelivered(d)
    BY <2>2, <1>0, RowWrites DEF TypeOK, MarkDelivered, DispatchPc
  <2>3. CASE MarkDeliveredFails(d) \/ MarkDeliveryFailedFails(d)
    BY <2>3 DEF TypeOK, MarkDeliveredFails, MarkDeliveryFailedFails, Fault, DispatchPc
  <2>4. CASE MarkDeliveryFailed(d)
    <3>1. row' \in Row
      BY <2>4, <1>0, RowWrites DEF TypeOK, MarkDeliveryFailed
    <3>2. quiet' \in [Decisions -> BOOLEAN]
      BY <2>4 DEF TypeOK, MarkDeliveryFailed, Disturb
    <3> QED
      BY <2>4, <3>1, <3>2 DEF TypeOK, MarkDeliveryFailed, DispatchPc
  <2>5. CASE SpawnTimer(d)
    BY <2>5 DEF TypeOK, SpawnTimer, DropSender, DispatchPc, TimerPc
  <2> QED
    BY <1>2, <2>1, <2>2, <2>3, <2>4, <2>5 DEF DispatchStep
<1>3. ASSUME NEW d \in Dispatches, TimerStep(d) PROVE TypeOK'
  <2>1. CASE TimerFires(d) \/ TimerCancelled(d) \/ EscalationSend(d)
    BY <2>1 DEF TypeOK, TimerFires, TimerCancelled, EscalationSend, TimerGoto, TimerPc
  <2>2. CASE MarkEscalated(d)
    BY <2>2, <1>0, RowWrites DEF TypeOK, MarkEscalated, TimerGoto, TimerPc
  <2>3. CASE EscalationFails(d)
    BY <2>3 DEF TypeOK, EscalationFails, Fault, TimerGoto, TimerPc
  <2>4. CASE TimerExit(d)
    BY <2>4 DEF TypeOK, TimerExit, DropSender, NoTimer, TimerPc
  <2> QED
    BY <1>3, <2>1, <2>2, <2>3, <2>4 DEF TimerStep
<1>4. ASSUME NEW k \in Decisions, NEW v \in OperatorVerdicts, BeginRecordDecision(k, v) PROVE TypeOK'
  <2>1. v \in Verdict
    BY DEF Verdict
  <2> QED
    BY <1>4, <2>1 DEF TypeOK, BeginRecordDecision, Begin, InDecision
<1>5. ASSUME NEW k \in Decisions, BeginApprove(k) \/ BeginReject(k) PROVE TypeOK'
  <2>1. PICK o \in {"approve_plan", "reject_plan"}, v \in Verdict : Begin(k, o, v, "decide")
    BY <1>5 DEF BeginApprove, BeginReject, Verdict
  <2> QED
    BY <2>1 DEF TypeOK, Begin, InDecision
<1>6. ASSUME NEW k \in Decisions, DecisionStep(k) PROVE TypeOK'
  <2>1. CASE WriteDelivery(k)
    BY <2>1, <1>0, RowWrites
       DEF TypeOK, WriteDelivery, DecisionGoto, Land, Refuse, InDecision, Returned
  <2>2. CASE CancelTimer(k)
    BY <2>2 DEF TypeOK, CancelTimer, DropSender, DecisionGoto, NoTimer, InDecision
  <2>3. CASE DecidePlan(k)
    BY <2>3, <1>0 DEF TypeOK, DecidePlan, DecisionGoto, Land, Refuse, InDecision, Returned
  <2>4. CASE DecisionStoreFails(k) \/ RereadFails(k)
    BY <2>4 DEF TypeOK, DecisionStoreFails, RereadFails, DecisionGoto, Refuse, Fault, InDecision, Returned
  <2>5. CASE Return(k)
    BY <2>5 DEF TypeOK, Return, Returned
  <2> QED
    BY <1>6, <2>1, <2>2, <2>3, <2>4, <2>5 DEF DecisionStep
<1>7. CASE OpenPlan \/ ExpirePlan
  BY <1>7 DEF TypeOK, OpenPlan, ExpirePlan, Disturb, PlanStatus, Verdict
<1>8. CASE Crash
  BY <1>8 DEF TypeOK, Crash, DispatchPc, TimerPc, NoTimer
<1>9. CASE UNCHANGED vars
  BY <1>9 DEF TypeOK, vars
<1> QED
  BY <1>1, <1>2, <1>3, <1>4, <1>5, <1>6, <1>7, <1>8, <1>9 DEF Next

(* Type correctness of the stores, the timers and the calls under way.     *)
THEOREM TypeCorrect == Spec => []TypeOK
<1>1. TypeOK /\ [Next]_vars => TypeOK'
  BY TypeOKNext
<1> QED
  BY <1>1, TypeOKInit, PTL DEF Spec

-----------------------------------------------------------------------------
(* The delivery row.                                                       *)

\* Only a new request changes a row that is not pending.
LEMMA DecidedRowFrame ==
    ASSUME [Next]_vars, ~Pending
    PROVE  row' = row \/ \E d \in Dispatches, esc \in BOOLEAN : Upsert(d, esc)
<1>1. ASSUME NEW d \in Dispatches, DispatchStep(d) PROVE row' = row
  BY <1>1 DEF DispatchStep, Send, MarkDelivered, MarkDeliveredFails, MarkDeliveryFailed,
              MarkDeliveryFailedFails, SpawnTimer, DeliveredRow, FailedRow
<1>2. ASSUME NEW d \in Dispatches, TimerStep(d) PROVE row' = row
  BY <1>2 DEF TimerStep, TimerFires, TimerCancelled, EscalationSend, MarkEscalated,
              EscalationFails, TimerExit, EscalatedRow
<1>3. ASSUME NEW k \in Decisions, DecisionStep(k) PROVE row' = row
  BY <1>3 DEF DecisionStep, WriteDelivery, CancelTimer, DecidePlan, DecisionStoreFails, Return,
              RereadFails
<1>4. ASSUME NEW k \in Decisions, NEW v, BeginRecordDecision(k, v) PROVE row' = row
  BY <1>4 DEF BeginRecordDecision, Begin
<1>5. ASSUME NEW k \in Decisions, BeginApprove(k) \/ BeginReject(k) PROVE row' = row
  BY <1>5 DEF BeginApprove, BeginReject, Begin
<1>6. CASE OpenPlan \/ ExpirePlan \/ Crash \/ UNCHANGED vars
  BY <1>6 DEF OpenPlan, ExpirePlan, Crash, vars
<1> QED
  BY <1>1, <1>2, <1>3, <1>4, <1>5, <1>6 DEF Next

(* A decision in the delivery store stands as it was given until a new     *)
(* request is made, whatever sends, escalations, mirrors and operators are *)
(* still under way.                                                        *)
THEOREM DecisionsStand == Spec => DecisionStands
<1>1. [Next]_vars => [row.status \in Verdict /\ row' # row =>
                         \E d \in Dispatches, esc \in BOOLEAN : Upsert(d, esc)]_vars
  BY DecidedRowFrame DEF Pending, Verdict
<1> QED
  BY <1>1, PTL DEF Spec, DecisionStands

-----------------------------------------------------------------------------
(* The escalation timers.                                                  *)

TimerUnderWay == {"armed", "send", "mark_escalated", "gave_up", "exit"}

\* What a step does to the timers and their cancel senders.
LEMMA SlotFrame ==
    ASSUME TypeOK, [Next]_vars
    PROVE  \/ slot' = NoTimer
           \/ \E d \in Dispatches : SpawnTimer(d)
           \/ slot' = slot /\ \A d \in Dispatches : tpc[d] \in TimerUnderWay =>
                 tpc'[d] \in TimerUnderWay
<1> USE DEF timerVars, TimerUnderWay
<1>1. ASSUME NEW d \in Dispatches, DispatchStep(d), ~SpawnTimer(d) PROVE UNCHANGED << slot, tpc >>
  BY <1>1 DEF DispatchStep, Send, MarkDelivered, MarkDeliveredFails, MarkDeliveryFailed,
              MarkDeliveryFailedFails
<1>2. ASSUME NEW d \in Dispatches, TimerStep(d), slot' # NoTimer
      PROVE  slot' = slot /\ \E l \in TimerUnderWay : tpc' = [tpc EXCEPT ![d] = l]
  BY <1>2 DEF TimerStep, TimerFires, TimerCancelled, EscalationSend, MarkEscalated,
              EscalationFails, TimerExit, TimerGoto
<1>3. ASSUME NEW k \in Decisions, DecisionStep(k), slot' # NoTimer PROVE UNCHANGED << slot, tpc >>
  BY <1>3 DEF DecisionStep, WriteDelivery, CancelTimer, DecidePlan, DecisionStoreFails, Return,
              RereadFails, Refuse, Land, DecisionGoto
<1>4. ASSUME NEW k \in Decisions, NEW v, BeginRecordDecision(k, v) PROVE UNCHANGED << slot, tpc >>
  BY <1>4 DEF BeginRecordDecision, Begin
<1>5. ASSUME NEW k \in Decisions, BeginApprove(k) \/ BeginReject(k) PROVE UNCHANGED << slot, tpc >>
  BY <1>5 DEF BeginApprove, BeginReject, Begin
<1>6. CASE OpenPlan \/ ExpirePlan \/ UNCHANGED vars
  BY <1>6 DEF OpenPlan, ExpirePlan, vars
<1>7. CASE Crash
  BY <1>7 DEF Crash
<1>8. ASSUME NEW d \in Dispatches, NEW esc, Upsert(d, esc) PROVE UNCHANGED << slot, tpc >>
  BY <1>8 DEF Upsert
<1> QED
  BY <1>1, <1>2, <1>3, <1>4, <1>5, <1>6, <1>7, <1>8 DEF Next, TypeOK

\* An entry of escalation_cancels belongs to a timer under way after every step.
LEMMA NoLeakNext == TypeOK /\ NoLeakedSender /\ [Next]_vars => NoLeakedSender'
<1> SUFFICES ASSUME TypeOK, NoLeakedSender, [Next]_vars, slot' # NoTimer
             PROVE  tpc'[slot'] \in TimerUnderWay
  BY DEF NoLeakedSender, TimerUnderWay
<1>1. ASSUME NEW d \in Dispatches, SpawnTimer(d) PROVE tpc'[slot'] \in TimerUnderWay
  BY <1>1 DEF SpawnTimer, TypeOK, TimerUnderWay
<1> QED
  BY <1>1, SlotFrame DEF NoLeakedSender, TimerUnderWay, TypeOK

(* The map of cancel senders holds no entry for a timer that has completed *)
(* or has died with the controller.                                        *)
THEOREM NoSenderLeaks == Spec => []NoLeakedSender
<1>1. Init => NoLeakedSender
  BY DEF Init, NoLeakedSender
<1>2. TypeOK /\ NoLeakedSender /\ [Next]_vars => NoLeakedSender'
  BY NoLeakNext
<1> QED
  BY <1>1, <1>2, TypeCorrect, PTL DEF Spec

-----------------------------------------------------------------------------
(* Who may wake a timer early.  UndecidedTimerWaits is not inductive: that *)
(* the decision comes before its cancel signal, and a request before its   *)
(* timer, has to be part of the invariant.                                 *)

Requested(d) == dpc[d] # "idle"

TimerOrder ==
    /\ \A d \in Dispatches : dpc[d] \notin {"ended", "lost"} =>
          tpc[d] = "none" /\ ~signalled[d]
    /\ row.status # "absent" => \E e \in Dispatches : Requested(e)
    /\ \A k \in Decisions : kpc[k] = "cancel" =>
          /\ row.status # "absent"
          /\ Pending => \E d, e \in Dispatches : d # e /\ Requested(d) /\ Requested(e)
    /\ \A d \in Dispatches : signalled[d] /\ Pending /\ tpc[d] = "armed" =>
          \E e \in Dispatches \ {d} : Requested(e)

\* At the start there is neither a request nor a timer.
LEMMA TimerOrderInit == Init => TimerOrder
BY DEF Init, TimerOrder, NoRow, Pending

\* A request once made is never unmade.
LEMMA RequestedStays ==
    ASSUME TypeOK, [Next]_vars, NEW d \in Dispatches, Requested(d)
    PROVE  Requested(d)'
<1> USE DEF deliveryVars, Requested
<1>1. ASSUME NEW e \in Dispatches, DispatchStep(e) PROVE dpc'[d] # "idle"
  BY <1>1 DEF DispatchStep, Send, MarkDelivered, MarkDeliveredFails, MarkDeliveryFailed,
              MarkDeliveryFailedFails, SpawnTimer, TypeOK
<1>2. ASSUME NEW e \in Dispatches, TimerStep(e) PROVE UNCHANGED dpc
  BY <1>2 DEF TimerStep, TimerFires, TimerCancelled, EscalationSend, MarkEscalated,
              EscalationFails, TimerExit, TimerGoto
<1>3. ASSUME NEW k \in Decisions, DecisionStep(k) PROVE UNCHANGED dpc
  BY <1>3 DEF DecisionStep, WriteDelivery, CancelTimer, DecidePlan, DecisionStoreFails, Return,
              RereadFails, Refuse, Land, DecisionGoto
<1>4. ASSUME NEW k \in Decisions, NEW v, BeginRecordDecision(k, v) PROVE UNCHANGED dpc
  BY <1>4 DEF BeginRecordDecision, Begin
<1>5. ASSUME NEW k \in Decisions, BeginApprove(k) \/ BeginReject(k) PROVE UNCHANGED dpc
  BY <1>5 DEF BeginApprove, BeginReject, Begin
<1>6. CASE OpenPlan \/ ExpirePlan \/ UNCHANGED vars
  BY <1>6 DEF OpenPlan, ExpirePlan, vars
<1>7. CASE Crash
  BY <1>7 DEF Crash
<1>8. ASSUME NEW e \in Dispatches, NEW esc, Upsert(e, esc) PROVE dpc'[d] # "idle"
  BY <1>8 DEF Upsert, TypeOK
<1> QED
  BY <1>1, <1>2, <1>3, <1>4, <1>5, <1>6, <1>7, <1>8 DEF Next

\* Every step keeps the order of request, timer, decision and signal.
LEMMA TimerOrderNext == TypeOK /\ NoLeakedSender /\ TimerOrder /\ [Next]_vars => TimerOrder'
<1> SUFFICES ASSUME TypeOK, NoLeakedSender, TimerOrder, [Next]_vars PROVE TimerOrder'
  OBVIOUS
<1> USE DEF deliveryVars, timerVars, decisionVars, boundVars
<1>0. \A d \in Dispatches : Requested(d) => Requested(d)'
  BY RequestedStays
<1>1. ASSUME NEW d \in Dispatches, NEW esc \in BOOLEAN, Upsert(d, esc) PROVE TimerOrder'
  BY <1>0, <1>1 DEF Upsert, TimerOrder, TypeOK, Pending, Requested
<1>2. ASSUME NEW d \in Dispatches, DispatchStep(d) PROVE TimerOrder'
  <2>1. CASE SpawnTimer(d)
    BY <1>0, <2>1 DEF SpawnTimer, DropSender, TimerOrder, NoLeakedSender, TypeOK, Pending, Requested
  <2>2. ASSUME ~SpawnTimer(d)
        PROVE  /\ \E l \in DispatchPc : dpc' = [dpc EXCEPT ![d] = l]
               /\ dpc[d] \notin {"ended", "lost", "idle"}
               /\ UNCHANGED << kpc, signalled, tpc >>
               /\ Pending' => Pending
               /\ row'.status = "absent" <=> row.status = "absent"
    BY <1>2, <2>2, RowWrites
       DEF DispatchStep, Send, MarkDelivered, MarkDeliveredFails, MarkDeliveryFailed,
           MarkDeliveryFailedFails, DeliveredRow, FailedRow, DispatchPc, Pending, TypeOK, Row, RowStatus, PlanStatus
  <2>3. ASSUME ~SpawnTimer(d) PROVE TimerOrder'
    BY <1>0, <2>2, <2>3 DEF TimerOrder, TypeOK, Requested
  <2> QED
    BY <2>1, <2>3
<1>3. ASSUME NEW d \in Dispatches, TimerStep(d) PROVE TimerOrder'
  <2>1. CASE TimerExit(d)
    BY <1>0, <2>1 DEF TimerExit, DropSender, TimerOrder, NoLeakedSender, TypeOK, Pending, Requested
  <2>2. ASSUME ~TimerExit(d)
        PROVE  /\ \E l \in TimerPc \ {"armed"} : tpc' = [tpc EXCEPT ![d] = l]
               /\ tpc[d] # "none"
               /\ UNCHANGED << dpc, kpc, signalled >>
               /\ row'.status = row.status
    BY <1>3, <2>2, RowWrites
       DEF TimerStep, TimerFires, TimerCancelled, EscalationSend, MarkEscalated, EscalationFails,
           TimerGoto, TimerPc, EscalatedRow, TypeOK, Row
  <2>3. ASSUME ~TimerExit(d) PROVE TimerOrder'
    BY <1>0, <2>2, <2>3 DEF TimerOrder, TypeOK, Requested, Pending
  <2> QED
    BY <2>1, <2>3
<1>4. ASSUME NEW k \in Decisions, NEW v, BeginRecordDecision(k, v) PROVE TimerOrder'
  BY <1>4 DEF BeginRecordDecision, Begin, TimerOrder, TypeOK, Pending, Requested
<1>5. ASSUME NEW k \in Decisions, BeginApprove(k) \/ BeginReject(k) PROVE TimerOrder'
  <2>1. PICK o, v : Begin(k, o, v, "decide")
    BY <1>5 DEF BeginApprove, BeginReject
  <2> QED
    BY <2>1 DEF Begin, TimerOrder, TypeOK, Pending, Requested
<1>6. ASSUME NEW k \in Decisions, DecisionStep(k) PROVE TimerOrder'
  <2>1. CASE WriteDelivery(k)
    <3>1. CASE Pending
      <4>1. row'.status # "absent" /\ ~Pending'
        BY <2>1, <3>1 DEF WriteDelivery, Pending, TypeOK, Row, Verdict
      <4> QED
        BY <2>1, <3>1, <4>1
           DEF WriteDelivery, Land, DecisionGoto, TimerOrder, TypeOK, Pending, Requested
    <3>2. CASE ~Pending
      BY <2>1, <3>2 DEF WriteDelivery, Refuse, DecisionGoto, TimerOrder, TypeOK, Pending, Requested
    <3> QED
      BY <3>1, <3>2
  <2>2. CASE CancelTimer(k)
    BY <2>2 DEF CancelTimer, DropSender, DecisionGoto, TimerOrder, NoLeakedSender, TypeOK, Pending, Requested
  <2>3. CASE DecidePlan(k)
    BY <2>3 DEF DecidePlan, Land, Refuse, DecisionGoto, TimerOrder, TypeOK, Pending, Requested
  <2>4. CASE DecisionStoreFails(k) \/ RereadFails(k) \/ Return(k)
    BY <2>4 DEF DecisionStoreFails, RereadFails, Return, Refuse, DecisionGoto, TimerOrder, TypeOK, Pending, Requested
  <2> QED
    BY <1>6, <2>1, <2>2, <2>3, <2>4 DEF DecisionStep
<1>7. CASE OpenPlan \/ ExpirePlan \/ UNCHANGED vars
  BY <1>7 DEF OpenPlan, ExpirePlan, vars, TimerOrder, Pending, Requested
<1>8. CASE Crash
  BY <1>0, <1>8 DEF Crash, TimerOrder, TypeOK, Pending, Requested, DecisionActive, InDecision
<1> QED
  BY <1>1, <1>2, <1>3, <1>4, <1>5, <1>6, <1>7, <1>8 DEF Next

(* Unless a second request was made, nothing wakes the timer of a request  *)
(* that is still undecided.                                                *)
THEOREM UndecidedTimersWait == Spec => []UndecidedTimerWaits
<1>1. TypeOK /\ NoLeakedSender /\ TimerOrder /\ [Next]_vars => TimerOrder'
  BY TimerOrderNext
<1>2. TimerOrder => UndecidedTimerWaits
  BY DEF TimerOrder, UndecidedTimerWaits, Requested
<1> QED
  BY <1>1, <1>2, TimerOrderInit, TypeCorrect, NoSenderLeaks, PTL DEF Spec

-----------------------------------------------------------------------------
(* Running a plan.  The call that will run the workflow is the one whose   *)
(* own decide flipped the plan; there is never a second one, since a plan  *)
(* leaves pending once.                                                    *)

\* An approve_plan call that has flipped the plan and has not answered yet.
Runner(k) == DecisionActive(k) /\ origin[k] = "approve_plan" /\ landed[k]

RunInv ==
    /\ \A k \in Decisions :
          /\ kpc[k] = "idle" => ~landed[k]
          /\ kpc[k] = "return" => landed[k]
          /\ DecisionActive(k) /\ origin[k] = "approve_plan" =>
                verdict[k] = "approved" /\ (landed[k] \/ kpc[k] = "decide")
          /\ Runner(k) => plan = "approved" /\ executed = 0
    /\ \A j, k \in Decisions : Runner(j) /\ Runner(k) => j = k
    /\ PlanRunsOnce

\* No call is under way at the start.
LEMMA RunInit == Init => RunInv
BY DEF Init, RunInv, Runner, DecisionActive, InDecision, PlanRunsOnce

\* What the steps outside the decision calls leave alone.
LEMMA RunFrame ==
    ASSUME RunInv, UNCHANGED << kpc, origin, verdict, landed, executed >>,
           plan' = plan \/ plan \in {"absent", "pending"}
    PROVE  RunInv'
BY DEF RunInv, Runner, DecisionActive, PlanRunsOnce

\* Every step keeps at most one call that will run the workflow.
LEMMA RunNext == TypeOK /\ RunInv /\ [Next]_vars => RunInv'
<1> SUFFICES ASSUME TypeOK, RunInv, [Next]_vars PROVE RunInv'
  OBVIOUS
<1> USE DEF deliveryVars, timerVars, decisionVars, boundVars
<1>1. ASSUME NEW d \in Dispatches, NEW esc \in BOOLEAN, Upsert(d, esc) PROVE RunInv'
  BY <1>1, RunFrame DEF Upsert
<1>2. ASSUME NEW d \in Dispatches, DispatchStep(d) PROVE RunInv'
  BY <1>2, RunFrame DEF DispatchStep, Send, MarkDelivered, MarkDeliveredFails, MarkDeliveryFailed,
                        MarkDeliveryFailedFails, SpawnTimer
<1>3. ASSUME NEW d \in Dispatches, TimerStep(d) PROVE RunInv'
  BY <1>3, RunFrame DEF TimerStep, TimerFires, TimerCancelled, EscalationSend, MarkEscalated,
                        EscalationFails, TimerExit, TimerGoto
<1>4. ASSUME NEW k \in Decisions, NEW o, NEW v, NEW l \in {"write", "decide"}, Begin(k, o, v, l),
             o = "approve_plan" => v = "approved" /\ l = "decide"
      PROVE  RunInv'
  BY <1>4 DEF Begin, NextDecision, RunInv, Runner, DecisionActive, InDecision, PlanRunsOnce, TypeOK
<1>5. ASSUME NEW k \in Decisions, NEW v, BeginRecordDecision(k, v) PROVE RunInv'
  BY <1>4, <1>5 DEF BeginRecordDecision
<1>6. ASSUME NEW k \in Decisions, BeginApprove(k) \/ BeginReject(k) PROVE RunInv'
  BY <1>4, <1>6 DEF BeginApprove, BeginReject
<1>7. ASSUME NEW k \in Decisions, DecisionStep(k) PROVE RunInv'
  <2> USE DEF RunInv, Runner, DecisionActive, InDecision, PlanRunsOnce, TypeOK
  <2>1. CASE WriteDelivery(k)
    BY <2>1 DEF WriteDelivery, Land, Refuse, DecisionGoto
  <2>2. CASE CancelTimer(k)
    BY <2>2 DEF CancelTimer, DecisionGoto
  <2>3. CASE DecidePlan(k)
    <3>1. CASE plan = "pending"
      BY <2>3, <3>1 DEF DecidePlan, Land, DecisionGoto
    <3>2. CASE plan # "pending"
      BY <2>3, <3>2 DEF DecidePlan, Refuse, DecisionGoto
    <3> QED
      BY <3>1, <3>2
  <2>4. CASE DecisionStoreFails(k) \/ RereadFails(k)
    BY <2>4 DEF DecisionStoreFails, RereadFails, Refuse, DecisionGoto
  <2>5. CASE Return(k)
    BY <2>5 DEF Return
  <2> QED
    BY <1>7, <2>1, <2>2, <2>3, <2>4, <2>5 DEF DecisionStep
<1>8. CASE OpenPlan \/ ExpirePlan \/ UNCHANGED vars
  BY <1>8, RunFrame DEF OpenPlan, ExpirePlan, vars
<1>9. CASE Crash
  BY <1>9 DEF Crash, RunInv, Runner, DecisionActive, InDecision, PlanRunsOnce, TypeOK
<1> QED
  BY <1>1, <1>2, <1>3, <1>5, <1>6, <1>7, <1>8, <1>9 DEF Next

(* A plan's workflow runs at most once, and only when the plan is          *)
(* approved, however many operators decide it at once on either side.      *)
THEOREM PlansRunOnce == Spec => []PlanRunsOnce
<1>1. TypeOK /\ RunInv /\ [Next]_vars => RunInv'
  BY RunNext
<1>2. RunInv => PlanRunsOnce
  BY DEF RunInv
<1> QED
  BY <1>1, <1>2, RunInit, TypeCorrect, PTL DEF Spec

\* A step of the approvals is a step of the gate, or leaves it alone.
LEMMA StepGates == TypeOK /\ RunInv /\ [Next]_vars => [Gate!Next]_<< plan, executed >>
<1> SUFFICES ASSUME TypeOK, RunInv, [Next]_vars PROVE Gate!Next \/ UNCHANGED << plan, executed >>
  OBVIOUS
<1> USE DEF deliveryVars, timerVars, decisionVars, boundVars
<1>1. ASSUME NEW d \in Dispatches, NEW esc \in BOOLEAN, Upsert(d, esc)
      PROVE  UNCHANGED << plan, executed >>
  BY <1>1 DEF Upsert
<1>2. ASSUME NEW d \in Dispatches, DispatchStep(d) PROVE UNCHANGED << plan, executed >>
  BY <1>2 DEF DispatchStep, Send, MarkDelivered, MarkDeliveredFails, MarkDeliveryFailed,
              MarkDeliveryFailedFails, SpawnTimer
<1>3. ASSUME NEW d \in Dispatches, TimerStep(d) PROVE UNCHANGED << plan, executed >>
  BY <1>3 DEF TimerStep, TimerFires, TimerCancelled, EscalationSend, MarkEscalated,
              EscalationFails, TimerExit, TimerGoto
<1>4. ASSUME NEW k \in Decisions, NEW v, BeginRecordDecision(k, v)
      PROVE  UNCHANGED << plan, executed >>
  BY <1>4 DEF BeginRecordDecision, Begin
<1>5. ASSUME NEW k \in Decisions, BeginApprove(k) \/ BeginReject(k)
      PROVE  UNCHANGED << plan, executed >>
  BY <1>5 DEF BeginApprove, BeginReject, Begin
<1>6. ASSUME NEW k \in Decisions, DecisionStep(k)
      PROVE  Gate!Next \/ UNCHANGED << plan, executed >>
  <2>1. CASE WriteDelivery(k) \/ CancelTimer(k) \/ DecisionStoreFails(k) \/ RereadFails(k)
    BY <2>1 DEF WriteDelivery, CancelTimer, DecisionStoreFails, RereadFails, Land, Refuse,
                DecisionGoto
  <2>2. CASE DecidePlan(k)
    <3>1. CASE plan = "pending"
      <4>1. verdict[k] \in {"approved", "rejected", "expired"}
        BY DEF TypeOK, Verdict
      <4>2. plan' = verdict[k] /\ executed' = executed
        BY <2>2, <3>1 DEF DecidePlan, Land, DecisionGoto
      <4> QED
        BY <3>1, <4>1, <4>2 DEF Gate!Next, Gate!Decide
    <3>2. CASE plan # "pending"
      BY <2>2, <3>2 DEF DecidePlan, Refuse, DecisionGoto
    <3> QED
      BY <3>1, <3>2
  <2>3. CASE Return(k)
    <3>1. CASE executed' = executed
      BY <2>3, <3>1 DEF Return
    <3>2. CASE executed' # executed
      <4>1. origin[k] = "approve_plan" /\ executed' = executed + 1
        BY <2>3, <3>2 DEF Return, TypeOK
      <4>2. Runner(k)
        BY <2>3, <4>1 DEF Return, RunInv, Runner, DecisionActive, InDecision
      <4>3. plan = "approved" /\ executed = 0
        BY <4>2 DEF RunInv
      <4> QED
        BY <2>3, <4>1, <4>3 DEF Return, Gate!Next, Gate!Run
    <3> QED
      BY <3>1, <3>2
  <2> QED
    BY <1>6, <2>1, <2>2, <2>3 DEF DecisionStep
<1>7. CASE OpenPlan
  BY <1>7 DEF OpenPlan, Gate!Next, Gate!Open
<1>8. CASE ExpirePlan
  BY <1>8 DEF ExpirePlan, Gate!Next, Gate!Decide
<1>9. CASE Crash \/ UNCHANGED vars
  BY <1>9 DEF Crash, vars
<1> QED
  BY <1>1, <1>2, <1>3, <1>4, <1>5, <1>6, <1>7, <1>8, <1>9 DEF Next

(* The two stores, their mirrors and the planning coordinator implement    *)
(* the gate: a plan is decided once and for good, and its workflow is      *)
(* started at most once, from a plan approved at that very step.           *)
THEOREM PlanGateRefined == Spec => PlanGateImplemented
<1>1. Init => Gate!Init
  BY DEF Init, Gate!Init
<1>2. TypeOK /\ RunInv /\ [Next]_vars => RunInv'
  BY RunNext
<1>3. TypeOK /\ RunInv /\ [Next]_vars => [Gate!Next]_<< plan, executed >>
  BY StepGates
<1> QED
  BY <1>1, <1>2, <1>3, RunInit, TypeCorrect, PTL DEF Spec, PlanGateImplemented, Gate!Spec

-----------------------------------------------------------------------------
(* Mirroring.  The invariant follows an undisturbed call through its chain *)
(* of writes: what it has still to write is pending, what it has written   *)
(* holds its verdict.                                                      *)

ChainInv ==
    \A k \in Decisions : quiet[k] =>
        /\ kpc[k] # "idle"
        /\ \A j \in Decisions : DecisionActive(j) => j = k
        /\ faults = 0 =>
              /\ DecisionActive(k) /\ ~landed[k] =>
                    kpc[k] \in {"write", "decide"} /\ Pending /\ plan = "pending"
              /\ landed[k] /\ kpc[k] = "write" =>
                    plan = verdict[k] /\ row.status \in {"pending", verdict[k]}
              /\ landed[k] /\ kpc[k] \in {"cancel", "decide"} =>
                    row.status = verdict[k] /\ plan \in {"pending", verdict[k]}
              /\ kpc[k] \in {"return", "done"} =>
                    row.status = verdict[k] /\ plan = verdict[k]

\* At the start no call is followed.
LEMMA ChainInit == Init => ChainInv
BY DEF Init, ChainInv

\* What happens outside the decision calls breaks the chain of none, or disturbs it.
LEMMA ChainFrame ==
    ASSUME ChainInv, UNCHANGED << kpc, origin, verdict, landed >>, faults' = 0 => faults = 0,
           \/ quiet' = [k \in Decisions |-> FALSE]
           \/ quiet' = quiet /\ plan' = plan /\ row'.status = row.status
    PROVE  ChainInv'
BY DEF ChainInv, DecisionActive, Pending

\* Every step keeps an undisturbed call on its chain.
LEMMA ChainNext == TypeOK /\ RunInv /\ ChainInv /\ [Next]_vars => ChainInv'
<1> SUFFICES ASSUME TypeOK, RunInv, ChainInv, [Next]_vars PROVE ChainInv'
  OBVIOUS
<1> USE DEF deliveryVars, timerVars, decisionVars, boundVars
<1>1. ASSUME NEW d \in Dispatches, NEW esc \in BOOLEAN, Upsert(d, esc) PROVE ChainInv'
  BY <1>1, ChainFrame DEF Upsert, Disturb
<1>2. ASSUME NEW d \in Dispatches, DispatchStep(d) PROVE ChainInv'
  <2>0. "pending" \in RowStatus
    BY DEF RowStatus, PlanStatus
  <2>1. UNCHANGED << kpc, origin, verdict, landed, plan >> /\ (faults' = 0 => faults = 0)
    BY <1>2 DEF DispatchStep, Send, MarkDelivered, MarkDeliveredFails, MarkDeliveryFailed,
                MarkDeliveryFailedFails, SpawnTimer, Fault, TypeOK
  <2>2. \/ quiet' = [k \in Decisions |-> FALSE]
        \/ quiet' = quiet /\ row'.status = row.status
    BY <1>2, <2>0, RowWrites
       DEF DispatchStep, Send, MarkDelivered, MarkDeliveredFails, MarkDeliveryFailed,
           MarkDeliveryFailedFails, SpawnTimer, Disturb, TypeOK
  <2> QED
    BY <2>1, <2>2, ChainFrame
<1>3. ASSUME NEW d \in Dispatches, TimerStep(d) PROVE ChainInv'
  <2>0. "pending" \in RowStatus
    BY DEF RowStatus, PlanStatus
  <2>1. /\ UNCHANGED << kpc, origin, verdict, landed, plan, quiet >>
        /\ faults' = 0 => faults = 0
    BY <1>3 DEF TimerStep, TimerFires, TimerCancelled, EscalationSend, MarkEscalated,
                EscalationFails, TimerExit, TimerGoto, Fault, TypeOK
  <2>2. row'.status = row.status
    BY <1>3, <2>0, RowWrites
       DEF TimerStep, TimerFires, TimerCancelled, EscalationSend, MarkEscalated,
           EscalationFails, TimerExit, TypeOK
  <2> QED
    BY <2>1, <2>2, ChainFrame
<1>4. ASSUME NEW k \in Decisions, NEW o, NEW v, NEW l \in {"write", "decide"}, Begin(k, o, v, l)
      PROVE  ChainInv'
  BY <1>4 DEF Begin, NextDecision, ChainInv, RunInv, DecisionActive, InDecision, Pending, TypeOK
<1>5. ASSUME NEW k \in Decisions, NEW v, BeginRecordDecision(k, v) PROVE ChainInv'
  BY <1>4, <1>5 DEF BeginRecordDecision
<1>6. ASSUME NEW k \in Decisions, BeginApprove(k) \/ BeginReject(k) PROVE ChainInv'
  BY <1>4, <1>6 DEF BeginApprove, BeginReject
<1>7. ASSUME NEW k \in Decisions, DecisionStep(k) PROVE ChainInv'
  <2>0. verdict[k] \in Verdict /\ "pending" \notin Verdict
    BY DEF TypeOK, Verdict
  <2> USE DEF ChainInv, DecisionActive, InDecision, Returned, TypeOK
  <2>1. CASE WriteDelivery(k)
    <3>1. CASE Pending
      <4>1. row'.status = verdict[k]
        BY <2>1, <3>1 DEF WriteDelivery, Row
      <4> QED
        BY <2>0, <2>1, <3>1, <4>1 DEF WriteDelivery, Land, DecisionGoto, Pending
    <3>2. CASE ~Pending
      BY <2>0, <2>1, <3>2 DEF WriteDelivery, Refuse, DecisionGoto, Pending
    <3> QED
      BY <3>1, <3>2
  <2>2. CASE CancelTimer(k)
    BY <2>0, <2>2 DEF CancelTimer, DecisionGoto, Pending
  <2>3. CASE DecidePlan(k)
    <3>1. CASE plan = "pending"
      BY <2>0, <2>3, <3>1 DEF DecidePlan, Land, DecisionGoto, Pending
    <3>2. CASE plan # "pending"
      BY <2>0, <2>3, <3>2 DEF DecidePlan, Refuse, DecisionGoto, Pending
    <3> QED
      BY <3>1, <3>2
  <2>4. CASE DecisionStoreFails(k) \/ RereadFails(k)
    BY <2>4 DEF DecisionStoreFails, RereadFails, Refuse, DecisionGoto, Fault
  <2>5. CASE Return(k)
    BY <2>5 DEF Return, Pending
  <2> QED
    BY <1>7, <2>1, <2>2, <2>3, <2>4, <2>5 DEF DecisionStep
<1>8. CASE OpenPlan \/ ExpirePlan \/ UNCHANGED vars
  BY <1>8, ChainFrame DEF OpenPlan, ExpirePlan, Disturb, vars
<1>9. CASE Crash
  BY <1>9 DEF Crash, ChainInv, DecisionActive, InDecision, Pending, TypeOK
<1> QED
  BY <1>1, <1>2, <1>3, <1>5, <1>6, <1>7, <1>8, <1>9 DEF Next

(* A decision that nothing interferes with has reached both stores when    *)
(* its call returns, whichever store it started at.                        *)
THEOREM DecisionsAreMirrored == Spec => []DecisionIsMirrored
<1>1. TypeOK /\ RunInv /\ ChainInv /\ [Next]_vars => ChainInv'
  BY ChainNext
<1>2. TypeOK /\ RunInv /\ [Next]_vars => RunInv'
  BY RunNext
<1>3. ChainInv => DecisionIsMirrored
  BY DEF ChainInv, DecisionIsMirrored
<1> QED
  BY <1>1, <1>2, <1>3, ChainInit, RunInit, TypeCorrect, PTL DEF Spec
=============================================================================
