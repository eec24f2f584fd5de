------------------------------- MODULE PlanGate -------------------------------
(***************************************************************************)
(* What plan approval promises, whichever store a decision enters through  *)
(* and whatever fails on the way: a plan is opened once, decided once, the *)
(* decision is final, and the plan's workflow is started at most once and  *)
(* only for a plan that stands approved when it is started.                *)
(***************************************************************************)
EXTENDS Naturals

VARIABLES
    status,     \* where the plan is
    runs        \* how often its workflow was started

Init == status = "absent" /\ runs = 0

Open ==
    /\ status = "absent"
    /\ status' = "pending"
    /\ UNCHANGED runs

Decide ==
    /\ status = "pending"
    /\ status' \in {"approved", "rejected", "expired"}
    /\ UNCHANGED runs

Run ==
    /\ status = "approved"
    /\ runs = 0
    /\ runs' = 1
    /\ UNCHANGED status

Next == Open \/ Decide \/ Run

Spec == Init /\ [][Next]_<< status, runs >>
=============================================================================
