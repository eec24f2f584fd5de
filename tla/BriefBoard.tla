------------------------------ MODULE BriefBoard ------------------------------
(***************************************************************************)
(* What an orchestration promises of its briefs, whoever drives it and     *)
(* whatever fails: every brief gets one outcome, an outcome is final, a    *)
(* brief is executed only after everything it depends on has completed,    *)
(* and one that is not executed is blocked because of a brief it depends   *)
(* on.  Several outcomes may become visible at once.                       *)
(***************************************************************************)
CONSTANTS Tasks, Deps

VARIABLE outcome

Executed(new, t) ==
    /\ new[t] \in {"completed", "failed", "blocked"}
    /\ \A d \in Deps[t] : new[d] = "completed"

Abandoned(new, t) ==
    /\ new[t] = "blocked"
    /\ \E d \in Deps[t] : new[d] \in {"failed", "blocked"}

Init == outcome = [t \in Tasks |-> "pending"]

Publish ==
    \E S \in SUBSET Tasks :
        /\ \A t \in S : outcome[t] = "pending"
        /\ outcome' \in [Tasks -> {"pending", "completed", "failed", "blocked"}]
        /\ \A t \in Tasks \ S : outcome'[t] = outcome[t]
        /\ \A t \in S : Executed(outcome', t) \/ Abandoned(outcome', t)

Spec == Init /\ [][Publish]_outcome
=============================================================================
