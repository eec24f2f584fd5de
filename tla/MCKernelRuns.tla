---------------------------- MODULE MCKernelRuns ----------------------------
(* The instance TLC checks: an orchestration of two briefs, the second     *)
(* depending on the first.                                                 *)
EXTENDS KernelRuns

MCTasks == {1, 2}
MCOrchs == {"A"}
MCOrchOf == [t \in MCTasks |-> "A"]
MCDeps == [t \in MCTasks |-> {d \in MCTasks : d < t}]
=============================================================================
