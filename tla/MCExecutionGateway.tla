-------------------------- MODULE MCExecutionGateway --------------------------
(* Instances of ExecutionGateway for TLC. *)
EXTENDS ExecutionGateway
=============================================================================
