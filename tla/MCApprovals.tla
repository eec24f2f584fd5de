------------------------------ MODULE MCApprovals ------------------------------
(* Instances of Approvals for TLC. *)
EXTENDS Approvals
=============================================================================
