-------------------------- MODULE MCApprovalServer --------------------------
(* Instances of ApprovalServer for TLC. *)
EXTENDS ApprovalServer, TLC

Symmetry == Permutations(Req) \cup Permutations(Project)
=============================================================================
