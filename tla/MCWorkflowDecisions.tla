------------------------ MODULE MCWorkflowDecisions ------------------------
(* Instances of WorkflowDecisions for TLC. *)
EXTENDS WorkflowDecisions, TLC

Symmetry == Permutations(Verdict)
=============================================================================
