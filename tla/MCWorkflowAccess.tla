-------------------------- MODULE MCWorkflowAccess --------------------------
(* Instances of WorkflowAccess for TLC. *)
EXTENDS WorkflowAccess, TLC

CONSTANTS a1, a2, o1, agent, staff, admin

\* An agent with one identity, a member of staff with two, and the administrator.
MCHolds == (agent :> {a1}) @@ (staff :> {a2, o1}) @@ (admin :> {Root})
MCMaxTokens == (a1 :> 2) @@ (a2 :> 1) @@ (o1 :> 2)
=============================================================================
