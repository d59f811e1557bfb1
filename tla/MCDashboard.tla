---------------------------- MODULE MCDashboard ----------------------------
(***************************************************************************)
(* Instances of Dashboard for TLC, of which a behaviour has one: in the    *)
(* one an operator opens sheets, in the other the lane is full with one    *)
(* note and the policy approves the second submission.                     *)
(***************************************************************************)
EXTENDS Dashboard, TLC

VARIABLE narrow

Narrow == INSTANCE Dashboard WITH Sheets <- {}, LaneLimit <- 1, AutoApproved <- {2}

MCInit == Init /\ narrow \in BOOLEAN

Roomy == ~narrow /\ Next
Tight == narrow /\ Narrow!Next
MCNext == (Roomy \/ Tight) /\ UNCHANGED narrow

Delivers(d) == \/ ~narrow /\ Deliver(d)
               \/ narrow /\ Narrow!Deliver(d)

\* That of Dashboard: of the actions it is about, only Deliver differs between the two.
MCFairness ==
  /\ \A d \in Dashboards : /\ WF_vars(\E i \in DOMAIN toServer[d] : Handle(d, i))
                           /\ WF_vars(Delivers(d)) /\ WF_vars(Render(d))
  /\ \A n \in 1 .. MaxMerges :
       WF_vars(\E m \in {x \in merges : x.id = n}, ok \in BOOLEAN : MergeEnds(m, ok))

MCFairSpec == MCInit /\ [][MCNext]_<<vars, narrow>> /\ MCFairness
=============================================================================
