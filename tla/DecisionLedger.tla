--------------------------- MODULE DecisionLedger ---------------------------
(***************************************************************************)
(* What a decision server promises to those who wait for its decisions: a  *)
(* subject gets one decision, it never changes or disappears, and nobody   *)
(* is told a decision before it has been made.                             *)
(***************************************************************************)
CONSTANTS Subject, None

VARIABLES
  ruling,   \* the decision on each subject, None before it is made
  told      \* decisions given out

vars == <<ruling, told>>

Init == ruling = [x \in Subject |-> None] /\ told = {}

Decide(x, v) ==
  /\ ruling[x] = None
  /\ ruling' = [ruling EXCEPT ![x] = v]
  /\ UNCHANGED told

Tell(x) ==
  /\ ruling[x] # None
  /\ told' = told \cup {ruling[x]}
  /\ UNCHANGED ruling

Next == \E x \in Subject : Tell(x) \/ Decide(x, ruling'[x])

Spec == Init /\ [][Next]_vars
=============================================================================
