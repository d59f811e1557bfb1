---------------------------- MODULE PartsShared ----------------------------
(***************************************************************************)
(* What the parts that share no state have in common: what stands for      *)
(* nothing, the branch that is asked for, and bounds.                      *)
(***************************************************************************)
EXTENDS Integers, Sequences, FiniteSets

CONSTANTS
  None,
  Asked,
  MaxFailures,  \* bound: calls and writes that fail
  MaxReloads    \* bound: reloads of a page
=============================================================================
