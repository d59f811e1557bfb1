--------------------------- MODULE MCLocalReplay ---------------------------
(***************************************************************************)
(* The local replay by itself, as an instance for TLC: a commit of up to   *)
(* two files in one folder.                                                *)
(***************************************************************************)
EXTENDS LocalReplay

MCFolder == [f \in Files |-> 1]
=============================================================================
