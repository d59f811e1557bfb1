---------------------------- MODULE MCWorkStore ----------------------------
(* Instances of WorkStore for TLC. *)
EXTENDS WorkStore, TLC

\* Ids are interchangeable.
MCSymmetry == Permutations(Sessions) \cup Permutations(Requests)
=============================================================================
