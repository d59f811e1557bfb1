------------------------------- MODULE Ranks -------------------------------
(***************************************************************************)
(* Some of the members of a sequence, in its order. (SelectSeq says the    *)
(* same of the members that pass a test, but is recursive.)                *)
(***************************************************************************)
EXTENDS Naturals, FiniteSets, Sequences

Rank(S, i) == Cardinality({j \in S : j <= i})
Nth(S, k) == CHOOSE i \in S : Rank(S, i) = k

\* The members of s at the places of S.
Picked(s, S) == [k \in 1 .. Cardinality(S) |-> s[Nth(S, k)]]
=============================================================================
