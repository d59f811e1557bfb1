---------------------------- MODULE RequestChain ----------------------------
(***************************************************************************)
(* The chain of a decision request: its ancestors and all their            *)
(* descendants by their time of creation (listRequestChain of              *)
(* workflow/server/decisions.js). Requests are numbered in the order of    *)
(* the map that holds them, which is the order they were made in.          *)
(***************************************************************************)
EXTENDS Integers, Sequences, FiniteSets, Functions

CONSTANTS
  MaxMade,   \* bound: requests
  MaxClock   \* bound: milliseconds

VARIABLES
  made,    \* request -> its parent (0 if it has none) and the time of its creation
  clock

vars == <<made, clock>>

Ids == DOMAIN made

\* createDecisionRequest: a parent that is not known is refused.
Create ==
  /\ Len(made) < MaxMade
  /\ \E parent \in Ids \cup {0} : made' = Append(made, [parent |-> parent, at |-> clock])
  /\ UNCHANGED clock

\* The clock of the machine may be set back.
Clock == clock' \in 0 .. MaxClock /\ UNCHANGED made

Init == made = <<>> /\ clock = 0
Next == Create \/ Clock
Spec == Init /\ [][Next]_vars

-----------------------------------------------------------------------------
\* From the root down to a request.
Path ==
  LET path[r \in Ids] ==
        IF made[r].parent = 0 THEN <<r>> ELSE Append(path[made[r].parent], r)
  IN path

Root(r) == Head(Path[r])

\* The queue of the second loop: level by level, on each in the order of the parents, then of the map.
Queued(a, b) ==
  LET p == Path[a]  q == Path[b] IN
  \/ Len(p) < Len(q)
  \/ Len(p) = Len(q) /\ \E i \in DOMAIN p : p[i] < q[i] /\ \A j \in 1 .. i - 1 : p[j] = q[j]

\* Children are looked for under the request that was asked for.
Members_bug(r) == {m \in Ids : \E i \in DOMAIN Path[m] : Path[m][i] = r}

Members(r) == {m \in Ids : Root(m) = Root(r)}

\* sort() is stable.
Before(a, b) == made[a].at < made[b].at \/ (made[a].at = made[b].at /\ Queued(a, b))
Place(r, m) == 1 + Cardinality({b \in Members(r) : Before(b, m)})
Chain(r) == [k \in 1 .. Cardinality(Members(r)) |-> CHOOSE m \in Members(r) : Place(r, m) = k]

-----------------------------------------------------------------------------
TypeOK ==
  /\ clock \in 0 .. MaxClock /\ Len(made) <= MaxMade
  /\ \A r \in Ids : made[r].parent \in 0 .. r - 1 /\ made[r].at \in 0 .. MaxClock

\* Whichever of its requests is opened, the chain shown is the same, has the request and its parent
\* in it, and no request before its parent unless the clock was set back between the two; no two
\* chains share a request (listRequestChain).
ChainIsShared ==
  \A r \in Ids :
    LET chain == Chain(r) IN
    /\ r \in Range(chain)
    /\ \A m \in Range(chain) : Chain(m) = chain
    /\ \A i, j \in DOMAIN chain :
         made[chain[j]].parent = chain[i] /\ made[chain[i]].at <= made[chain[j]].at => i < j
    /\ \A m \in Ids : made[m].parent = r => m \in Range(chain)

\* Why it holds: a request is made after its parent.
ChainInvariant == TypeOK /\ made \in Seq([parent : Nat, at : 0 .. MaxClock])
=============================================================================
