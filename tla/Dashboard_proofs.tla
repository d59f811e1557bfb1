-------------------------- MODULE Dashboard_proofs --------------------------
(***************************************************************************)
(* Proofs about Dashboard, for any number of requests, dashboards, notes,  *)
(* sockets, merges and submissions: types, that pending notes have an      *)
(* answer to come, that what waits is visible, and that no dashboard acts  *)
(* twice on a request whose first action is unanswered.                    *)
(***************************************************************************)
EXTENDS Dashboard, Integers, FiniteSetTheorems, FunctionTheorems, SequenceTheorems, TLAPS

-----------------------------------------------------------------------------
(* The members of a finite set of numbers, in order *)

\* The rank of a member counts it and those before it, so it grows with the member.
LEMMA RanksGrow ==
  ASSUME NEW S \in SUBSET Nat, IsFiniteSet(S)
  PROVE  /\ Cardinality(S) \in Nat
         /\ \A i \in S : Rank(S, i) \in 1 .. Cardinality(S)
         /\ \A i, j \in S : i < j => Rank(S, i) < Rank(S, j)
<1> DEFINE Upto(i) == {j \in S : j <= i}
<1>1. Cardinality(S) \in Nat
  BY FS_CardinalityType
<1>2. ASSUME NEW i \in S
      PROVE  /\ IsFiniteSet(Upto(i)) /\ Cardinality(Upto(i)) \in Nat
             /\ Cardinality(Upto(i)) <= Cardinality(S)
             /\ Cardinality(Upto(i)) # 0
  <2>1. Upto(i) \in SUBSET S
    OBVIOUS
  <2>2. IsFiniteSet(Upto(i)) /\ Cardinality(Upto(i)) <= Cardinality(S)
    BY <2>1, FS_Subset
  <2>3. Cardinality(Upto(i)) \in Nat
    BY <2>2, FS_CardinalityType
  <2>4. i \in Upto(i)
    OBVIOUS
  <2>5. Cardinality(Upto(i)) # 0
    BY <2>2, <2>4, FS_EmptySet
  <2>6. QED
    BY <2>2, <2>3, <2>5
<1>3. ASSUME NEW i \in S, NEW j \in S, i < j
      PROVE  Cardinality(Upto(i)) < Cardinality(Upto(j))
  <2>1. Upto(i) \in SUBSET Upto(j)
    <3>1. i \in Nat /\ j \in Nat
      OBVIOUS
    <3>2. ASSUME NEW k \in S, k <= i
          PROVE  k <= j
      <4>1. k \in Nat
        OBVIOUS
      <4>2. QED
        BY <1>3, <3>1, <3>2, <4>1
    <3>3. QED
      BY <3>2
  <2>2. j \in Upto(j) /\ j \notin Upto(i)
    BY <1>3
  <2>3. IsFiniteSet(Upto(j))
    BY <1>2
  <2>4. /\ Cardinality(Upto(i)) <= Cardinality(Upto(j))
        /\ Cardinality(Upto(j)) = Cardinality(Upto(i)) => Upto(j) = Upto(i)
    BY <2>1, <2>3, FS_Subset
  <2>5. Upto(j) # Upto(i)
    BY <2>2
  <2>6. Cardinality(Upto(i)) \in Nat /\ Cardinality(Upto(j)) \in Nat
    BY <1>2
  <2> HIDE DEF Upto
  <2>7. QED
    BY <2>4, <2>5, <2>6
<1>4. \A i \in S : Rank(S, i) = Cardinality(Upto(i))
  BY DEF Rank
<1> HIDE DEF Upto
<1>5. \A i \in S : Rank(S, i) \in 1 .. Cardinality(S)
  BY <1>1, <1>2, <1>4
<1>6. \A i, j \in S : i < j => Rank(S, i) < Rank(S, j)
  BY <1>3, <1>4
<1>7. QED
  BY <1>1, <1>5, <1>6

\* Each rank is the rank of a member, for an injection into as many is onto.
LEMMA RanksAreTaken ==
  ASSUME NEW S \in SUBSET Nat, IsFiniteSet(S), NEW k \in 1 .. Cardinality(S)
  PROVE  \E i \in S : Rank(S, i) = k
<1> DEFINE n == Cardinality(S)
           rank == [i \in S |-> Rank(S, i)]
<1>1. n \in Nat /\ \A i \in S : Rank(S, i) \in 1 .. n
  BY RanksGrow
<1>2. \A i, j \in S : i # j => rank[i] # rank[j]
  <2>1. \A i, j \in S : i < j => Rank(S, i) < Rank(S, j)
    BY RanksGrow
  <2>2. ASSUME NEW i \in S, NEW j \in S, i < j
        PROVE  Rank(S, i) # Rank(S, j)
    <3>1. Rank(S, i) \in Nat /\ Rank(S, j) \in Nat
      BY <1>1
    <3>2. QED
      BY <2>1, <2>2, <3>1
  <2>3. \A i, j \in S : i < j \/ j < i \/ i = j
    OBVIOUS
  <2>4. QED
    BY <2>2, <2>3
<1>3. rank \in [S -> 1 .. n]
  BY <1>1
<1>4. rank \in Injection(S, 1 .. n)
  BY <1>2, <1>3 DEF Injection, IsInjective
<1>5. IsFiniteSet(1 .. n) /\ Cardinality(1 .. n) = n
  <2> HIDE DEF n
  <2>1. 0 \in Int /\ 1 \in Int /\ n \in Int
    BY <1>1
  <2>2. IsFiniteSet(1 .. n) /\ Cardinality(1 .. n) = IF 1 > n THEN 0 ELSE n - 1 + 1
    BY <2>1, FS_Interval
  <2>3. QED
    BY <1>1, <2>2
<1>6. rank \in Surjection(S, 1 .. n)
  BY <1>4, <1>5, FS_Injection
<1>7. \A m \in 1 .. n : \E i \in S : rank[i] = m
  BY <1>6 DEF Surjection
<1>8. QED
  BY <1>7

\* The k-th member is the one of rank k, and later members are greater.
LEMMA NthOfRank ==
  ASSUME NEW S \in SUBSET Nat, IsFiniteSet(S)
  PROVE  /\ \A k \in 1 .. Cardinality(S) : Nth(S, k) \in S /\ Rank(S, Nth(S, k)) = k
         /\ \A i \in S : Nth(S, Rank(S, i)) = i
         /\ \A k, l \in 1 .. Cardinality(S) : k < l => Nth(S, k) < Nth(S, l)
<1>1. \A k \in 1 .. Cardinality(S) : Nth(S, k) \in S /\ Rank(S, Nth(S, k)) = k
  <2> TAKE k \in 1 .. Cardinality(S)
  <2>1. \E i \in S : Rank(S, i) = k
    BY RanksAreTaken
  <2>2. QED
    BY <2>1 DEF Nth
<1>2. /\ Cardinality(S) \in Nat
      /\ \A i \in S : Rank(S, i) \in 1 .. Cardinality(S)
      /\ \A i, j \in S : i < j => Rank(S, i) < Rank(S, j)
  BY RanksGrow
<1>3. \A i \in S : Nth(S, Rank(S, i)) = i
  <2> TAKE i \in S
  <2> DEFINE j == Nth(S, Rank(S, i))
  <2>1. j \in S /\ Rank(S, j) = Rank(S, i)
    BY <1>1, <1>2
  <2>2. Rank(S, i) \in Nat
    BY <1>2
  <2> HIDE DEF j
  <2>3. i \in Nat /\ j \in Nat
    BY <2>1
  <2>4. ~(i < j) /\ ~(j < i)
    BY <1>2, <2>1, <2>2
  <2>5. i = j
    BY <2>3, <2>4
  <2>6. QED
    BY <2>5 DEF j
<1>4. \A k, l \in 1 .. Cardinality(S) : k < l => Nth(S, k) < Nth(S, l)
  <2> TAKE k, l \in 1 .. Cardinality(S)
  <2> HAVE k < l
  <2> DEFINE i == Nth(S, k)
             j == Nth(S, l)
  <2>1. i \in S /\ j \in S /\ Rank(S, i) = k /\ Rank(S, j) = l
    BY <1>1
  <2> HIDE DEF i, j
  <2>2. i < j \/ j < i \/ i = j
    BY <2>1
  <2>3. ~(j < i)
    BY <1>2, <2>1
  <2>4. i # j
    BY <2>1
  <2>5. QED
    BY <2>2, <2>3, <2>4 DEF i, j
<1>5. QED
  BY <1>1, <1>3, <1>4

-----------------------------------------------------------------------------
(* The first of some places *)

\* A set of places that is not empty has a least one.
LEMMA LeastIsFirst ==
  ASSUME NEW S \in SUBSET Nat, IsFiniteSet(S), S # {}
  PROVE  Least(S) \in S /\ \A j \in S : Least(S) <= j
<1>1. Cardinality(S) \in Nat /\ Cardinality(S) # 0
  BY FS_CardinalityType, FS_EmptySet
<1>2. PICK i \in S : Rank(S, i) = 1
  BY <1>1, RanksAreTaken
<1>3. \A j \in S : i <= j
  <2> TAKE j \in S
  <2>1. j < i => Rank(S, j) < 1
    BY <1>2, RanksGrow
  <2>2. Rank(S, j) \in 1 .. Cardinality(S)
    BY RanksGrow
  <2>3. i < j \/ j < i \/ i = j
    OBVIOUS
  <2>4. QED
    BY <1>1, <2>1, <2>2, <2>3
<1>4. QED
  BY <1>3 DEF Least

\* It is the only member that is not after another.
LEMMA LeastIsUnique ==
  ASSUME NEW S \in SUBSET Nat, IsFiniteSet(S), NEW i \in S, \A j \in S : i <= j
  PROVE  Least(S) = i
<1>1. Least(S) \in S /\ Least(S) <= i
  BY LeastIsFirst
<1>2. i <= Least(S)
  BY <1>1
<1>3. i \in Nat /\ Least(S) \in Nat
  BY <1>1
<1>4. QED
  BY <1>1, <1>2, <1>3

-----------------------------------------------------------------------------
(* Lists of notes *)

LEMMA PlacesAreFinite ==
  ASSUME NEW T, NEW list \in Seq(T), NEW r
  PROVE  /\ Of(list, r) \in SUBSET Nat /\ IsFiniteSet(Of(list, r))
         /\ \A q : DOMAIN list \ Of(list, q) \in SUBSET Nat /\ IsFiniteSet(DOMAIN list \ Of(list, q))
<1>1. DOMAIN list = 1 .. Len(list) /\ Len(list) \in Nat
  OBVIOUS
<1>2. IsFiniteSet(1 .. Len(list))
  <2> DEFINE n == Len(list)
  <2>1. n \in Int /\ 1 \in Int
    BY <1>1
  <2> HIDE DEF n
  <2>2. IsFiniteSet(1 .. n)
    BY <2>1, FS_Interval
  <2>3. QED
    BY <2>2 DEF n
<1>3. \A S : S \subseteq DOMAIN list => S \in SUBSET Nat /\ IsFiniteSet(S)
  <2> TAKE S
  <2> HAVE S \subseteq DOMAIN list
  <2>1. S \in SUBSET (1 .. Len(list))
    BY <1>1
  <2>2. IsFiniteSet(S)
    BY <1>2, <2>1, FS_Subset
  <2>3. QED
    BY <2>1, <2>2
<1>4. Of(list, r) \subseteq DOMAIN list
  BY DEF Of
<1>5. QED
  BY <1>3, <1>4

\* The first note of a request is a note of it, and none of its notes is before it.
LEMMA FirstIsOf ==
  ASSUME NEW list \in Seq(Note), NEW r, Of(list, r) # {}
  PROVE  /\ Least(Of(list, r)) \in Of(list, r)
         /\ \A j \in Of(list, r) : Least(Of(list, r)) <= j
         /\ First(list, r) \in Note /\ First(list, r).request = r
         /\ \E i \in DOMAIN list : list[i] = First(list, r)
<1>1. Of(list, r) \in SUBSET Nat /\ IsFiniteSet(Of(list, r))
  BY PlacesAreFinite
<1>2. Least(Of(list, r)) \in Of(list, r) /\ \A j \in Of(list, r) : Least(Of(list, r)) <= j
  BY <1>1, LeastIsFirst
<1>3. \A i \in DOMAIN list : list[i] \in Note
  OBVIOUS
<1>4. QED
  BY <1>2, <1>3 DEF First, Of

\* What is first with the request in question is its first note.
LEMMA FirstIsLeast ==
  ASSUME NEW list \in Seq(Note), NEW r, NEW i \in Of(list, r), \A j \in Of(list, r) : i <= j
  PROVE  First(list, r) = list[i]
<1>1. Of(list, r) \in SUBSET Nat /\ IsFiniteSet(Of(list, r))
  BY PlacesAreFinite
<1>2. Least(Of(list, r)) = i
  BY <1>1, LeastIsUnique
<1>3. QED
  BY <1>2 DEF First

LEMMA PendingHasNote ==
  ASSUME NEW list, NEW r
  PROVE  r \in Pending(list) <=> \E i \in Of(list, r) : list[i].status # "READY"
BY DEF Pending, Ready, Of

\* Two lists show the same of a request.
SameFor(list, new, r) ==
  /\ Of(new, r) = {} <=> Of(list, r) = {}
  /\ r \in Pending(new) <=> r \in Pending(list)
  /\ Of(list, r) # {} => First(new, r) = First(list, r)

\* Removing a request's notes leaves what is shown of the others.
LEMMA WithoutKeepsOthers ==
  ASSUME NEW list \in Seq(Note), NEW q
  PROVE  /\ Without(list, q) \in Seq(Note)
         /\ Of(Without(list, q), q) = {}
         /\ \A r : r # q => SameFor(list, Without(list, q), r)
<1> DEFINE kept == DOMAIN list \ Of(list, q)
           c == Cardinality(kept)
           new == Without(list, q)
<1>1. kept \in SUBSET Nat /\ IsFiniteSet(kept)
  BY PlacesAreFinite
<1>2. c \in Nat
  BY <1>1, FS_CardinalityType
<1>3. /\ \A k \in 1 .. c : Nth(kept, k) \in kept
      /\ \A i \in kept : Rank(kept, i) \in 1 .. c /\ Nth(kept, Rank(kept, i)) = i
      /\ \A k, l \in 1 .. c : k < l => Nth(kept, k) < Nth(kept, l)
  BY <1>1, RanksGrow, NthOfRank
<1>4. new = [k \in 1 .. c |-> list[Nth(kept, k)]]
  BY DEF Without, Picked
<1>5. \A i \in kept : i \in DOMAIN list /\ list[i] \in Note /\ list[i].request # q
  BY DEF Of
<1>6. \A i \in DOMAIN list : list[i].request # q => i \in kept
  BY DEF Of
<1>7. kept \subseteq Nat
  BY <1>1
<1> HIDE DEF kept, c, new
<1>8. new \in Seq(Note) /\ DOMAIN new = 1 .. c
  BY <1>2, <1>3, <1>4, <1>5
<1>9. \A k \in 1 .. c : new[k] = list[Nth(kept, k)]
  BY <1>4
<1>10. Of(new, q) = {}
  BY <1>3, <1>5, <1>8, <1>9 DEF Of
<1>11. ASSUME NEW r, r # q
       PROVE  SameFor(list, new, r)
  <2>1. \A i \in Of(list, r) : i \in kept /\ Rank(kept, i) \in Of(new, r)
                               /\ new[Rank(kept, i)] = list[i]
    BY <1>3, <1>6, <1>8, <1>9, <1>11 DEF Of
  <2>2. \A k \in Of(new, r) : k \in 1 .. c /\ Nth(kept, k) \in Of(list, r)
                              /\ new[k] = list[Nth(kept, k)]
    BY <1>3, <1>5, <1>8, <1>9 DEF Of
  <2>3. r \in Pending(new) <=> r \in Pending(list)
    BY <2>1, <2>2, PendingHasNote
  <2>4. ASSUME Of(list, r) # {}
        PROVE  First(new, r) = First(list, r)
    <3> DEFINE l == Least(Of(list, r))
               k == Rank(kept, l)
    <3>1. l \in Of(list, r) /\ \A j \in Of(list, r) : l <= j
      BY <2>4, FirstIsOf
    <3>2. k \in Of(new, r) /\ new[k] = list[l] /\ l \in kept /\ k \in 1 .. c /\ Nth(kept, k) = l
      BY <1>3, <2>1, <3>1
    <3>3. First(list, r) = list[l]
      BY DEF First
    <3> HIDE DEF l, k
    <3>4. ASSUME NEW j \in Of(new, r)
          PROVE  k <= j
      <4>1. j \in 1 .. c /\ l <= Nth(kept, j) /\ Nth(kept, j) \in Nat /\ l \in Nat
        BY <1>7, <2>2, <3>1, <3>2, <1>3
      <4>2. j < k => Nth(kept, j) < l
        BY <1>3, <3>2, <4>1
      <4>3. ~(j < k)
        BY <4>1, <4>2
      <4>4. j \in Nat /\ k \in Nat
        BY <1>2, <3>2, <4>1
      <4>5. QED
        BY <4>3, <4>4
    <3>5. QED
      BY <1>8, <3>2, <3>3, <3>4, FirstIsLeast
  <2>5. Of(new, r) = {} <=> Of(list, r) = {}
    BY <2>1, <2>2
  <2>6. QED
    BY <2>3, <2>4, <2>5 DEF SameFor
<1>12. QED
  BY <1>8, <1>10, <1>11 DEF new

LEMMA NothingWithout == ASSUME NEW r PROVE Without(<<>>, r) = <<>>
<1>1. DOMAIN <<>> \ Of(<<>>, r) = {}
  OBVIOUS
<1>2. Cardinality({}) = 0
  BY FS_EmptySet
<1>3. Without(<<>>, r) = [k \in 1 .. 0 |-> <<>>[Nth({}, k)]]
  BY <1>1, <1>2 DEF Without, Picked
<1>4. QED
  BY <1>3

\* A change of status is one of all notes of a request, and of no other's.
LEMMA WithStatusKeepsOthers ==
  ASSUME NEW list \in Seq(Note), NEW q \in Requests,
         NEW status \in {"READY", "APPROVING", "REJECTING"}
  PROVE  /\ WithStatus(list, q, status) \in Seq(Note)
         /\ Of(WithStatus(list, q, status), q) = Of(list, q)
         /\ \A i \in Of(list, q) : WithStatus(list, q, status)[i].status = status
         /\ \A r : r # q => SameFor(list, WithStatus(list, q, status), r)
<1> DEFINE new == WithStatus(list, q, status)
<1>1. \A i \in DOMAIN list : list[i] \in Note
  OBVIOUS
<1>2. \A n \in Note : [n EXCEPT !.status = status] \in Note
                      /\ [n EXCEPT !.status = status].request = n.request
                      /\ [n EXCEPT !.status = status].status = status
  BY DEF Note
<1>3. new = [i \in DOMAIN list |->
               IF list[i].request = q THEN [list[i] EXCEPT !.status = status] ELSE list[i]]
  BY DEF WithStatus
<1> HIDE DEF new
<1>4. new \in [1 .. Len(list) -> Note]
  BY <1>1, <1>2, <1>3
<1>5. new \in Seq(Note) /\ DOMAIN new = DOMAIN list
  BY <1>3, <1>4
<1>6. /\ \A i \in DOMAIN list : new[i].request = list[i].request
      /\ \A i \in DOMAIN list : list[i].request = q => new[i].status = status
      /\ \A i \in DOMAIN list : list[i].request # q => new[i] = list[i]
  BY <1>1, <1>2, <1>3
<1>7. \A r : Of(new, r) = Of(list, r)
  BY <1>5, <1>6 DEF Of
<1>8. ASSUME NEW r, r # q
      PROVE  SameFor(list, new, r)
  <2>1. \A i \in Of(list, r) : new[i] = list[i]
    BY <1>6, <1>8 DEF Of
  <2>2. r \in Pending(new) <=> r \in Pending(list)
    BY <1>7, <2>1, PendingHasNote
  <2>3. Of(list, r) # {} => First(new, r) = First(list, r)
    BY <1>7, <2>1, FirstIsOf DEF First
  <2>4. QED
    BY <1>7, <2>2, <2>3 DEF SameFor
<1>9. \A i \in Of(list, q) : new[i].status = status
  BY <1>6 DEF Of
<1>10. QED
  BY <1>5, <1>7, <1>8, <1>9 DEF new

LEMMA WithStatusKeepsPlaces ==
  ASSUME NEW list \in Seq(Note), NEW q \in Requests,
         NEW status \in {"READY", "APPROVING", "REJECTING"}
  PROVE  Of(WithStatus(list, q, status), q) = Of(list, q)
BY DEF Of, WithStatus

\* A note that is added is ready, and comes after those of its request.
LEMMA AddedIsLast ==
  ASSUME NEW list \in Seq(Note), NEW n \in Note, n.status = "READY"
  PROVE  /\ Append(list, n) \in Seq(Note)
         /\ Of(Append(list, n), n.request) # {}
         /\ \A r : r # n.request => SameFor(list, Append(list, n), r)
         /\ Pending(Append(list, n)) = Pending(list)
         /\ Of(list, n.request) # {} => First(Append(list, n), n.request) = First(list, n.request)
<1> DEFINE new == Append(list, n)
           k == Len(list)
<1>1. /\ new \in Seq(Note) /\ k \in Nat
      /\ DOMAIN list = 1 .. k /\ DOMAIN new = 1 .. k + 1
      /\ \A i \in 1 .. k : new[i] = list[i]
      /\ new[k + 1] = n
  OBVIOUS
<1> HIDE DEF new, k
<1>2. \A r : Of(list, r) \subseteq Of(new, r)
  BY <1>1 DEF Of
<1>3. \A r, i : i \in Of(new, r) => i \in Of(list, r) \/ i = k + 1
  BY <1>1 DEF Of
<1>4. \A r : r # n.request => Of(new, r) = Of(list, r)
  BY <1>1, <1>2, <1>3 DEF Of
<1>5. k + 1 \in Of(new, n.request)
  BY <1>1 DEF Of
<1>6. \A r : \A i \in Of(list, r) : new[i] = list[i] /\ i \in 1 .. k
  BY <1>1 DEF Of
<1>7. \A r : r \in Pending(new) <=> r \in Pending(list)
  <2> TAKE r
  <2>1. \A i \in Of(new, r) : new[i].status # "READY" => i \in Of(list, r)
    BY <1>1, <1>3
  <2>2. QED
    BY <1>2, <1>6, <2>1, PendingHasNote
<1>8. ASSUME NEW r, Of(list, r) # {}
      PROVE  First(new, r) = First(list, r)
  <2> DEFINE l == Least(Of(list, r))
  <2>1. l \in Of(list, r) /\ \A j \in Of(list, r) : l <= j
    BY <1>8, FirstIsOf
  <2>2. First(list, r) = list[l]
    BY DEF First
  <2> HIDE DEF l
  <2>3. \A j \in Of(new, r) : l <= j
    BY <1>1, <1>3, <1>6, <2>1
  <2>4. QED
    BY <1>1, <1>2, <1>6, <2>1, <2>2, <2>3, FirstIsLeast
<1>9. Pending(new) = Pending(list)
  BY <1>7
<1>10. \A r : r # n.request => SameFor(list, new, r)
  BY <1>4, <1>7, <1>8 DEF SameFor
<1>11. QED
  BY <1>1, <1>5, <1>8, <1>9, <1>10 DEF new

-----------------------------------------------------------------------------
(* Queues of actions and events *)

\* The queue without its i-th element: the others in their order.
Dropping(list, i) == SubSeq(list, 1, i - 1) \o SubSeq(list, i + 1, Len(list))

LEMMA OthersStay ==
  ASSUME NEW T, NEW list \in Seq(T), NEW i \in DOMAIN list,
         NEW new, new = Dropping(list, i)
  PROVE  /\ new \in Seq(T) /\ DOMAIN new = 1 .. Len(list) - 1 /\ Len(new) = Len(list) - 1
         /\ \A j \in DOMAIN new : new[j] = list[IF j < i THEN j ELSE j + 1]
         /\ \A j \in DOMAIN list : j < i => j \in DOMAIN new /\ new[j] = list[j]
         /\ \A j \in DOMAIN list : j > i => j - 1 \in DOMAIN new /\ new[j - 1] = list[j]
<1> DEFINE n == Len(list)
           front == SubSeq(list, 1, i - 1)
           back == SubSeq(list, i + 1, n)
<1>1. n \in Nat /\ i \in 1 .. n /\ DOMAIN list = 1 .. n
  OBVIOUS
<1>2. front \in Seq(T) /\ Len(front) = i - 1 /\ \A j \in 1 .. i - 1 : front[j] = list[j]
  BY <1>1
<1>3. back \in Seq(T) /\ Len(back) = n - i /\ \A j \in 1 .. n - i : back[j] = list[j + i]
  BY <1>1
<1>4. new = front \o back
  BY DEF Dropping
<1> HIDE DEF n, front, back
<1>a. /\ new \in Seq(T) /\ Len(new) = Len(front) + Len(back)
      /\ \A j \in 1 .. Len(front) + Len(back) :
           new[j] = IF j <= Len(front) THEN front[j] ELSE back[j - Len(front)]
  <2>1. /\ front \o back \in Seq(T) /\ Len(front \o back) = Len(front) + Len(back)
        /\ \A j \in 1 .. Len(front) + Len(back) :
             (front \o back)[j] = IF j <= Len(front) THEN front[j] ELSE back[j - Len(front)]
    BY <1>2, <1>3, ConcatProperties
  <2>2. QED
    BY <1>4, <2>1, Zenon
<1>b. Len(front) + Len(back) = n - 1
  BY <1>1, <1>2, <1>3
<1>5. new \in Seq(T) /\ Len(new) = n - 1 /\ DOMAIN new = 1 .. n - 1
  BY <1>1, <1>a, <1>b
<1>6. \A j \in 1 .. n - 1 : new[j] = IF j <= i - 1 THEN front[j] ELSE back[j - (i - 1)]
  BY <1>2, <1>a, <1>b
<1>7. \A j \in 1 .. n - 1 : new[j] = list[IF j < i THEN j ELSE j + 1]
  <2> TAKE j \in 1 .. n - 1
  <2>1. CASE j < i
    <3>1. j <= i - 1 /\ j \in 1 .. i - 1
      BY <1>1, <2>1
    <3>2. new[j] = front[j] /\ front[j] = list[j]
      BY <1>2, <1>6, <3>1
    <3>3. QED
      BY <2>1, <3>2
  <2>2. CASE ~(j < i)
    <3>1. ~(j <= i - 1) /\ j - (i - 1) \in 1 .. n - i /\ j - (i - 1) + i = j + 1
      BY <1>1, <2>2
    <3>2. back[j - (i - 1)] = list[j - (i - 1) + i]
      BY <1>3, <3>1
    <3>3. new[j] = back[j - (i - 1)]
      BY <1>6, <3>1
    <3>4. new[j] = list[j + 1]
      BY <3>1, <3>2, <3>3
    <3>5. QED
      BY <2>2, <3>4
  <2>3. QED
    BY <2>1, <2>2
<1>8. \A j \in 1 .. n : j < i => j \in 1 .. n - 1 /\ new[j] = list[j]
  BY <1>1, <1>7
<1>9. \A j \in 1 .. n : j > i => j - 1 \in 1 .. n - 1 /\ new[j - 1] = list[j]
  <2> TAKE j \in 1 .. n
  <2> HAVE j > i
  <2>1. j - 1 \in 1 .. n - 1 /\ ~(j - 1 < i) /\ j - 1 + 1 = j
    BY <1>1
  <2>2. QED
    BY <1>7, <2>1
<1>10. QED
  BY <1>1, <1>5, <1>7, <1>8, <1>9 DEF n

\* The part of a queue that arrives.
LEMMA FrontStays ==
  ASSUME NEW T, NEW list \in Seq(T), NEW k \in 0 .. Len(list)
  PROVE  /\ SubSeq(list, 1, k) \in Seq(T) /\ DOMAIN SubSeq(list, 1, k) = 1 .. k
         /\ \A i \in 1 .. k : SubSeq(list, 1, k)[i] = list[i]
OBVIOUS

\* The queue without its first element.
LEMMA RestStays ==
  ASSUME NEW T, NEW list \in Seq(T), list # <<>>
  PROVE  /\ Head(list) = list[1] /\ Head(list) \in T /\ 1 \in DOMAIN list
         /\ Tail(list) \in Seq(T) /\ DOMAIN Tail(list) = 1 .. Len(list) - 1
         /\ DOMAIN list = 1 .. Len(list) /\ Len(list) \in Nat
         /\ \A i \in DOMAIN Tail(list) : i + 1 \in DOMAIN list /\ Tail(list)[i] = list[i + 1]
         /\ \A i \in DOMAIN list : i # 1 => i - 1 \in DOMAIN Tail(list) /\ Tail(list)[i - 1] = list[i]
<1>1. Len(list) \in Nat /\ Len(list) # 0 /\ DOMAIN list = 1 .. Len(list)
  OBVIOUS
<1>2. Tail(list) \in Seq(T) /\ Len(Tail(list)) = Len(list) - 1
  BY <1>1
<1>3. \A i \in 1 .. Len(list) - 1 : Tail(list)[i] = list[i + 1]
  BY <1>1
<1>4. DOMAIN Tail(list) = 1 .. Len(list) - 1
  BY <1>1, <1>2
<1>5. Head(list) = list[1] /\ list[1] \in T
  BY <1>1
<1>6. \A i \in 1 .. Len(list) : i # 1 => i - 1 \in 1 .. Len(list) - 1 /\ i - 1 + 1 = i
  BY <1>1
<1>7. \A i \in 1 .. Len(list) - 1 : i + 1 \in 1 .. Len(list)
  BY <1>1
<1> DEFINE rest == Tail(list)
<1> HIDE DEF rest
<1>8. \A i \in DOMAIN list : i # 1 => i - 1 \in DOMAIN rest /\ rest[i - 1] = list[i]
  BY <1>1, <1>3, <1>4, <1>6 DEF rest
<1>9. QED
  BY <1>1, <1>2, <1>3, <1>4, <1>5, <1>7, <1>8 DEF rest

\* A queue with one element more.
LEMMA AllStay ==
  ASSUME NEW T, NEW list \in Seq(T), NEW e \in T
  PROVE  /\ Append(list, e) \in Seq(T) /\ Len(list) \in Nat
         /\ DOMAIN list = 1 .. Len(list) /\ DOMAIN Append(list, e) = 1 .. Len(list) + 1
         /\ \A i \in DOMAIN list : Append(list, e)[i] = list[i]
         /\ Append(list, e)[Len(list) + 1] = e /\ Len(Append(list, e)) = Len(list) + 1
OBVIOUS

-----------------------------------------------------------------------------
(* What a step does, by kind *)

LinkedInv == TypeOK /\ LinksInv

\* An operator's action on a request, for the note that counts as its note.
Acts(d, r, t) ==
  /\ r \in Requests /\ t \in Note /\ t.request = r /\ t.status = "READY"
  /\ Of(seen[d], r) # {} => t = First(seen[d], r)
  /\ ambiguous' = ambiguous \cup {q \in {r} : Of(seen[d], q) = {}}
  /\ \/ /\ link[d] = "open"
        /\ \E action \in {"APPROVE", "REJECT"} : toServer' = [toServer EXCEPT ![d] = Append(@,
             [action |-> action, request |-> r, version |-> t.version, sock |-> sock[d]])]
        /\ \E status \in {"APPROVING", "REJECTING"} :
             notes' = [notes EXCEPT ![d] = WithStatus(@, r, status)]
     \/ /\ link[d] # "open"
        /\ notes' = [notes EXCEPT ![d] = Without(@, r)]
        /\ UNCHANGED toServer

LEMMA PerformActs ==
  ASSUME TypeOK, NEW d \in Dashboards, NEW note \in Note, NEW action \in {"APPROVE", "REJECT"},
         Perform(d, note, action)
  PROVE  \/ UNCHANGED <<notes, toServer, ambiguous>>
         \/ \E t : Acts(d, note.request, t)
<1> DEFINE t == Target(d, note)
           r == note.request
<1>1. seen[d] \in Seq(Note)
  BY DEF TypeOK
<1>2. r \in Requests
  BY DEF Note
<1>3. t \in Note /\ t.request = r /\ (Of(seen[d], r) # {} => t = First(seen[d], r))
  <2>1. CASE Of(seen[d], r) = {}
    BY <2>1 DEF Target
  <2>2. CASE Of(seen[d], r) # {}
    BY <1>1, <2>2, FirstIsOf DEF Target
  <2>3. QED
    BY <2>1, <2>2
<1>4. CASE t.status # "READY"
  BY <1>4 DEF Perform
<1>5. CASE t.status = "READY"
  <2>1. ambiguous' = ambiguous \cup {q \in {r} : Of(seen[d], q) = {}}
    <3>1. ambiguous' = ambiguous \cup {q \in {t.request} : Of(seen[d], q) = {}}
      BY <1>5 DEF Perform
    <3>2. QED
      BY <1>3, <3>1
  <2>2. CASE link[d] = "open"
    <3>1. /\ toServer' = [toServer EXCEPT ![d] = Append(@,
               [action |-> action, request |-> t.request, version |-> t.version, sock |-> sock[d]])]
          /\ notes' = [notes EXCEPT ![d] =
               WithStatus(@, t.request, IF action = "APPROVE" THEN "APPROVING" ELSE "REJECTING")]
      BY <1>5, <2>2 DEF Perform
    <3> HIDE DEF t, r
    <3>2. Acts(d, r, t)
      BY <1>2, <1>3, <1>5, <2>1, <2>2, <3>1 DEF Acts
    <3>3. QED
      BY <3>2 DEF r
  <2>3. CASE link[d] # "open"
    <3>1. notes' = [notes EXCEPT ![d] = Without(@, t.request)] /\ UNCHANGED toServer
      BY <1>5, <2>3 DEF Perform
    <3> HIDE DEF t, r
    <3>2. Acts(d, r, t)
      BY <1>2, <1>3, <1>5, <2>1, <2>3, <3>1 DEF Acts
    <3>3. QED
      BY <3>2 DEF r
  <2>4. QED
    BY <2>2, <2>3
<1>6. QED
  BY <1>4, <1>5

LEMMA LeastReady ==
  ASSUME NEW list \in Seq(Note), NEW S, S \subseteq Ready(list), S # {}
  PROVE  Least(S) \in DOMAIN list /\ list[Least(S)] \in Note
<1>1. S \subseteq DOMAIN list
  BY DEF Ready
<1>2. S \in SUBSET Nat
  BY <1>1
<1>3. IsFiniteSet(1 .. Len(list))
  <2> DEFINE n == Len(list)
  <2>1. n \in Int /\ 1 \in Int
    OBVIOUS
  <2> HIDE DEF n
  <2>2. IsFiniteSet(1 .. n)
    BY <2>1, FS_Interval
  <2>3. QED
    BY <2>2 DEF n
<1>4. IsFiniteSet(S)
  <2>1. S \in SUBSET (1 .. Len(list))
    BY <1>1
  <2>2. QED
    BY <1>3, <2>1, FS_Subset
<1>5. Least(S) \in S
  BY <1>2, <1>4, LeastIsFirst
<1>6. QED
  BY <1>1, <1>5

\* An operator's step shows the callbacks what React holds, and acts on one request or on none.
LEMMA OperatorActs ==
  ASSUME TypeOK, NEW d \in Dashboards, OperatorStep(d)
  PROVE  /\ UNCHANGED <<server, playing, link, sock, fromServer, lost, raced>>
         /\ \/ UNCHANGED <<notes, toServer, ambiguous, seen, skipped, preview>>
            \/ /\ Rendered(d)
               /\ \/ UNCHANGED preview
                  \/ \E p \in {NoNote} \cup {seen[d][i] : i \in DOMAIN seen[d]} :
                       preview' = [preview EXCEPT ![d] = p]
               /\ \/ UNCHANGED <<notes, toServer, ambiguous>>
                  \/ \E r, t : /\ Acts(d, r, t)
                               /\ \/ \E i \in DOMAIN seen[d] : seen[d][i].request = r
                                  \/ preview[d] # NoNote /\ preview[d].request = r
<1> DEFINE Shown(r) == \/ \E i \in DOMAIN seen[d] : seen[d][i].request = r
                       \/ preview[d] # NoNote /\ preview[d].request = r
           Nothing == UNCHANGED <<notes, toServer, ambiguous>>
           Something == \E r, t : Acts(d, r, t) /\ Shown(r)
           Same == UNCHANGED preview
           Opened == \E p \in {NoNote} \cup {seen[d][i] : i \in DOMAIN seen[d]} :
                       preview' = [preview EXCEPT ![d] = p]
<1>1. seen[d] \in Seq(Note)
  BY DEF TypeOK
<1>2. ASSUME NEW S, S \subseteq Ready(seen[d]), S # {}, NEW action \in {"APPROVE", "REJECT"},
             Perform(d, seen[d][Least(S)], action)
      PROVE  Nothing \/ Something
  <2> DEFINE l == Least(S)
  <2>1. l \in DOMAIN seen[d] /\ seen[d][l] \in Note
    BY <1>1, <1>2, LeastReady
  <2>2. Nothing \/ \E t : Acts(d, seen[d][l].request, t)
    BY <1>2, <2>1, PerformActs
  <2> HIDE DEF l
  <2>3. Shown(seen[d][l].request)
    BY <2>1
  <2> HIDE DEF Shown
  <2>4. QED
    BY <2>2, <2>3
<1>3. ASSUME preview[d] # NoNote, NEW action \in {"APPROVE", "REJECT"},
             Perform(d, preview[d], action)
      PROVE  Nothing \/ Something
  <2>1. preview[d] \in Note
    BY <1>3 DEF TypeOK
  <2>2. Nothing \/ \E t : Acts(d, preview[d].request, t)
    BY <1>3, <2>1, PerformActs
  <2>3. Shown(preview[d].request)
    BY <1>3
  <2> HIDE DEF Shown
  <2>4. QED
    BY <2>2, <2>3
<1> DEFINE Effect == Rendered(d) /\ Elsewhere /\ (Same \/ Opened) /\ (Nothing \/ Something)
<1> HIDE DEF Something, Shown
<1>4. CASE Lane(d)
  <2>1. Nothing \/ Something
    <3>1. Perform(d, seen[d][Least(Ready(seen[d]))], "APPROVE") /\ Ready(seen[d]) # {}
      BY <1>4 DEF Lane
    <3>2. QED
      BY <1>2, <3>1
  <2>2. Effect
    BY <1>4, <2>1 DEF Lane
  <2>3. QED
    BY <2>2 DEF Elsewhere, Something, Shown
<1>5. CASE LaneReject(d) \/ CancelSheet(d)
  <2>1. Effect
    BY <1>5 DEF LaneReject, CancelSheet
  <2>2. QED
    BY <2>1 DEF Elsewhere, Something, Shown
<1>6. CASE ConfirmSheet(d)
  <2> DEFINE mine == Of(seen[d], sheet[d]) \cap Ready(seen[d])
  <2>1. CASE mine # {} /\ Perform(d, seen[d][Least(mine)], "REJECT")
    <3>1. Nothing \/ Something
      BY <1>2, <2>1
    <3>2. Effect
      BY <1>6, <3>1 DEF ConfirmSheet
    <3>3. QED
      BY <3>2 DEF Elsewhere, Something, Shown
  <2>2. CASE Ready(seen[d]) # {} /\ Perform(d, seen[d][Least(Ready(seen[d]))], "REJECT")
    <3>1. Nothing \/ Something
      BY <1>2, <2>2
    <3>2. Effect
      BY <1>6, <3>1 DEF ConfirmSheet
    <3>3. QED
      BY <3>2 DEF Elsewhere, Something, Shown
  <2>3. CASE Nothing
    <3>1. Effect
      BY <1>6, <2>3 DEF ConfirmSheet
    <3>2. QED
      BY <3>1 DEF Elsewhere, Something, Shown
  <2>4. QED
    BY <1>6, <2>1, <2>2, <2>3 DEF ConfirmSheet
<1>7. CASE Preview(d)
  <2>1. PICK i \in DOMAIN seen[d] : preview' = [preview EXCEPT ![d] = seen[d][i]]
    BY <1>7 DEF Preview
  <2>2. Opened
    BY <2>1
  <2>3. Effect
    BY <1>7, <2>2 DEF Preview
  <2>4. QED
    BY <2>3 DEF Elsewhere, Something, Shown
<1>8. CASE ClosePreview(d) \/ ApprovePreview(d) \/ RejectPreview(d)
  <2>1. Closes(d) /\ (Nothing \/ Something)
    <3>1. CASE ApprovePreview(d)
      <4>1. Nothing \/ Something
        BY <1>3, <3>1 DEF ApprovePreview
      <4>2. QED
        BY <3>1, <4>1 DEF ApprovePreview
    <3>2. CASE ClosePreview(d) \/ RejectPreview(d)
      BY <3>2 DEF ClosePreview, RejectPreview
    <3>3. QED
      BY <1>8, <3>1, <3>2
  <2>2. Opened
    BY <2>1 DEF Closes
  <2>3. Effect
    BY <2>1, <2>2 DEF Closes
  <2>4. QED
    BY <2>3 DEF Elsewhere, Something, Shown
<1>9. CASE \E f \in fetches[d], ok \in BOOLEAN : ReviewArrives(d, f, ok)
  BY <1>9 DEF ReviewArrives, ghosts
<1>10. QED
  BY <1>4, <1>5, <1>6, <1>7, <1>8, <1>9 DEF OperatorStep

-----------------------------------------------------------------------------
(* Types *)

LEMMA FreeIdIsTyped ==
  ASSUME NEW used, NEW max \in Nat, Free(used, max) # {}
  PROVE  Least(Free(used, max)) \in 1 .. max
<1>1. Free(used, max) \in SUBSET (1 .. max)
  BY DEF Free
<1>2. 1 \in Int /\ max \in Int
  OBVIOUS
<1>3. IsFiniteSet(Free(used, max))
  BY <1>1, <1>2, FS_Interval, FS_Subset
<1>4. QED
  BY <1>1, <1>3, LeastIsFirst

LEMMA EventsAreTyped ==
  ASSUME NEW r \in Requests
  PROVE  /\ [event |-> "MERGE_SUCCESS", request |-> r] \in Event
         /\ [event |-> "MERGE_FAILED", request |-> r] \in Event
         /\ [event |-> "MERGE_SKIPPED", request |-> r] \in Event
         /\ [event |-> "AGENT_RESTARTED", request |-> r] \in Event
         /\ \A v \in Versions :
              [event |-> "AGENT_TASK_READY", request |-> r, version |-> v] \in Event
BY DEF Event

LEMMA BroadcastIsTyped ==
  ASSUME TypeOK, NEW e \in Event, Broadcast(e)
  PROVE  fromServer' \in [Dashboards -> Seq(Event)]
<1>1. \A d \in Dashboards : Append(fromServer[d], e) \in Seq(Event)
  BY AllStay DEF TypeOK
<1>2. QED
  BY <1>1 DEF Broadcast, TypeOK

LEMMA SendToIsTyped ==
  ASSUME TypeOK, NEW d \in Dashboards, NEW s, NEW e \in Event, SendTo(d, s, e)
  PROVE  fromServer' \in [Dashboards -> Seq(Event)]
<1>1. Append(fromServer[d], e) \in Seq(Event)
  BY AllStay DEF TypeOK
<1>2. QED
  BY <1>1 DEF SendTo, TypeOK

LEMMA ActsIsTyped ==
  ASSUME LinkedInv, NEW d \in Dashboards, NEW r, NEW t, Acts(d, r, t)
  PROVE  /\ toServer' \in [Dashboards -> Seq(Action)]
         /\ notes' \in [Dashboards -> Seq(Note)]
         /\ ambiguous' \subseteq Requests
<1>1. ambiguous' \subseteq Requests
  BY DEF Acts, LinkedInv, TypeOK
<1>2. notes[d] \in Seq(Note) /\ toServer[d] \in Seq(Action) /\ r \in Requests
  BY DEF Acts, LinkedInv, TypeOK
<1>3. CASE link[d] = "open"
  <2>1. PICK action \in {"APPROVE", "REJECT"} : toServer' = [toServer EXCEPT ![d] = Append(@,
             [action |-> action, request |-> r, version |-> t.version, sock |-> sock[d]])]
    BY <1>3 DEF Acts
  <2>2. PICK status \in {"APPROVING", "REJECTING"} :
             notes' = [notes EXCEPT ![d] = WithStatus(@, r, status)]
    BY <1>3 DEF Acts
  <2> DEFINE a == [action |-> action, request |-> r, version |-> t.version, sock |-> sock[d]]
  <2>3. sock[d] \in Sockets
    BY <1>3 DEF LinkedInv, TypeOK, LinksInv, Sockets
  <2>4. t.version \in Versions
    BY DEF Acts, Note
  <2>5. a \in Action
    BY <1>2, <2>3, <2>4 DEF Action
  <2>6. Append(toServer[d], a) \in Seq(Action)
    BY <1>2, <2>5, AllStay
  <2>7. WithStatus(notes[d], r, status) \in Seq(Note)
    BY <1>2, WithStatusKeepsOthers
  <2> HIDE DEF a
  <2>8. toServer' = [toServer EXCEPT ![d] = Append(toServer[d], a)]
    BY <2>1 DEF a
  <2>9. QED
    BY <1>1, <2>2, <2>6, <2>7, <2>8 DEF LinkedInv, TypeOK
<1>4. CASE link[d] # "open"
  <2>1. Without(notes[d], r) \in Seq(Note)
    BY <1>2, WithoutKeepsOthers
  <2>2. QED
    BY <1>1, <1>4, <2>1 DEF Acts, LinkedInv, TypeOK
<1>5. QED
  BY <1>3, <1>4

LEMMA TypesHoldInitially == ASSUME Init PROVE LinkedInv
<1>1. TypeOK
  <2>1. \A T : <<>> \in Seq(T)
    OBVIOUS
  <2>2. 0 \in 0 .. MaxVersions /\ 0 \in 0 .. MaxSockets
    BY BoundsAreNatural
  <2>3. /\ toServer \in [Dashboards -> Seq(Action)] /\ fromServer \in [Dashboards -> Seq(Event)]
        /\ notes \in [Dashboards -> Seq(Note)] /\ seen \in [Dashboards -> Seq(Note)]
    BY <2>1 DEF Init
  <2>4. /\ fetches \in [Dashboards -> SUBSET Fetch]
        /\ skipped \in [Dashboards -> SUBSET Requests] /\ lost \in [Dashboards -> SUBSET Requests]
    BY DEF Init
  <2>5. /\ version \in [Requests -> 0 .. MaxVersions] /\ sock \in [Dashboards -> 0 .. MaxSockets]
        /\ review \in [Dashboards -> 0 .. MaxVersions]
    BY <2>2 DEF Init
  <2>6. QED
    BY <2>3, <2>4, <2>5 DEF Init, TypeOK
<1>2. LinksInv
  BY DEF Init, LinksInv
<1>3. QED
  BY <1>1, <1>2 DEF LinkedInv

LEMMA SubmitKeepsTypes ==
  ASSUME TypeOK, NEW r \in Requests, Submit(r)
  PROVE  TypeOK'
<1>1. version[r] + 1 \in Versions /\ version' \in [Requests -> 0 .. MaxVersions]
  BY BoundsAreNatural DEF TypeOK, Submit, Versions
<1>2. fromServer' \in [Dashboards -> Seq(Event)]
  <2>1. [event |-> "AGENT_TASK_READY", request |-> r, version |-> version[r] + 1] \in Event
    BY <1>1, EventsAreTyped
  <2>2. QED
    BY <2>1, BroadcastIsTyped DEF Submit
<1>3. merges' \subseteq Merge
  <2>1. CASE merges' = merges
    BY <2>1 DEF TypeOK
  <2>2. CASE /\ Free(merges, MaxMerges) # {}
             /\ merges' = merges \cup {[id |-> Least(Free(merges, MaxMerges)), request |-> r,
                                      version |-> version[r] + 1, to |-> Everyone]}
    <3>1. Least(Free(merges, MaxMerges)) \in 1 .. MaxMerges
      BY <2>2, FreeIdIsTyped, BoundsAreNatural
    <3>2. QED
      BY <1>1, <2>2, <3>1 DEF TypeOK, Merge
  <2>3. QED
    BY <2>1, <2>2 DEF Submit
<1>4. /\ state' \in [Requests -> {"none", "ready", "approving", "merged", "rejected"}]
      /\ raced' \subseteq Requests /\ ambiguous' \subseteq Requests
  <2>1. state \in [Requests -> {"none", "ready", "approving", "merged", "rejected"}]
        /\ raced \subseteq Requests /\ ambiguous \subseteq Requests
    BY DEF TypeOK
  <2>2. state' = [state EXCEPT ![r] = "ready"] \/ state' = [state EXCEPT ![r] = "approving"]
    BY DEF Submit
  <2>3. raced' \subseteq raced \cup {r} /\ ambiguous' \subseteq ambiguous \cup {r}
    BY DEF Submit
  <2>4. QED
    BY <2>1, <2>2, <2>3
<1>5. QED
  BY <1>1, <1>2, <1>3, <1>4 DEF TypeOK, Submit, client

LEMMA HandleKeepsTypes ==
  ASSUME TypeOK, NEW d \in Dashboards, NEW i \in DOMAIN toServer[d], Handle(d, i)
  PROVE  TypeOK'
<1> DEFINE m == toServer[d][i]
<1>1. toServer[d] \in Seq(Action) /\ m \in Action
  BY DEF TypeOK
<1>2. toServer' \in [Dashboards -> Seq(Action)]
  <2> DEFINE new == Dropping(toServer[d], i)
  <2>1. new \in Seq(Action)
    BY <1>1, OthersStay
  <2>2. toServer' = [toServer EXCEPT ![d] = new]
    BY DEF Handle, Dropping
  <2> HIDE DEF new
  <2>3. QED
    BY <2>1, <2>2 DEF TypeOK
<1>3. m.request \in Requests /\ m.version \in Versions /\ m.sock \in Sockets
  BY <1>1 DEF Action
<1>4. Approve(d, m.sock, m.request, m.version) \/ Reject(d, m.sock, m.request)
  BY DEF Handle
<1> HIDE DEF m
<1>5. /\ state' \in [Requests -> {"none", "ready", "approving", "merged", "rejected"}]
      /\ decided' \in [Requests -> {None, "approve", "reject"}]
      /\ raced' \subseteq Requests
  <2>1. CASE Approve(d, m.sock, m.request, m.version)
    <3>1. \/ UNCHANGED state
          \/ state' = [state EXCEPT ![m.request] = "approving"]
      BY <2>1 DEF Approve
    <3>2. state' \in [Requests -> {"none", "ready", "approving", "merged", "rejected"}]
      BY <1>3, <3>1 DEF TypeOK
    <3>3. decided' = [decided EXCEPT ![m.request] =
                       IF decided[m.request] = None THEN "approve" ELSE decided[m.request]]
      BY <2>1 DEF Approve
    <3>4. decided' \in [Requests -> {None, "approve", "reject"}]
      BY <1>3, <3>3 DEF TypeOK
    <3>5. raced' \subseteq Requests
      BY <2>1 DEF TypeOK, Approve
    <3>6. QED
      BY <3>2, <3>4, <3>5
  <2>2. CASE Reject(d, m.sock, m.request)
    BY <1>3, <2>2 DEF TypeOK, Reject
  <2>3. QED
    BY <1>4, <2>1, <2>2
<1>6. fromServer' \in [Dashboards -> Seq(Event)]
  BY <1>3, <1>4, EventsAreTyped, SendToIsTyped DEF Approve, Reject, TypeOK
<1>7. merges' \subseteq Merge
  <2>1. CASE merges' = merges
    BY <2>1 DEF TypeOK
  <2>2. CASE /\ Free(merges, MaxMerges) # {}
             /\ merges' = merges \cup {[id |-> Least(Free(merges, MaxMerges)),
                             request |-> m.request, version |-> m.version, to |-> <<d, m.sock>>]}
    <3>1. Least(Free(merges, MaxMerges)) \in 1 .. MaxMerges
      BY <2>2, FreeIdIsTyped, BoundsAreNatural
    <3>2. QED
      BY <1>3, <2>2, <3>1 DEF TypeOK, Merge
  <2>3. QED
    BY <1>4, <2>1, <2>2 DEF Approve, Reject
<1>8. QED
  BY <1>2, <1>5, <1>6, <1>7 DEF TypeOK, Handle, client

LEMMA MergeEndsKeepsTypes ==
  ASSUME TypeOK, NEW m \in merges, NEW ok \in BOOLEAN, MergeEnds(m, ok)
  PROVE  TypeOK'
<1>1. m \in Merge
  BY DEF TypeOK
<1>2. m.request \in Requests /\ (m.to # Everyone => m.to[1] \in Dashboards)
  BY <1>1 DEF Merge
<1>3. fromServer' \in [Dashboards -> Seq(Event)]
  <2> DEFINE e == [event |-> IF ok THEN "MERGE_SUCCESS" ELSE "MERGE_FAILED", request |-> m.request]
  <2>1. e \in Event
    BY <1>2, EventsAreTyped
  <2>2. IF m.to = Everyone THEN Broadcast(e) ELSE SendTo(m.to[1], m.to[2], e)
    BY DEF MergeEnds
  <2> HIDE DEF e
  <2>3. QED
    BY <1>2, <2>1, <2>2, BroadcastIsTyped, SendToIsTyped
<1>4. /\ state' \in [Requests -> {"none", "ready", "approving", "merged", "rejected"}]
      /\ merges' \subseteq Merge
  BY <1>2 DEF TypeOK, MergeEnds
<1>5. QED
  BY <1>3, <1>4 DEF TypeOK, MergeEnds, client, ghosts

\* What a dashboard does with an event: it shows the note or has no room, removes the request's
\* notes, makes them ready again, or lets them be.
Shows(d, e, list, new) ==
  LET r == e.request IN
  \/ /\ e.event = "AGENT_TASK_READY" /\ new = list
     /\ lost' = [lost EXCEPT ![d] = @ \cup {r}]
  \/ /\ e.event = "AGENT_TASK_READY"
     /\ \E v \in Versions :
          new = Append(list, [request |-> r, version |-> v, status |-> "READY"])
     /\ lost' = [lost EXCEPT ![d] = @ \ {r}]
  \/ /\ e.event \in {"MERGE_SUCCESS", "AGENT_RESTARTED"} /\ UNCHANGED lost
     /\ new = IF Of(seen[d], r) = {} THEN list ELSE Without(list, r)
  \/ /\ e.event = "MERGE_FAILED" /\ UNCHANGED lost
     /\ new = IF Of(seen[d], r) = {} THEN list ELSE WithStatus(list, r, "READY")
  \/ e.event = "MERGE_SKIPPED" /\ UNCHANGED lost /\ new = list

LEMMA DeliverShows ==
  ASSUME TypeOK, NEW d \in Dashboards, Deliver(d)
  PROVE  \E e \in Event, new \in Seq(Note) :
           /\ e = Head(fromServer[d]) /\ e.request \in Requests
           /\ Shows(d, e, notes[d], new)
           /\ notes' = [notes EXCEPT ![d] = new]
           /\ skipped' = [skipped EXCEPT ![d] =
                (@ \cup {r \in {e.request} : e.event = "MERGE_SKIPPED"}) \cap Pending(new)]
<1> DEFINE e == Head(fromServer[d])
           list == notes[d]
           r == e.request
<1>1. fromServer[d] \in Seq(Event) /\ fromServer[d] # <<>> /\ list \in Seq(Note)
  BY DEF TypeOK, Deliver
<1>2. e \in Event
  BY <1>1, RestStays
<1> HIDE DEF e
<1>3. /\ r \in Requests
      /\ e.event = "AGENT_TASK_READY" => e.version \in Versions
  BY <1>2 DEF Event
<1>4. /\ OnEvent(d, e)
      /\ skipped' = [skipped EXCEPT ![d] =
           (@ \cup {q \in {r} : e.event = "MERGE_SKIPPED"}) \cap Pending(notes'[d])]
  BY DEF Deliver, e
<1>5. ASSUME NEW new \in Seq(Note), notes' = [notes EXCEPT ![d] = new], Shows(d, e, list, new)
      PROVE  \E new2 \in Seq(Note) :
           /\ Shows(d, e, list, new2)
           /\ notes' = [notes EXCEPT ![d] = new2]
           /\ skipped' = [skipped EXCEPT ![d] =
                (@ \cup {q \in {r} : e.event = "MERGE_SKIPPED"}) \cap Pending(new2)]
  <2>1. notes'[d] = new
    BY <1>5 DEF TypeOK
  <2>2. QED
    BY <1>4, <1>5, <2>1
<1> HIDE DEF list, r
<1>6. CASE e.event = "AGENT_TASK_READY" /\ TaskReady(d, e)
  <2> DEFINE n == [request |-> r, version |-> e.version, status |-> "READY"]
             added == Append(list, n)
  <2>1. n \in Note
    BY <1>3, <1>6 DEF Note
  <2>2. added \in Seq(Note)
    BY <1>1, <2>1, AddedIsLast
  <2>3. CASE Len(notes[d]) >= LaneLimit
    <3>1. notes' = [notes EXCEPT ![d] = list] /\ lost' = [lost EXCEPT ![d] = @ \cup {r}]
      BY <1>6, <2>3 DEF TaskReady, list, r
    <3>2. Shows(d, e, list, list)
      BY <1>6, <3>1 DEF Shows, r
    <3>3. QED
      BY <1>1, <1>2, <1>3, <1>5, <3>1, <3>2 DEF e, list, r
  <2>4. CASE ~(Len(notes[d]) >= LaneLimit)
    <3>1. notes' = [notes EXCEPT ![d] = added] /\ lost' = [lost EXCEPT ![d] = @ \ {r}]
      BY <1>6, <2>4 DEF TaskReady, list, r
    <3>2. Shows(d, e, list, added)
      BY <1>3, <1>6, <3>1 DEF Shows, r
    <3> HIDE DEF added
    <3>3. QED
      BY <2>2, <1>2, <1>3, <1>5, <3>1, <3>2 DEF e, list, r
  <2>5. QED
    BY <2>3, <2>4
<1>7. CASE e.event \in {"MERGE_SUCCESS", "AGENT_RESTARTED"} /\ Removes(d, r) /\ UNCHANGED lost
  <2> DEFINE new == IF Of(seen[d], r) = {} THEN list ELSE Without(list, r)
  <2>1. new \in Seq(Note)
    BY <1>1, WithoutKeepsOthers
  <2>2. notes' = [notes EXCEPT ![d] = new]
    BY <1>7 DEF Removes, list
  <2>3. Shows(d, e, list, new)
    BY <1>7 DEF Shows, r
  <2> HIDE DEF new
  <2>4. QED
    BY <1>2, <1>3, <1>5, <2>1, <2>2, <2>3 DEF e, list, r
<1>8. CASE e.event = "MERGE_FAILED" /\ MergeFailed(d, r) /\ UNCHANGED lost
  <2> DEFINE new == IF Of(seen[d], r) = {} THEN list ELSE WithStatus(list, r, "READY")
  <2>1. new \in Seq(Note)
    BY <1>1, <1>3, WithStatusKeepsOthers
  <2>2. notes' = [notes EXCEPT ![d] = new]
    BY <1>8 DEF MergeFailed, list
  <2>3. Shows(d, e, list, new)
    BY <1>8 DEF Shows, r
  <2> HIDE DEF new
  <2>4. QED
    BY <1>2, <1>3, <1>5, <2>1, <2>2, <2>3 DEF e, list, r
<1>9. CASE e.event = "MERGE_SKIPPED" /\ UNCHANGED <<notes, lost>>
  <2>1. notes' = [notes EXCEPT ![d] = list]
    BY <1>9 DEF list, TypeOK
  <2>2. Shows(d, e, list, list)
    BY <1>9 DEF Shows
  <2>3. QED
    BY <1>1, <1>2, <1>3, <1>5, <2>1, <2>2 DEF e, list, r
<1>10. QED
  BY <1>4, <1>6, <1>7, <1>8, <1>9 DEF OnEvent, r

LEMMA SocketKeepsTypes ==
  ASSUME TypeOK, NEW d \in Dashboards, SocketStep(d)
  PROVE  TypeOK'
<1>1. CASE Start(d)
  <2>1. sock' \in [Dashboards -> 0 .. MaxSockets]
    BY <1>1, BoundsAreNatural DEF TypeOK, Start
  <2>2. /\ notes' \in [Dashboards -> Seq(Note)] /\ seen' \in [Dashboards -> Seq(Note)]
        /\ skipped' \in [Dashboards -> SUBSET Requests]
        /\ playing' \in [Dashboards -> BOOLEAN] /\ link' \in [Dashboards -> {"off", "connecting", "open"}]
    BY <1>1 DEF TypeOK, Start
  <2>3. QED
    BY <1>1, <2>1, <2>2 DEF TypeOK, Start, server
<1>2. CASE Opens(d)
  BY <1>2 DEF TypeOK, Opens, server
<1>3. CASE Drops(d)
  <2>1. PICK k \in 0 .. Len(toServer[d]) : toServer' = [toServer EXCEPT ![d] = SubSeq(@, 1, k)]
    BY <1>3 DEF Drops
  <2>2. SubSeq(toServer[d], 1, k) \in Seq(Action)
    BY FrontStays DEF TypeOK
  <2>3. /\ toServer' \in [Dashboards -> Seq(Action)] /\ fromServer' \in [Dashboards -> Seq(Event)]
        /\ link' \in [Dashboards -> {"off", "connecting", "open"}]
    BY <1>3, <2>1, <2>2 DEF TypeOK, Drops
  <2>4. QED
    BY <1>3, <2>3 DEF TypeOK, Drops, server, ghosts
<1>4. CASE Stop(d)
  <2>1. /\ notes' \in [Dashboards -> Seq(Note)] /\ seen' \in [Dashboards -> Seq(Note)]
        /\ fromServer' \in [Dashboards -> Seq(Event)]
        /\ skipped' \in [Dashboards -> SUBSET Requests]
        /\ playing' \in [Dashboards -> BOOLEAN] /\ link' \in [Dashboards -> {"off", "connecting", "open"}]
    BY <1>4 DEF TypeOK, Stop
  <2>2. QED
    BY <1>4, <2>1 DEF TypeOK, Stop, server
<1>5. CASE Deliver(d)
  <2>1. PICK e \in Event, new \in Seq(Note) :
           /\ e = Head(fromServer[d]) /\ e.request \in Requests
           /\ Shows(d, e, notes[d], new)
           /\ notes' = [notes EXCEPT ![d] = new]
           /\ skipped' = [skipped EXCEPT ![d] =
                (@ \cup {r \in {e.request} : e.event = "MERGE_SKIPPED"}) \cap Pending(new)]
    BY <1>5, DeliverShows
  <2>2. Tail(fromServer[d]) \in Seq(Event)
    BY <1>5, RestStays DEF TypeOK, Deliver
  <2>3. /\ notes' \in [Dashboards -> Seq(Note)] /\ fromServer' \in [Dashboards -> Seq(Event)]
        /\ skipped' \in [Dashboards -> SUBSET Requests]
    BY <1>5, <2>1, <2>2 DEF TypeOK, Deliver
  <2>4. lost' \in [Dashboards -> SUBSET Requests]
    BY <2>1 DEF TypeOK, Shows
  <2>5. QED
    BY <1>5, <2>3, <2>4 DEF TypeOK, Deliver, server
<1>6. CASE Render(d)
  BY <1>6 DEF TypeOK, Render, server, ghosts
<1>7. QED
  BY <1>1, <1>2, <1>3, <1>4, <1>5, <1>6 DEF SocketStep

LEMMA OperatorKeepsTypes ==
  ASSUME LinkedInv, NEW d \in Dashboards, OperatorStep(d)
  PROVE  TypeOK'
<1>1. TypeOK
  BY DEF LinkedInv
<1>2. /\ UNCHANGED <<server, playing, link, sock, fromServer, lost, raced>>
      /\ \/ UNCHANGED <<notes, toServer, ambiguous, seen, skipped, preview>>
         \/ /\ Rendered(d)
            /\ \/ UNCHANGED preview
               \/ \E p \in {NoNote} \cup {seen[d][i] : i \in DOMAIN seen[d]} :
                    preview' = [preview EXCEPT ![d] = p]
            /\ \/ UNCHANGED <<notes, toServer, ambiguous>>
               \/ \E r, t : Acts(d, r, t)
  BY <1>1, OperatorActs
<1>3. /\ toServer' \in [Dashboards -> Seq(Action)] /\ notes' \in [Dashboards -> Seq(Note)]
      /\ ambiguous' \subseteq Requests
  <2>1. CASE UNCHANGED <<notes, toServer, ambiguous>>
    BY <1>1, <2>1 DEF TypeOK
  <2>2. CASE \E r, t : Acts(d, r, t)
    BY <2>2, ActsIsTyped
  <2>3. QED
    BY <1>2, <2>1, <2>2
<1>4. preview' \in [Dashboards -> Note \cup {NoNote}]
  <2>1. \A i \in DOMAIN seen[d] : seen[d][i] \in Note
    BY <1>1 DEF TypeOK
  <2>2. CASE UNCHANGED preview
    BY <1>1, <2>2 DEF TypeOK
  <2>3. ASSUME NEW p \in {NoNote} \cup {seen[d][i] : i \in DOMAIN seen[d]},
               preview' = [preview EXCEPT ![d] = p]
        PROVE  preview' \in [Dashboards -> Note \cup {NoNote}]
    <3>1. p \in Note \cup {NoNote}
      BY <2>1
    <3>2. QED
      BY <1>1, <2>3, <3>1 DEF TypeOK
  <2>4. QED
    BY <1>2, <2>2, <2>3
<1>5. seen' \in [Dashboards -> Seq(Note)] /\ skipped' \in [Dashboards -> SUBSET Requests]
  <2>1. CASE UNCHANGED <<seen, skipped>>
    BY <1>1, <2>1 DEF TypeOK
  <2>2. CASE Rendered(d)
    BY <1>1, <1>3, <2>2 DEF TypeOK, Rendered
  <2>3. QED
    BY <1>2, <2>1, <2>2
<1>6. /\ sheet' \in [Dashboards -> Requests \cup {None}]
      /\ fetches' \in [Dashboards -> SUBSET Fetch]
      /\ review' \in [Dashboards -> 0 .. MaxVersions]
  <2> DEFINE Goal == /\ sheet' \in [Dashboards -> Requests \cup {None}]
                     /\ fetches' \in [Dashboards -> SUBSET Fetch]
                     /\ review' \in [Dashboards -> 0 .. MaxVersions]
  <2>1. \A note \in Note : Target(d, note) \in Note
    BY <1>1, FirstIsOf DEF TypeOK, Target
  <2>2. \A note \in Note : AsksWhy(d, note) => sheet' \in [Dashboards -> Requests \cup {None}]
    <3> TAKE note \in Note
    <3>1. Target(d, note).request \in Requests
      BY <2>1 DEF Note
    <3>2. QED
      BY <1>1, <3>1 DEF AsksWhy, TypeOK
  <2>3. CASE UNCHANGED <<sheet, fetches, review>>
    BY <1>1, <2>3 DEF TypeOK
  <2>4. CASE LaneReject(d)
    <3>1. seen[d][Least(Ready(seen[d]))] \in Note
      BY <1>1, <2>4, LeastReady DEF TypeOK, LaneReject
    <3>2. AsksWhy(d, seen[d][Least(Ready(seen[d]))]) /\ UNCHANGED <<fetches, review>>
      BY <2>4 DEF LaneReject
    <3>3. QED
      BY <1>1, <2>2, <3>1, <3>2 DEF TypeOK
  <2>5. CASE UNCHANGED <<fetches, review>> /\ sheet' = [sheet EXCEPT ![d] = None]
    BY <1>1, <2>5 DEF TypeOK
  <2>6. CASE Preview(d)
    <3>1. PICK i \in DOMAIN seen[d] : fetches' = [fetches EXCEPT ![d] = @ \cup
            {[id |-> Least(Free(@, MaxFetches)), request |-> seen[d][i].request, answer |-> 0]}]
      BY <2>6 DEF Preview
    <3>2. Least(Free(fetches[d], MaxFetches)) \in 1 .. MaxFetches
      BY <2>6, FreeIdIsTyped, BoundsAreNatural DEF Preview
    <3>3. seen[d][i] \in Note
      BY <1>1 DEF TypeOK
    <3>4. [id |-> Least(Free(fetches[d], MaxFetches)), request |-> seen[d][i].request, answer |-> 0]
            \in Fetch
      BY <3>2, <3>3, BoundsAreNatural DEF Note, Fetch
    <3>5. fetches' \in [Dashboards -> SUBSET Fetch]
      BY <1>1, <3>1, <3>4 DEF TypeOK
    <3>6. QED
      BY <1>1, <2>6, <3>5 DEF TypeOK, Preview
  <2>7. CASE Closes(d) /\ (UNCHANGED sheet \/ AsksWhy(d, preview[d]))
    <3>1. preview[d] \in Note
      BY <1>1, <2>7 DEF TypeOK, Closes
    <3>2. review' \in [Dashboards -> 0 .. MaxVersions]
      BY <1>1, <2>7, BoundsAreNatural DEF TypeOK, Closes
    <3>3. QED
      BY <1>1, <2>2, <2>7, <3>1, <3>2 DEF TypeOK, Closes
  <2>8. ASSUME NEW f \in fetches[d], NEW ok \in BOOLEAN, ReviewArrives(d, f, ok)
        PROVE  Goal
    <3>1. f \in Fetch
      BY <1>1 DEF TypeOK
    <3>2. review' \in [Dashboards -> 0 .. MaxVersions]
      BY <1>1, <2>8, <3>1 DEF TypeOK, ReviewArrives, Fetch
    <3>3. fetches' \in [Dashboards -> SUBSET Fetch]
      BY <1>1, <2>8 DEF TypeOK, ReviewArrives
    <3>4. QED
      BY <1>1, <2>8, <3>2, <3>3 DEF TypeOK, ReviewArrives
  <2>9. QED
    BY <2>3, <2>4, <2>5, <2>6, <2>7, <2>8
       DEF OperatorStep, Lane, ConfirmSheet, CancelSheet, ClosePreview, ApprovePreview,
           RejectPreview
<1>7. /\ state' = state /\ decided' = decided /\ version' = version /\ merges' = merges
      /\ playing' = playing /\ link' = link /\ sock' = sock /\ fromServer' = fromServer
      /\ lost' = lost /\ raced' = raced
  BY <1>2 DEF server
<1>8. QED
  BY <1>1, <1>3, <1>4, <1>5, <1>6, <1>7 DEF TypeOK

\* What is sent reaches open sockets only.
LEMMA OnlyOpenReceive ==
  ASSUME TypeOK, NEW e,
         \/ Broadcast(e)
         \/ \E d, s : d \in Dashboards /\ SendTo(d, s, e)
         \/ UNCHANGED fromServer
  PROVE  \A c \in Dashboards : link[c] # "open" => fromServer'[c] = fromServer[c]
BY DEF TypeOK, Broadcast, SendTo

\* Each step of the server: some requests' states, merges and queues change, no dashboard does.
LEMMA ServerSends ==
  ASSUME TypeOK, ServerStep
  PROVE  /\ UNCHANGED <<playing, link, sock, notes, seen, preview>>
         /\ \A c \in Dashboards : link[c] # "open" => fromServer'[c] = fromServer[c]
<1>1. ASSUME NEW r \in Requests, Submit(r)
      PROVE  /\ UNCHANGED <<playing, link, sock, notes, seen, preview>>
             /\ \A c \in Dashboards : link[c] # "open" => fromServer'[c] = fromServer[c]
  BY <1>1, OnlyOpenReceive DEF Submit, client
<1>2. ASSUME NEW d \in Dashboards, NEW i \in DOMAIN toServer[d], Handle(d, i)
      PROVE  /\ UNCHANGED <<playing, link, sock, notes, seen, preview>>
             /\ \A c \in Dashboards : link[c] # "open" => fromServer'[c] = fromServer[c]
  <2>1. \/ \E s, e : SendTo(d, s, e)
        \/ UNCHANGED fromServer
    BY <1>2 DEF Handle, Approve, Reject
  <2>2. QED
    BY <1>2, <2>1, OnlyOpenReceive DEF Handle, client
<1>3. ASSUME NEW m \in merges, NEW ok \in BOOLEAN, MergeEnds(m, ok)
      PROVE  /\ UNCHANGED <<playing, link, sock, notes, seen, preview>>
             /\ \A c \in Dashboards : link[c] # "open" => fromServer'[c] = fromServer[c]
  <2>1. m.to # Everyone => m.to[1] \in Dashboards
    BY DEF TypeOK, Merge
  <2>2. \E e : IF m.to = Everyone THEN Broadcast(e) ELSE SendTo(m.to[1], m.to[2], e)
    BY <1>3 DEF MergeEnds
  <2>3. QED
    BY <1>3, <2>1, <2>2, OnlyOpenReceive DEF MergeEnds, client
<1>4. ASSUME NEW d \in Dashboards, NEW f \in fetches[d], BuildReview(d, f)
      PROVE  /\ UNCHANGED <<playing, link, sock, notes, seen, preview>>
             /\ \A c \in Dashboards : link[c] # "open" => fromServer'[c] = fromServer[c]
  BY <1>4 DEF BuildReview
<1>5. QED
  BY <1>1, <1>2, <1>3, <1>4 DEF ServerStep

LEMMA LinkedIsInductive ==
  ASSUME LinkedInv, [Next]_vars
  PROVE  LinkedInv'
<1> USE DEF LinkedInv
<1>1. CASE ServerStep
  <2>1. TypeOK'
    <3>1. ASSUME NEW d \in Dashboards, NEW f \in fetches[d], BuildReview(d, f)
          PROVE  TypeOK'
      <4>1. f \in Fetch
        BY DEF TypeOK
      <4>2. version[f.request] \in 0 .. MaxVersions
        BY <4>1 DEF TypeOK, Fetch
      <4>3. [f EXCEPT !.answer = version[f.request]] \in Fetch
        BY <4>1, <4>2 DEF Fetch
      <4>4. fetches' \in [Dashboards -> SUBSET Fetch]
        BY <3>1, <4>3 DEF TypeOK, BuildReview
      <4>5. QED
        BY <3>1, <4>4 DEF TypeOK, BuildReview, server, ghosts
    <3>2. QED
      BY <1>1, <3>1, SubmitKeepsTypes, HandleKeepsTypes, MergeEndsKeepsTypes DEF ServerStep
  <2>2. LinksInv'
    BY <1>1, ServerSends DEF LinksInv
  <2>3. QED
    BY <2>1, <2>2
<1>2. ASSUME NEW d \in Dashboards, SocketStep(d)
      PROVE  LinkedInv'
  <2>1. TypeOK'
    BY <1>2, SocketKeepsTypes
  <2>2. CASE Start(d)
    BY <2>1, <2>2 DEF TypeOK, LinksInv, Start
  <2>3. CASE Opens(d)
    BY <2>1, <2>3 DEF TypeOK, LinksInv, Opens
  <2>4. CASE Drops(d)
    BY <2>1, <2>4 DEF TypeOK, LinksInv, Drops
  <2>5. CASE Stop(d)
    BY <2>1, <2>5 DEF TypeOK, LinksInv, Stop
  <2>6. CASE Deliver(d)
    <3>1. PICK new : notes' = [notes EXCEPT ![d] = new]
      BY <2>6, DeliverShows
    <3>2. QED
      BY <2>1, <2>6, <3>1 DEF TypeOK, LinksInv, Deliver
  <2>7. CASE Render(d)
    BY <2>1, <2>7 DEF TypeOK, LinksInv, Render
  <2>8. QED
    BY <1>2, <2>2, <2>3, <2>4, <2>5, <2>6, <2>7 DEF SocketStep
<1>3. ASSUME NEW d \in Dashboards, OperatorStep(d)
      PROVE  LinkedInv'
  <2>1. TypeOK'
    BY <1>3, OperatorKeepsTypes
  <2>2. /\ UNCHANGED <<playing, link, sock, fromServer>>
        /\ \/ UNCHANGED <<notes, seen>>
           \/ /\ Rendered(d)
              /\ UNCHANGED notes \/ \E r, t : Acts(d, r, t)
    BY <1>3, OperatorActs
  <2>3. /\ \A c \in Dashboards \ {d} : notes'[c] = notes[c] /\ seen'[c] = seen[c]
        /\ link[d] = "connecting" => notes'[d] = <<>> /\ seen'[d] = <<>>
    <3>1. CASE UNCHANGED <<notes, seen>>
      BY <3>1 DEF LinksInv
    <3>2. CASE Rendered(d) /\ UNCHANGED notes
      BY <3>2 DEF LinksInv, Rendered, TypeOK
    <3>3. ASSUME NEW r, NEW t, Rendered(d), Acts(d, r, t)
          PROVE  /\ \A c \in Dashboards \ {d} : notes'[c] = notes[c] /\ seen'[c] = seen[c]
                 /\ link[d] = "connecting" => notes'[d] = <<>> /\ seen'[d] = <<>>
      <4>1. \A c \in Dashboards \ {d} : notes'[c] = notes[c] /\ seen'[c] = seen[c]
        BY <3>3 DEF Acts, Rendered, TypeOK
      <4>2. ASSUME link[d] = "connecting"
            PROVE  notes'[d] = <<>> /\ seen'[d] = <<>>
        <5>1. notes'[d] = Without(notes[d], r) /\ notes[d] = <<>>
          BY <3>3, <4>2 DEF Acts, TypeOK, LinksInv
        <5>2. notes'[d] = <<>>
          BY <5>1, NothingWithout
        <5>3. QED
          BY <3>3, <5>2 DEF Rendered, TypeOK
      <4>3. QED
        BY <4>1, <4>2
    <3>4. QED
      BY <2>2, <3>1, <3>2, <3>3
  <2>4. LinksInv'
    BY <2>2, <2>3 DEF LinksInv
  <2>5. QED
    BY <2>1, <2>4
<1>4. CASE UNCHANGED vars
  BY <1>4 DEF vars, server, client, ghosts, TypeOK, LinksInv
<1>5. QED
  BY <1>1, <1>2, <1>3, <1>4 DEF Next

\* What holds in every state as to types, sockets and the notes of a new one.
THEOREM DashboardLinksInvariant == Spec => []LinkedInv
<1>1. Init => LinkedInv
  BY TypesHoldInitially
<1>2. LinkedInv /\ [Next]_vars => LinkedInv'
  BY LinkedIsInductive
<1>3. QED
  BY <1>1, <1>2, PTL DEF Spec

\* Types hold in every state of every instance: no event and no action has a request, a version
\* or a socket that is not one, and no list of notes anything but notes.
THEOREM DashboardTypeCorrect == Spec => []TypeOK
<1>1. LinkedInv => TypeOK
  BY DEF LinkedInv
<1>2. QED
  BY <1>1, DashboardLinksInvariant, PTL

-----------------------------------------------------------------------------
(* Actions, merges and answers of one dashboard on one request *)

KeepsSize(A, B) == (B # {} <=> A # {}) /\ (AtMostOne(A) => AtMostOne(B))
AddsTo(A, B) == B # {} /\ (A = {} => AtMostOne(B))
Keeps(c, r) ==
  /\ KeepsSize(Sends(c, r), Sends(c, r)')
  /\ KeepsSize(Runs(c, r), Runs(c, r)')
  /\ KeepsSize(Answers(c, r), Answers(c, r)')

LEMMA SameKeepsSize == ASSUME NEW A PROVE KeepsSize(A, A)
BY DEF KeepsSize

\* When the element at i goes, the places of others change, not how many they are.
LEMMA OneGoes ==
  ASSUME NEW i \in Int, NEW A \in SUBSET Int, NEW B \in SUBSET Int,
         \A j \in B : (IF j < i THEN j ELSE j + 1) \in A,
         \A j \in A : (j < i => j \in B) /\ (j > i => j - 1 \in B)
  PROVE  /\ B # {} <=> A \ {i} # {}
         /\ AtMostOne(A \ {i}) => AtMostOne(B)
         /\ i \notin A => KeepsSize(A, B)
<1> DEFINE old(j) == IF j < i THEN j ELSE j + 1
<1>1. ASSUME NEW j \in B
      PROVE  old(j) \in A \ {i}
  <2>1. j \in Int
    OBVIOUS
  <2>2. old(j) # i
    BY <2>1
  <2>3. QED
    BY <2>2
<1>2. ASSUME NEW j \in A \ {i}
      PROVE  B # {}
  <2>1. j \in Int /\ (j < i \/ j > i)
    OBVIOUS
  <2>2. QED
    BY <2>1
<1>3. ASSUME AtMostOne(A \ {i}), NEW x \in B, NEW y \in B
      PROVE  x = y
  <2>1. old(x) = old(y)
    BY <1>1, <1>3 DEF AtMostOne
  <2>2. x \in Int /\ y \in Int
    OBVIOUS
  <2>3. QED
    BY <2>1, <2>2
<1>4. B # {} <=> A \ {i} # {}
  BY <1>1, <1>2
<1>5. AtMostOne(A \ {i}) => AtMostOne(B)
  BY <1>3 DEF AtMostOne
<1>6. i \notin A => A \ {i} = A
  OBVIOUS
<1>7. QED
  BY <1>4, <1>5, <1>6 DEF KeepsSize

\* An event that is sent is an answer on its request, unless it announces a submission.
LEMMA AnswersGrow ==
  ASSUME TypeOK, NEW c \in Dashboards, NEW r, NEW e \in Event,
         fromServer'[c] = Append(fromServer[c], e)
  PROVE  /\ e.request # r \/ e.event = "AGENT_TASK_READY" => Answers(c, r)' = Answers(c, r)
         /\ e.request = r /\ e.event # "AGENT_TASK_READY" => AddsTo(Answers(c, r), Answers(c, r)')
<1> DEFINE list == fromServer[c]
           n == Len(list)
           new == fromServer'[c]
           A == {j \in DOMAIN list : list[j].request = r /\ list[j].event # "AGENT_TASK_READY"}
           B == {j \in DOMAIN new : new[j].request = r /\ new[j].event # "AGENT_TASK_READY"}
<1>1. Answers(c, r) = A /\ Answers(c, r)' = B
  BY DEF Answers, Of
<1>2. list \in Seq(Event)
  BY DEF TypeOK
<1>3. /\ n \in Nat /\ DOMAIN list = 1 .. n /\ DOMAIN new = 1 .. n + 1
      /\ \A i \in DOMAIN list : new[i] = list[i]
      /\ new[n + 1] = e
  BY <1>2, AllStay
<1> HIDE DEF list, n, new
<1>4. CASE e.request # r \/ e.event = "AGENT_TASK_READY"
  <2>1. n + 1 \notin B
    BY <1>3, <1>4
  <2>2. A = B
    BY <1>3, <2>1
  <2>3. QED
    BY <1>1, <1>4, <2>2
<1>5. CASE e.request = r /\ e.event # "AGENT_TASK_READY"
  <2>1. n + 1 \in B
    BY <1>3, <1>5
  <2>2. A = {} => \A j \in B : j = n + 1
    BY <1>3
  <2>3. AddsTo(A, B)
    BY <2>1, <2>2 DEF AddsTo, AtMostOne
  <2>4. QED
    BY <1>1, <1>5, <2>3
<1>6. QED
  BY <1>4, <1>5

\* Who is told: everyone who is connected, or one socket.
LEMMA BroadcastReaches ==
  ASSUME TypeOK, NEW e, Broadcast(e), NEW c \in Dashboards
  PROVE  fromServer'[c] = IF link[c] = "open" THEN Append(fromServer[c], e) ELSE fromServer[c]
BY DEF TypeOK, Broadcast

LEMMA SendToReaches ==
  ASSUME TypeOK, NEW d \in Dashboards, NEW s, NEW e, SendTo(d, s, e), NEW c \in Dashboards
  PROVE  fromServer'[c] = IF c = d /\ link[c] = "open" /\ sock[c] = s
                          THEN Append(fromServer[c], e) ELSE fromServer[c]
BY DEF TypeOK, SendTo

\* A submission is no answer, and a merge by the policy is not of any socket.
LEMMA SubmitKeeps ==
  ASSUME TypeOK, NEW q \in Requests, Submit(q), NEW c \in Dashboards, NEW r, sock[c] # 0
  PROVE  Sends(c, r)' = Sends(c, r) /\ Runs(c, r)' = Runs(c, r) /\ Answers(c, r)' = Answers(c, r)
<1>1. Sends(c, r)' = Sends(c, r)
  BY DEF Submit, client, Sends, Of
<1>2. Runs(c, r)' = Runs(c, r)
  <2>1. sock'[c] = sock[c] /\ Everyone # <<c, sock[c]>>
    BY DEF Submit, client, Everyone
  <2>2. \A m \in merges' : m \in merges \/ m.to = Everyone
    BY DEF Submit
  <2>3. merges \subseteq merges'
    BY DEF Submit
  <2>4. QED
    BY <2>1, <2>2, <2>3 DEF Runs
<1>3. Answers(c, r)' = Answers(c, r)
  <2> DEFINE e == [event |-> "AGENT_TASK_READY", request |-> q, version |-> version[q] + 1]
  <2>1. e \in Event
    <3>1. version[q] + 1 \in Versions
      BY BoundsAreNatural DEF TypeOK, Submit, Versions
    <3>2. QED
      BY <3>1, EventsAreTyped
  <2>2. e.event = "AGENT_TASK_READY" /\ Broadcast(e)
    BY DEF Submit
  <2> HIDE DEF e
  <2>3. CASE link[c] = "open"
    <3>1. fromServer'[c] = Append(fromServer[c], e)
      BY <2>2, <2>3, BroadcastReaches
    <3>2. QED
      BY <2>1, <2>2, <3>1, AnswersGrow
  <2>4. CASE link[c] # "open"
    <3>1. fromServer'[c] = fromServer[c]
      BY <2>2, <2>4, BroadcastReaches
    <3>2. QED
      BY <3>1 DEF Answers, Of
  <2>5. QED
    BY <2>3, <2>4
<1>4. QED
  BY <1>1, <1>2, <1>3

\* The queue of actions without one of them.
SentOn(list, r, s) == {j \in DOMAIN list : list[j].request = r /\ list[j].sock = s}

LEMMA ActionGoes ==
  ASSUME NEW list \in Seq(Action), NEW i \in DOMAIN list, NEW r, NEW s
  PROVE  /\ SentOn(Dropping(list, i), r, s) # {} <=> SentOn(list, r, s) \ {i} # {}
         /\ AtMostOne(SentOn(list, r, s) \ {i}) => AtMostOne(SentOn(Dropping(list, i), r, s))
         /\ i \notin SentOn(list, r, s) =>
              KeepsSize(SentOn(list, r, s), SentOn(Dropping(list, i), r, s))
<1> DEFINE new == Dropping(list, i)
           A == SentOn(list, r, s)
           B == SentOn(new, r, s)
<1>a. /\ A \subseteq DOMAIN list
      /\ \A j \in DOMAIN list : j \in A <=> list[j].request = r /\ list[j].sock = s
      /\ B \subseteq DOMAIN new
      /\ \A j \in DOMAIN new : j \in B <=> new[j].request = r /\ new[j].sock = s
  BY DEF SentOn
<1> HIDE DEF new, A, B
<1>1. /\ new \in Seq(Action) /\ DOMAIN new = 1 .. Len(list) - 1
      /\ \A j \in DOMAIN new : new[j] = list[IF j < i THEN j ELSE j + 1]
      /\ \A j \in DOMAIN list : j < i => j \in DOMAIN new /\ new[j] = list[j]
      /\ \A j \in DOMAIN list : j > i => j - 1 \in DOMAIN new /\ new[j - 1] = list[j]
  BY OthersStay DEF new
<1>2. DOMAIN list = 1 .. Len(list) /\ Len(list) \in Nat
  OBVIOUS
<1>3. \A j \in DOMAIN new : (IF j < i THEN j ELSE j + 1) \in DOMAIN list
  BY <1>1, <1>2
<1>4. \A j \in B : (IF j < i THEN j ELSE j + 1) \in A
  <2> TAKE j \in B
  <2> DEFINE k == IF j < i THEN j ELSE j + 1
  <2>1. j \in DOMAIN new
    BY <1>a
  <2>2. k \in DOMAIN list /\ new[j] = list[k]
    BY <1>1, <1>3, <2>1
  <2> HIDE DEF k
  <2>3. list[k].request = r /\ list[k].sock = s
    BY <1>a, <2>1, <2>2
  <2>4. k \in A
    BY <1>a, <2>2, <2>3
  <2>5. QED
    BY <2>4 DEF k
<1>5. \A j \in A : (j < i => j \in B) /\ (j > i => j - 1 \in B)
  BY <1>1, <1>a
<1>6. i \in Int /\ A \in SUBSET Int /\ B \in SUBSET Int
  BY <1>1, <1>2, <1>a
<1>7. QED
  BY <1>4, <1>5, <1>6, OneGoes DEF new, A, B

\* An action the server handles is replaced by git or by an answer, if it is of the socket there
\* is now; others change nothing for that socket.
LEMMA HandleMoves ==
  ASSUME TypeOK, NEW d \in Dashboards, NEW i \in DOMAIN toServer[d], Handle(d, i),
         NEW c \in Dashboards, NEW r,
         NEW own, own = (c = d /\ toServer[d][i].request = r /\ toServer[d][i].sock = sock[d])
  PROVE  /\ ~own => Keeps(c, r)
         /\ own => /\ i \in Sends(c, r)
                   /\ AtMostOne(Sends(c, r)) => Sends(c, r)' = {}
                   /\ Sends(c, r) \ {i} # {} => Sends(c, r)' # {}
                   /\ \/ /\ AddsTo(Runs(c, r), Runs(c, r)')
                         /\ KeepsSize(Answers(c, r), Answers(c, r)')
                      \/ /\ link[c] = "open" => AddsTo(Answers(c, r), Answers(c, r)')
                         /\ KeepsSize(Runs(c, r), Runs(c, r)')
<1> DEFINE m == toServer[d][i]
           list == toServer[c]
           new == toServer'[c]
           A == {j \in DOMAIN list : list[j].request = r /\ list[j].sock = sock[c]}
           B == {j \in DOMAIN new : new[j].request = r /\ new[j].sock = sock[c]}
<1>1. toServer[d] \in Seq(Action) /\ m \in Action
  BY DEF TypeOK
<1>2. m.request \in Requests
  BY <1>1 DEF Action
<1>3. Sends(c, r) = A /\ Sends(c, r)' = B
  BY DEF Sends, Of, Handle, client
<1>4. Approve(d, m.sock, m.request, m.version) \/ Reject(d, m.sock, m.request)
  BY DEF Handle
<1>5. UNCHANGED sock
  BY DEF Handle, client
<1>6. /\ c # d => A = B
      /\ c = d => /\ B # {} <=> A \ {i} # {}
                  /\ AtMostOne(A \ {i}) => AtMostOne(B)
                  /\ i \notin A => KeepsSize(A, B)
  <2>1. toServer' = [toServer EXCEPT ![d] = Dropping(@, i)]
    BY DEF Handle, Dropping
  <2>2. CASE c # d
    <3>1. new = list
      BY <2>1, <2>2 DEF TypeOK
    <3>2. QED
      BY <2>2, <3>1
  <2>3. CASE c = d
    <3>1. new = Dropping(list, i)
      BY <2>1, <2>3 DEF TypeOK
    <3>2. list \in Seq(Action) /\ i \in DOMAIN list
      BY <1>1, <2>3
    <3>3. A = SentOn(list, r, sock[c]) /\ B = SentOn(Dropping(list, i), r, sock[c])
      BY <3>1 DEF SentOn
    <3> HIDE DEF A, B, list, new, m
    <3>4. QED
      BY <2>3, <3>2, <3>3, ActionGoes
  <2>4. QED
    BY <2>2, <2>3
<1>7. i \in A <=> own \/ (c # d /\ i \in A)
  BY <1>1 DEF TypeOK
<1>8. own => i \in A
  BY DEF TypeOK
<1> HIDE DEF A, B, list, new
<1>9. ~own => KeepsSize(A, B)
  BY <1>6, <1>7, SameKeepsSize
<1>10. own => /\ AtMostOne(A) => B = {}
              /\ A \ {i} # {} => B # {}
  <2>1. own => c = d
    OBVIOUS
  <2>2. i \in A /\ AtMostOne(A) => A \ {i} = {}
    BY DEF AtMostOne
  <2>3. QED
    BY <1>6, <1>8, <2>1, <2>2
<1>11. \/ /\ UNCHANGED merges
          /\ \E e \in Event : e.request = m.request /\ e.event # "AGENT_TASK_READY"
                              /\ SendTo(d, m.sock, e)
       \/ /\ UNCHANGED fromServer
          /\ \E id, v : merges' = merges \cup
               {[id |-> id, request |-> m.request, version |-> v, to |-> <<d, m.sock>>]}
  <2>1. CASE Skips(m.request) /\ Approve(d, m.sock, m.request, m.version) /\ UNCHANGED merges
    <3>1. SendTo(d, m.sock, [event |-> "MERGE_SKIPPED", request |-> m.request])
      BY <2>1 DEF Approve
    <3>2. QED
      BY <1>2, <2>1, <3>1, EventsAreTyped
  <2>2. CASE Reject(d, m.sock, m.request)
    BY <1>2, <2>2, EventsAreTyped DEF Reject
  <2>3. CASE ~Skips(m.request) /\ Approve(d, m.sock, m.request, m.version)
    BY <2>3 DEF Approve
  <2>4. QED
    BY <1>4, <2>1, <2>2, <2>3 DEF Approve
<1> HIDE DEF m
<1>12. CASE /\ UNCHANGED merges
            /\ \E e \in Event : e.request = m.request /\ e.event # "AGENT_TASK_READY"
                                /\ SendTo(d, m.sock, e)
  <2>1. PICK e \in Event : e.request = m.request /\ e.event # "AGENT_TASK_READY"
                           /\ SendTo(d, m.sock, e)
    BY <1>12
  <2>2. Runs(c, r)' = Runs(c, r)
    BY <1>5, <1>12 DEF Runs
  <2>3. fromServer'[c] = IF c = d /\ link[c] = "open" /\ sock[c] = m.sock
                         THEN Append(fromServer[c], e) ELSE fromServer[c]
    BY <2>1, SendToReaches
  <2>4. ~own => Answers(c, r)' = Answers(c, r)
    <3>1. CASE c = d /\ link[c] = "open" /\ sock[c] = m.sock
      <4>1. ~own => e.request # r
        BY <2>1, <3>1 DEF m
      <4>2. fromServer'[c] = Append(fromServer[c], e)
        BY <2>3, <3>1
      <4>3. QED
        BY <4>1, <4>2, AnswersGrow
    <3>2. CASE ~(c = d /\ link[c] = "open" /\ sock[c] = m.sock)
      <4>1. fromServer'[c] = fromServer[c]
        BY <2>3, <3>2
      <4>2. QED
        BY <4>1 DEF Answers, Of
    <3>3. QED
      BY <3>1, <3>2
  <2>5. own /\ link[c] = "open" => AddsTo(Answers(c, r), Answers(c, r)')
    <3>1. own /\ link[c] = "open" => fromServer'[c] = Append(fromServer[c], e) /\ e.request = r
      BY <2>1, <2>3 DEF m
    <3>2. QED
      BY <2>1, <3>1, AnswersGrow
  <2>6. ~own => Keeps(c, r)
    BY <1>3, <1>9, <2>2, <2>4, SameKeepsSize DEF Keeps
  <2>7. QED
    BY <1>3, <1>8, <1>10, <2>2, <2>5, <2>6, SameKeepsSize
<1>13. CASE /\ UNCHANGED fromServer
            /\ \E id, v : merges' = merges \cup
                 {[id |-> id, request |-> m.request, version |-> v, to |-> <<d, m.sock>>]}
  <2>1. PICK id, v : merges' = merges \cup
                 {[id |-> id, request |-> m.request, version |-> v, to |-> <<d, m.sock>>]}
    BY <1>13
  <2>2. Answers(c, r)' = Answers(c, r)
    BY <1>13 DEF Answers, Of
  <2> DEFINE g == [id |-> id, request |-> m.request, version |-> v, to |-> <<d, m.sock>>]
  <2>3. g.request = m.request /\ g.to = <<d, m.sock>>
    OBVIOUS
  <2> HIDE DEF g
  <2>4. merges' = merges \cup {g}
    BY <2>1 DEF g
  <2>5. ~own => ~(g.request = r /\ g.to = <<c, sock[c]>>)
    <3>1. <<d, m.sock>> = <<c, sock[c]>> => c = d /\ m.sock = sock[d]
      OBVIOUS
    <3>2. own = (c = d /\ m.request = r /\ m.sock = sock[d])
      BY DEF m
    <3>3. QED
      BY <2>3, <3>1, <3>2
  <2>6. ~own => Runs(c, r)' = Runs(c, r)
    BY <1>5, <2>4, <2>5 DEF Runs
  <2>7. own => Runs(c, r)' = Runs(c, r) \cup {g}
    <3>1. own => g.request = r /\ g.to = <<c, sock[c]>>
      BY <2>3 DEF m
    <3>2. QED
      BY <1>5, <2>4, <3>1 DEF Runs
  <2>8. own => AddsTo(Runs(c, r), Runs(c, r)')
    BY <2>7 DEF AddsTo, AtMostOne
  <2>9. ~own => Keeps(c, r)
    BY <1>3, <1>9, <2>2, <2>6, SameKeepsSize DEF Keeps
  <2>10. QED
    BY <1>3, <1>8, <1>10, <2>2, <2>8, <2>9, SameKeepsSize
<1>14. QED
  BY <1>11, <1>12, <1>13

\* A merge that ends is replaced by an answer, if it is of the socket there is now. The end of
\* one of the policy's is an answer for all; that of others' changes nothing.
LEMMA MergeEndsMoves ==
  ASSUME TypeOK, NEW m \in merges, NEW ok \in BOOLEAN, MergeEnds(m, ok),
         NEW c \in Dashboards, NEW r, sock[c] # 0
  PROVE  /\ Sends(c, r)' = Sends(c, r) /\ Runs(c, r)' = Runs(c, r) \ {m}
         /\ m.request # r \/ (m.to # Everyone /\ m \notin Runs(c, r)) =>
              Runs(c, r)' = Runs(c, r) /\ Answers(c, r)' = Answers(c, r)
         /\ m.request = r /\ m.to = Everyone /\ Answers(c, r) # {} => Answers(c, r)' # {}
         /\ m \in Runs(c, r) /\ link[c] = "open" =>
              AddsTo(Answers(c, r), Answers(c, r)')
         /\ link[c] # "open" => Answers(c, r)' = Answers(c, r)
<1>1. m \in Merge
  BY DEF TypeOK
<1>2. m.request \in Requests /\ (m.to # Everyone => m.to \in Dashboards \X Sockets)
  BY <1>1 DEF Merge
<1>3. UNCHANGED <<toServer, sock, link>> /\ merges' = merges \ {m}
  BY DEF MergeEnds, client
<1>4. Sends(c, r)' = Sends(c, r) /\ Runs(c, r)' = Runs(c, r) \ {m}
  BY <1>3 DEF Sends, Of, Runs
<1>5. PICK e \in Event : /\ e.request = m.request /\ e.event # "AGENT_TASK_READY"
                         /\ IF m.to = Everyone THEN Broadcast(e) ELSE SendTo(m.to[1], m.to[2], e)
  BY <1>2, EventsAreTyped DEF MergeEnds
<1>6. fromServer'[c] = IF link[c] = "open" /\ m.to \in {Everyone, <<c, sock[c]>>}
                       THEN Append(fromServer[c], e) ELSE fromServer[c]
  <2>1. CASE m.to = Everyone
    BY <1>5, <2>1, BroadcastReaches
  <2>2. CASE m.to # Everyone
    <3>1. m.to[1] \in Dashboards /\ m.to = <<m.to[1], m.to[2]>>
      BY <1>2, <2>2
    <3>2. SendTo(m.to[1], m.to[2], e)
      BY <1>5, <2>2
    <3>3. fromServer'[c] = IF c = m.to[1] /\ link[c] = "open" /\ sock[c] = m.to[2]
                           THEN Append(fromServer[c], e) ELSE fromServer[c]
      BY <3>1, <3>2, SendToReaches
    <3>4. m.to = <<c, sock[c]>> <=> c = m.to[1] /\ sock[c] = m.to[2]
      BY <3>1
    <3>5. QED
      BY <2>2, <3>3, <3>4
  <2>3. QED
    BY <2>1, <2>2
<1>7. m \in Runs(c, r) => m.request = r /\ m.to = <<c, sock[c]>>
  BY DEF Runs
<1>8. m.request = r /\ m.to = <<c, sock[c]>> => m \in Runs(c, r)
  BY DEF Runs
<1>9. CASE fromServer'[c] = fromServer[c]
  <2>1. Answers(c, r)' = Answers(c, r)
    BY <1>9 DEF Answers, Of
  <2>2. m \notin Runs(c, r) \/ link[c] # "open"
    <3>1. m \in Runs(c, r) /\ link[c] = "open" => fromServer'[c] = Append(fromServer[c], e)
      BY <1>6, <1>7
    <3>2. fromServer[c] \in Seq(Event)
      BY DEF TypeOK
    <3>3. Append(fromServer[c], e) # fromServer[c]
      <4>1. Len(Append(fromServer[c], e)) = Len(fromServer[c]) + 1 /\ Len(fromServer[c]) \in Nat
        BY <3>2, AllStay
      <4>2. Len(Append(fromServer[c], e)) # Len(fromServer[c])
        BY <4>1
      <4>3. QED
        BY <4>2
    <3>4. QED
      BY <1>9, <3>1, <3>3
  <2>3. m.request # r => m \notin Runs(c, r)
    BY <1>7
  <2>4. m \notin Runs(c, r) => Runs(c, r)' = Runs(c, r)
    BY <1>4
  <2>5. QED
    BY <1>4, <2>1, <2>2, <2>3, <2>4
<1>10. CASE /\ link[c] = "open" /\ m.to \in {Everyone, <<c, sock[c]>>}
            /\ fromServer'[c] = Append(fromServer[c], e)
  <2>1. /\ m.request # r => Answers(c, r)' = Answers(c, r)
        /\ m.request = r => AddsTo(Answers(c, r), Answers(c, r)')
    BY <1>5, <1>10, AnswersGrow
  <2>2. m.request # r => m \notin Runs(c, r)
    BY <1>7
  <2>3. m \notin Runs(c, r) => Runs(c, r)' = Runs(c, r)
    BY <1>4
  <2>4. m.request = r /\ m.to # Everyone => m \in Runs(c, r)
    BY <1>8, <1>10
  <2>5. AddsTo(Answers(c, r), Answers(c, r)') => Answers(c, r)' # {}
    BY DEF AddsTo
  <2>6. QED
    BY <1>4, <1>7, <1>10, <2>1, <2>2, <2>3, <2>4, <2>5
<1>11. QED
  BY <1>6, <1>9, <1>10

\* The dashboard takes its first event. If it was the answer on the request, that is over.
LEMMA DeliverMoves ==
  ASSUME TypeOK, NEW d \in Dashboards, Deliver(d), NEW c \in Dashboards, NEW r,
         NEW e, e = Head(fromServer[d])
  PROVE  /\ Sends(c, r)' = Sends(c, r) /\ Runs(c, r)' = Runs(c, r)
         /\ c # d \/ e.request # r \/ e.event = "AGENT_TASK_READY" =>
              KeepsSize(Answers(c, r), Answers(c, r)')
         /\ c = d /\ e.request = r /\ e.event # "AGENT_TASK_READY" =>
              /\ Answers(c, r) # {}
              /\ AtMostOne(Answers(c, r)) => Answers(c, r)' = {}
<1>1. Sends(c, r)' = Sends(c, r) /\ Runs(c, r)' = Runs(c, r)
  BY DEF Deliver, server, Sends, Of, Runs
<1>2. CASE c # d
  <2>1. fromServer'[c] = fromServer[c]
    BY <1>2 DEF Deliver, TypeOK
  <2>2. Answers(c, r)' = Answers(c, r)
    BY <2>1 DEF Answers, Of
  <2>3. QED
    BY <1>1, <1>2, <2>2, SameKeepsSize
<1>3. CASE c = d
  <2> DEFINE list == fromServer[c]
             new == fromServer'[c]
             A == Answers(c, r)
             B == Answers(c, r)'
  <2>1. list \in Seq(Event) /\ list # <<>> /\ new = Tail(list) /\ e = Head(list)
    BY <1>3 DEF Deliver, TypeOK
  <2>2. /\ A \subseteq DOMAIN list /\ B \subseteq DOMAIN new
        /\ \A j \in DOMAIN list :
             j \in A <=> list[j].request = r /\ list[j].event # "AGENT_TASK_READY"
        /\ \A j \in DOMAIN new :
             j \in B <=> new[j].request = r /\ new[j].event # "AGENT_TASK_READY"
    BY DEF Answers, Of
  <2> HIDE DEF list, new, A, B
  <2>3. /\ e = list[1] /\ 1 \in DOMAIN list
        /\ DOMAIN list = 1 .. Len(list) /\ Len(list) \in Nat
        /\ DOMAIN new = 1 .. Len(list) - 1
        /\ \A i \in DOMAIN new : i + 1 \in DOMAIN list /\ new[i] = list[i + 1]
        /\ \A i \in DOMAIN list : i # 1 => i - 1 \in DOMAIN new /\ new[i - 1] = list[i]
    BY <2>1, RestStays
  <2>4. 1 \in Int /\ A \in SUBSET Int /\ B \in SUBSET Int
    BY <2>2, <2>3
  <2>5. \A j \in B : (IF j < 1 THEN j ELSE j + 1) \in A
    BY <2>2, <2>3
  <2>6. \A j \in A : (j < 1 => j \in B) /\ (j > 1 => j - 1 \in B)
    BY <2>2, <2>3
  <2>7. /\ B # {} <=> A \ {1} # {}
        /\ 1 \notin A => KeepsSize(A, B)
    BY <2>4, <2>5, <2>6, OneGoes
  <2>8. 1 \in A <=> e.request = r /\ e.event # "AGENT_TASK_READY"
    BY <2>2, <2>3
  <2>9. 1 \in A /\ AtMostOne(A) => A \ {1} = {}
    BY DEF AtMostOne
  <2>10. QED
    BY <1>1, <1>3, <2>7, <2>8, <2>9 DEF A, B
<1>4. QED
  BY <1>2, <1>3

\* An operator's action on a request is one more on the way, if the socket is open.
LEMMA ActsMoves ==
  ASSUME LinkedInv, NEW d \in Dashboards, NEW q, NEW t, Acts(d, q, t),
         UNCHANGED <<sock, merges, fromServer>>, NEW c \in Dashboards, NEW r
  PROVE  /\ Runs(c, r)' = Runs(c, r) /\ Answers(c, r)' = Answers(c, r)
         /\ c # d \/ r # q \/ link[d] # "open" => Sends(c, r)' = Sends(c, r)
         /\ c = d /\ r = q /\ link[d] = "open" => AddsTo(Sends(c, r), Sends(c, r)')
<1>1. Runs(c, r)' = Runs(c, r) /\ Answers(c, r)' = Answers(c, r)
  BY DEF Runs, Answers, Of
<1>2. CASE c # d \/ link[d] # "open"
  <2>1. toServer'[c] = toServer[c]
    BY <1>2 DEF Acts, LinkedInv, TypeOK
  <2>2. Sends(c, r)' = Sends(c, r)
    BY <2>1 DEF Sends, Of
  <2>3. QED
    BY <1>1, <1>2, <2>2
<1>3. CASE c = d /\ link[d] = "open"
  <2>1. PICK action \in {"APPROVE", "REJECT"} : toServer' = [toServer EXCEPT ![d] = Append(@,
             [action |-> action, request |-> q, version |-> t.version, sock |-> sock[d]])]
    BY <1>3 DEF Acts
  <2> DEFINE a == [action |-> action, request |-> q, version |-> t.version, sock |-> sock[d]]
             list == toServer[c]
             n == Len(list)
             new == toServer'[c]
             A == Sends(c, r)
             B == Sends(c, r)'
  <2>2. a \in Action
    <3>1. sock[d] \in Sockets
      BY <1>3 DEF LinkedInv, TypeOK, LinksInv, Sockets
    <3>2. t.version \in Versions /\ q \in Requests
      BY DEF Acts, Note
    <3>3. QED
      BY <3>1, <3>2 DEF Action
  <2>3. a.request = q /\ a.sock = sock[c]
    BY <1>3
  <2> HIDE DEF a
  <2>4. list \in Seq(Action) /\ new = Append(list, a)
    BY <1>3, <2>1 DEF LinkedInv, TypeOK, a
  <2>5. /\ n \in Nat /\ DOMAIN list = 1 .. n /\ DOMAIN new = 1 .. n + 1
        /\ \A i \in DOMAIN list : new[i] = list[i]
        /\ new[n + 1] = a
    BY <2>2, <2>4, AllStay
  <2>6. /\ A \subseteq DOMAIN list /\ B \subseteq DOMAIN new
        /\ \A j \in DOMAIN list : j \in A <=> list[j].request = r /\ list[j].sock = sock[c]
        /\ \A j \in DOMAIN new : j \in B <=> new[j].request = r /\ new[j].sock = sock[c]
    BY DEF Sends, Of
  <2> HIDE DEF list, new, A, B, n
  <2>7. \A j : j # n + 1 => (j \in B <=> j \in A)
    BY <2>5, <2>6
  <2>8. n + 1 \notin A /\ (n + 1 \in B <=> r = q)
    BY <2>3, <2>5, <2>6
  <2>9. r # q => B = A
    BY <2>7, <2>8
  <2>10. r = q => AddsTo(A, B)
    <3>1. r = q /\ A = {} => \A j \in B : j = n + 1
      BY <2>7
    <3>2. QED
      BY <2>8, <3>1 DEF AddsTo, AtMostOne
  <2>11. QED
    BY <1>1, <1>3, <2>9, <2>10 DEF A, B
<1>4. QED
  BY <1>2, <1>3

-----------------------------------------------------------------------------
(* A pending note has an answer to come *)

Out(c, r) == Sends(c, r) # {} \/ Runs(c, r) # {} \/ Answers(c, r) # {}

LEMMA OutIsOutstanding ==
  ASSUME NEW c, NEW r
  PROVE  Out(c, r) <=> Queued(c, r) \cup MergedFor(c, r) # {} \/ Answered(c, r)
<1>1. Sends(c, r) # {} <=> Queued(c, r) # {}
  BY DEF Sends, Queued
<1>2. Runs(c, r) # {} <=> MergedFor(c, r) # {}
  BY DEF Runs, MergedFor
<1>3. Answers(c, r) # {} <=> Answered(c, r)
  BY DEF Answers, Answered, Of
<1>4. QED
  BY <1>1, <1>2, <1>3 DEF Out

\* The server answers what it is sent on a socket that stays open.
LEMMA ServerKeepsOut ==
  ASSUME TypeOK, ServerStep, NEW c \in Dashboards, link[c] = "open", sock[c] # 0,
         NEW r \in Requests, Out(c, r)
  PROVE  Out(c, r)'
<1>1. ASSUME NEW q \in Requests, Submit(q)
      PROVE  Out(c, r)'
  BY <1>1, SubmitKeeps DEF Out
<1>2. ASSUME NEW d \in Dashboards, NEW i \in DOMAIN toServer[d], Handle(d, i)
      PROVE  Out(c, r)'
  <2>1. PICK own : own = (c = d /\ toServer[d][i].request = r /\ toServer[d][i].sock = sock[d])
    OBVIOUS
  <2>2. CASE ~own
    <3>1. Keeps(c, r)
      BY <1>2, <2>1, <2>2, HandleMoves
    <3>2. QED
      BY <3>1 DEF Keeps, KeepsSize, Out
  <2>3. CASE own
    <3>1. AddsTo(Runs(c, r), Runs(c, r)') \/ AddsTo(Answers(c, r), Answers(c, r)')
      BY <1>2, <2>1, <2>3, HandleMoves
    <3>2. QED
      BY <3>1 DEF AddsTo, Out
  <2>4. QED
    BY <2>1, <2>2, <2>3, Zenon
<1>3. ASSUME NEW m \in merges, NEW ok \in BOOLEAN, MergeEnds(m, ok)
      PROVE  Out(c, r)'
  <2>1. /\ Sends(c, r)' = Sends(c, r) /\ Runs(c, r)' = Runs(c, r) \ {m}
        /\ m.request # r \/ (m.to # Everyone /\ m \notin Runs(c, r)) =>
              Runs(c, r)' = Runs(c, r) /\ Answers(c, r)' = Answers(c, r)
        /\ m.request = r /\ m.to = Everyone /\ Answers(c, r) # {} => Answers(c, r)' # {}
        /\ m \in Runs(c, r) => AddsTo(Answers(c, r), Answers(c, r)')
    BY <1>3, MergeEndsMoves
  <2>2. CASE m \in Runs(c, r)
    BY <2>1, <2>2 DEF AddsTo, Out
  <2>3. CASE m \notin Runs(c, r)
    BY <2>1, <2>3 DEF Out
  <2>4. QED
    BY <2>2, <2>3
<1>4. ASSUME NEW d \in Dashboards, NEW f \in fetches[d], BuildReview(d, f)
      PROVE  Out(c, r)'
  BY <1>4 DEF BuildReview, server, Out, Sends, Runs, Answers, Of
<1>5. QED
  BY <1>1, <1>2, <1>3, <1>4 DEF ServerStep

OutstandingInv == LinkedInv /\ ShownInv /\ PendingIsOutstanding

LEMMA OutstandingHoldsInitially == ASSUME Init PROVE OutstandingInv
<1>1. LinkedInv
  BY TypesHoldInitially
<1>2. ShownInv
  <2>1. \A d \in Dashboards : Pending(notes[d]) = {}
    BY DEF Init, Pending
  <2>2. QED
    BY <2>1 DEF ShownInv
<1>3. PendingIsOutstanding
  BY DEF Init, PendingIsOutstanding
<1>4. QED
  BY <1>1, <1>2, <1>3 DEF OutstandingInv

\* What one dashboard's list shows, after one of its own steps, in terms of what it showed.
LEMMA DeliverKeepsShown ==
  ASSUME TypeOK, NEW d \in Dashboards, NEW e \in Event, NEW new \in Seq(Note),
         e.request \in Requests, Shows(d, e, notes[d], new),
         \A q \in Pending(notes[d]) : Of(seen[d], q) # {}
  PROVE  /\ \A r : r # e.request => SameFor(notes[d], new, r)
         /\ Pending(new) \subseteq Pending(notes[d])
         /\ e.event \in {"MERGE_SUCCESS", "MERGE_FAILED", "AGENT_RESTARTED"} =>
              e.request \notin Pending(new)
<1> DEFINE list == notes[d]
           q == e.request
<1>1. list \in Seq(Note)
  BY DEF TypeOK
<1>2. CASE new = list /\ e.event \in {"AGENT_TASK_READY", "MERGE_SKIPPED"}
  BY <1>2 DEF SameFor
<1>3. ASSUME NEW v \in Versions, e.event = "AGENT_TASK_READY",
             new = Append(list, [request |-> q, version |-> v, status |-> "READY"])
      PROVE  /\ \A r : r # e.request => SameFor(notes[d], new, r)
             /\ Pending(new) \subseteq Pending(notes[d])
  <2> DEFINE n == [request |-> q, version |-> v, status |-> "READY"]
  <2>1. n \in Note /\ n.request = q /\ n.status = "READY"
    BY DEF Note
  <2> HIDE DEF n
  <2>2. new = Append(list, n)
    BY <1>3 DEF n
  <2> HIDE DEF list, q
  <2>3. /\ \A r : r # n.request => SameFor(list, new, r)
        /\ Pending(new) = Pending(list)
    BY <1>1, <2>1, <2>2, AddedIsLast
  <2>4. QED
    BY <2>1, <2>3 DEF list, q
<1>4. CASE /\ e.event \in {"MERGE_SUCCESS", "AGENT_RESTARTED"}
           /\ new = IF Of(seen[d], q) = {} THEN list ELSE Without(list, q)
  <2>1. CASE Of(seen[d], q) = {}
    <3>1. q \notin Pending(list)
      BY <2>1
    <3>2. new = list
      BY <1>4, <2>1
    <3> HIDE DEF list, q
    <3>3. \A r : SameFor(list, new, r)
      BY <3>2 DEF SameFor
    <3>4. QED
      BY <3>1, <3>2, <3>3 DEF list, q
  <2>2. CASE Of(seen[d], q) # {}
    <3>1. new = Without(list, q)
      BY <1>4, <2>2
    <3>2. Of(new, q) = {} /\ \A r : r # q => SameFor(list, new, r)
      BY <1>1, <3>1, WithoutKeepsOthers
    <3>3. q \notin Pending(new)
      BY <3>2, PendingHasNote
    <3>4. QED
      BY <3>2, <3>3 DEF SameFor
  <2>3. QED
    BY <2>1, <2>2
<1>5. CASE /\ e.event = "MERGE_FAILED"
           /\ new = IF Of(seen[d], q) = {} THEN list ELSE WithStatus(list, q, "READY")
  <2>1. CASE Of(seen[d], q) = {}
    <3>1. q \notin Pending(list)
      BY <2>1
    <3>2. new = list
      BY <1>5, <2>1
    <3> HIDE DEF list, q
    <3>3. \A r : SameFor(list, new, r)
      BY <3>2 DEF SameFor
    <3>4. QED
      BY <3>1, <3>2, <3>3 DEF list, q
  <2>2. CASE Of(seen[d], q) # {}
    <3>1. new = WithStatus(list, q, "READY") /\ q \in Requests
      BY <1>5, <2>2
    <3> HIDE DEF list, q
    <3>2. /\ Of(new, q) = Of(list, q) /\ \A i \in Of(list, q) : new[i].status = "READY"
          /\ \A r : r # q => SameFor(list, new, r)
      <4>1. "READY" \in {"READY", "APPROVING", "REJECTING"}
        OBVIOUS
      <4>2. /\ Of(WithStatus(list, q, "READY"), q) = Of(list, q)
            /\ \A i \in Of(list, q) : WithStatus(list, q, "READY")[i].status = "READY"
            /\ \A r : r # q => SameFor(list, WithStatus(list, q, "READY"), r)
        <5>1. list \in Seq(Note) /\ q \in Requests
          BY <1>1, <3>1
        <5>2. Of(WithStatus(list, q, "READY"), q) = Of(list, q)
          BY <5>1, <4>1, WithStatusKeepsOthers
        <5>3. \A i \in Of(list, q) : WithStatus(list, q, "READY")[i].status = "READY"
          BY <5>1, <4>1, WithStatusKeepsOthers
        <5>4. \A r : r # q => SameFor(list, WithStatus(list, q, "READY"), r)
          BY <5>1, <4>1, WithStatusKeepsOthers
        <5>5. QED
          BY <5>2, <5>3, <5>4
      <4>3. QED
        BY <3>1, <4>2
    <3>3. q \notin Pending(new)
      BY <3>2, PendingHasNote
    <3>4. QED
      BY <3>2, <3>3 DEF SameFor, list, q
  <2>3. QED
    BY <2>1, <2>2
<1>6. QED
  BY <1>2, <1>3, <1>4, <1>5 DEF Shows


\* What touches neither the queues of a dashboard nor git leaves what is outstanding.
LEMMA UntouchedKeepsOut ==
  ASSUME NEW c, NEW r, toServer'[c] = toServer[c], fromServer'[c] = fromServer[c],
         sock'[c] = sock[c], merges' = merges
  PROVE  /\ Out(c, r)' <=> Out(c, r)
         /\ Sends(c, r)' = Sends(c, r) /\ Runs(c, r)' = Runs(c, r) /\ Answers(c, r)' = Answers(c, r)
<1>1. Sends(c, r)' = Sends(c, r) /\ Runs(c, r)' = Runs(c, r) /\ Answers(c, r)' = Answers(c, r)
  BY DEF Sends, Of, Runs, Answers
<1>2. QED
  BY <1>1 DEF Out

\* The two invariants, dashboard by dashboard.
ShownOn(c) == \A r \in Pending(notes[c]) : Of(seen[c], r) # {}
AwaitedOn(c) == link[c] = "open" => \A r \in Pending(notes[c]) \ skipped[c] : Out(c, r)

LEMMA OutstandingByDashboard ==
  OutstandingInv <=> LinkedInv /\ \A c \in Dashboards : ShownOn(c) /\ AwaitedOn(c)
<1>1. ShownInv <=> \A c \in Dashboards : ShownOn(c)
  BY DEF ShownInv, ShownOn
<1>2. PendingIsOutstanding <=> \A c \in Dashboards : AwaitedOn(c)
  BY OutIsOutstanding DEF PendingIsOutstanding, AwaitedOn
<1>3. QED
  BY <1>1, <1>2 DEF OutstandingInv

LEMMA PendingIsRequest ==
  ASSUME NEW list \in Seq(Note), NEW r \in Pending(list)
  PROVE  r \in Requests
<1>1. PICK i \in DOMAIN list : list[i].request = r
  BY DEF Pending
<1>2. list[i] \in Note
  OBVIOUS
<1>3. QED
  BY <1>1, <1>2 DEF Note

\* A dashboard no step of whose own is taken, and whose queues stay.
LEMMA UntouchedStays ==
  ASSUME NEW c, ShownOn(c), AwaitedOn(c), toServer'[c] = toServer[c],
         fromServer'[c] = fromServer[c], sock'[c] = sock[c], merges' = merges,
         link'[c] = link[c], notes'[c] = notes[c], seen'[c] = seen[c], skipped'[c] = skipped[c]
  PROVE  ShownOn(c)' /\ AwaitedOn(c)'
<1>1. \A r : Out(c, r)' <=> Out(c, r)
  BY UntouchedKeepsOut
<1>2. QED
  BY <1>1 DEF ShownOn, AwaitedOn

LEMMA ServerKeepsAwaited ==
  ASSUME OutstandingInv, ServerStep, NEW c \in Dashboards
  PROVE  ShownOn(c)' /\ AwaitedOn(c)'
<1>1. LinkedInv /\ TypeOK /\ ShownOn(c) /\ AwaitedOn(c)
  BY OutstandingByDashboard DEF LinkedInv
<1>2. UNCHANGED <<link, sock, notes, seen>>
  BY <1>1, ServerSends
<1>3. UNCHANGED skipped
  BY DEF ServerStep, Submit, Handle, MergeEnds, BuildReview, ghosts
<1>4. ASSUME link[c] = "open", NEW r \in Pending(notes[c]) \ skipped[c]
      PROVE  Out(c, r)'
  <2>1. Out(c, r)
    BY <1>1, <1>4 DEF AwaitedOn
  <2>2. notes[c] \in Seq(Note) /\ sock[c] # 0
    BY <1>1, <1>4 DEF TypeOK, LinkedInv, LinksInv
  <2>3. r \in Requests
    BY <2>2, PendingIsRequest
  <2>4. QED
    BY <1>1, <1>4, <2>1, <2>2, <2>3, ServerKeepsOut
<1>5. ShownOn(c)'
  BY <1>1, <1>2 DEF ShownOn
<1>6. AwaitedOn(c)'
  BY <1>2, <1>3, <1>4 DEF AwaitedOn
<1>7. QED
  BY <1>5, <1>6

\* Nothing is pending in an empty list.
LEMMA NothingPending == Pending(<<>>) = {}
BY DEF Pending

LEMMA DeliverKeepsAwaited ==
  ASSUME OutstandingInv, NEW d \in Dashboards, Deliver(d)
  PROVE  ShownOn(d)' /\ AwaitedOn(d)'
<1>1. LinkedInv /\ TypeOK /\ ShownOn(d) /\ AwaitedOn(d)
  BY OutstandingByDashboard DEF LinkedInv
<1>2. PICK e \in Event, new \in Seq(Note) :
        /\ e = Head(fromServer[d]) /\ e.request \in Requests
        /\ Shows(d, e, notes[d], new)
        /\ notes' = [notes EXCEPT ![d] = new]
        /\ skipped' = [skipped EXCEPT ![d] =
             (@ \cup {r \in {e.request} : e.event = "MERGE_SKIPPED"}) \cap Pending(new)]
  BY <1>1, DeliverShows
<1>3. /\ notes'[d] = new /\ seen'[d] = seen[d] /\ link'[d] = link[d] /\ link[d] = "open"
      /\ skipped'[d] = (skipped[d] \cup {r \in {e.request} : e.event = "MERGE_SKIPPED"})
                        \cap Pending(new)
  BY <1>1, <1>2 DEF Deliver, TypeOK
<1>4. /\ Pending(new) \subseteq Pending(notes[d])
      /\ e.event \in {"MERGE_SUCCESS", "MERGE_FAILED", "AGENT_RESTARTED"} =>
           e.request \notin Pending(new)
  BY <1>1, <1>2, DeliverKeepsShown DEF ShownOn
<1>5. ShownOn(d)'
  BY <1>1, <1>3, <1>4 DEF ShownOn
<1>6. ASSUME NEW r \in Pending(new) \ skipped'[d]
      PROVE  Out(d, r)'
  <2>1. r \in Pending(notes[d]) \ skipped[d]
    BY <1>3, <1>4, <1>6
  <2>2. Out(d, r)
    BY <1>1, <1>3, <2>1 DEF AwaitedOn
  <2>3. e.event \in {"AGENT_TASK_READY", "MERGE_SUCCESS", "MERGE_FAILED", "MERGE_SKIPPED",
                     "AGENT_RESTARTED"}
    BY <1>2 DEF Event
  <2>4. e.request # r \/ e.event = "AGENT_TASK_READY"
    BY <1>3, <1>4, <1>6, <2>3
  <2>5. /\ Sends(d, r)' = Sends(d, r) /\ Runs(d, r)' = Runs(d, r)
        /\ KeepsSize(Answers(d, r), Answers(d, r)')
    BY <1>1, <1>2, <2>4, DeliverMoves
  <2>6. QED
    BY <2>2, <2>5 DEF KeepsSize, Out
<1>7. AwaitedOn(d)'
  BY <1>3, <1>6 DEF AwaitedOn
<1>8. QED
  BY <1>5, <1>7

LEMMA SocketKeepsAwaited ==
  ASSUME OutstandingInv, NEW d \in Dashboards, SocketStep(d), NEW c \in Dashboards
  PROVE  ShownOn(c)' /\ AwaitedOn(c)'
<1>1. LinkedInv /\ TypeOK /\ ShownOn(c) /\ AwaitedOn(c)
  BY OutstandingByDashboard DEF LinkedInv
<1>2. CASE c # d
  <2>1. toServer'[c] = toServer[c] /\ fromServer'[c] = fromServer[c] /\ sock'[c] = sock[c]
        /\ merges' = merges /\ link'[c] = link[c]
    BY <1>1, <1>2 DEF SocketStep, Start, Opens, Drops, Stop, Deliver, Render, TypeOK, server
  <2>2. /\ seen'[c] = seen[c] /\ skipped'[c] = skipped[c]
    BY <1>1, <1>2 DEF SocketStep, Start, Opens, Drops, Stop, Deliver, Render, TypeOK, ghosts
  <2>3. notes'[c] = notes[c]
    <3>1. CASE Deliver(d)
      <4>1. PICK new : notes' = [notes EXCEPT ![d] = new]
        BY <1>1, <3>1, DeliverShows
      <4>2. QED
        BY <1>1, <1>2, <4>1 DEF TypeOK
    <3>2. QED
      BY <1>1, <1>2, <3>1 DEF SocketStep, Start, Opens, Drops, Stop, Render, TypeOK
  <2>4. QED
    BY <1>1, <2>1, <2>2, <2>3, UntouchedStays
<1>3. CASE c = d /\ Deliver(d)
  BY <1>3, DeliverKeepsAwaited
<1>4. CASE c = d /\ Render(d)
  <2>1. /\ toServer' = toServer /\ fromServer' = fromServer /\ sock' = sock
        /\ merges' = merges /\ link' = link /\ notes' = notes /\ skipped' = skipped
        /\ seen'[c] = notes[c]
    BY <1>1, <1>4 DEF Render, server, ghosts, TypeOK
  <2>2. \A r : Out(c, r)' <=> Out(c, r)
    BY <2>1, UntouchedKeepsOut
  <2>3. AwaitedOn(c)'
    BY <1>1, <2>1, <2>2 DEF AwaitedOn
  <2>4. ShownOn(c)'
    BY <2>1, PendingHasNote DEF ShownOn
  <2>5. QED
    BY <2>3, <2>4
<1>5. CASE c = d /\ (Start(d) \/ Opens(d) \/ Stop(d))
  <2>1. notes'[c] = <<>>
    BY <1>1, <1>5 DEF Start, Opens, Stop, LinkedInv, LinksInv, TypeOK
  <2>2. QED
    BY <2>1, NothingPending DEF ShownOn, AwaitedOn
<1>6. CASE c = d /\ Drops(d)
  <2>1. link'[c] = "off" /\ UNCHANGED <<notes, seen>>
    BY <1>1, <1>6 DEF Drops, TypeOK
  <2>2. QED
    BY <1>1, <2>1 DEF ShownOn, AwaitedOn
<1>7. QED
  BY <1>2, <1>3, <1>4, <1>5, <1>6 DEF SocketStep

LEMMA OperatorKeepsAwaited ==
  ASSUME OutstandingInv, NEW d \in Dashboards, OperatorStep(d), NEW c \in Dashboards
  PROVE  ShownOn(c)' /\ AwaitedOn(c)'
<1>1. LinkedInv /\ TypeOK /\ ShownOn(c) /\ AwaitedOn(c)
  BY OutstandingByDashboard DEF LinkedInv
<1>2. /\ UNCHANGED <<server, playing, link, sock, fromServer, lost, raced>>
      /\ \/ UNCHANGED <<notes, toServer, ambiguous, seen, skipped, preview>>
         \/ /\ Rendered(d)
            /\ UNCHANGED <<notes, toServer, ambiguous>> \/ \E r, t : Acts(d, r, t)
  BY <1>1, OperatorActs
<1>3. UNCHANGED merges
  BY <1>2 DEF server
<1>4. CASE UNCHANGED <<notes, toServer, ambiguous, seen, skipped, preview>>
  BY <1>1, <1>2, <1>3, <1>4, UntouchedStays
<1>5. CASE Rendered(d) /\ c # d
  <2>1. seen'[c] = seen[c] /\ skipped'[c] = skipped[c]
    BY <1>1, <1>5 DEF Rendered, TypeOK
  <2>2. notes'[c] = notes[c] /\ toServer'[c] = toServer[c]
    <3>1. ASSUME NEW r, NEW t, Acts(d, r, t)
          PROVE  notes'[c] = notes[c] /\ toServer'[c] = toServer[c]
      BY <1>1, <1>5, <3>1 DEF Acts, TypeOK
    <3>2. QED
      BY <1>2, <3>1
  <2>3. QED
    BY <1>1, <1>2, <1>3, <2>1, <2>2, UntouchedStays
<1>6. CASE Rendered(d) /\ c = d
  <2>1. seen'[c] = notes'[c] /\ skipped'[c] = skipped[c] \cap Pending(notes'[c])
    BY <1>1, <1>6 DEF Rendered, TypeOK
  <2>2. ShownOn(c)'
    BY <2>1, PendingHasNote DEF ShownOn
  <2>3. CASE UNCHANGED <<notes, toServer, ambiguous>>
    <3>1. \A r : Out(c, r)' <=> Out(c, r)
      BY <1>2, <1>3, <2>3, UntouchedKeepsOut
    <3>2. AwaitedOn(c)'
      BY <1>1, <1>2, <2>1, <2>3, <3>1 DEF AwaitedOn
    <3>3. QED
      BY <2>2, <3>2
  <2>4. ASSUME NEW q, NEW t, Acts(d, q, t)
        PROVE  AwaitedOn(c)'
    <3>1. SUFFICES ASSUME link[c] = "open", NEW r \in Pending(notes'[c]) \ skipped'[c]
                   PROVE  Out(c, r)'
      BY <1>2 DEF AwaitedOn
    <3>2. /\ Runs(c, r)' = Runs(c, r) /\ Answers(c, r)' = Answers(c, r)
          /\ r # q => Sends(c, r)' = Sends(c, r)
          /\ r = q => AddsTo(Sends(c, r), Sends(c, r)')
      BY <1>1, <1>2, <1>3, <1>6, <2>4, <3>1, ActsMoves
    <3>3. CASE r = q
      BY <3>2, <3>3 DEF AddsTo, Out
    <3>4. CASE r # q
      <4>1. PICK status \in {"APPROVING", "REJECTING"} :
              notes' = [notes EXCEPT ![d] = WithStatus(@, q, status)]
        BY <1>6, <2>4, <3>1 DEF Acts
      <4>2. notes'[c] = WithStatus(notes[c], q, status) /\ notes[c] \in Seq(Note)
        BY <1>1, <1>6, <4>1 DEF TypeOK
      <4>3. q \in Requests
        BY <2>4 DEF Acts
      <4>4. SameFor(notes[c], WithStatus(notes[c], q, status), r)
        BY <3>4, <4>2, <4>3, WithStatusKeepsOthers
      <4>5. r \in Pending(notes[c]) \ skipped[c]
        BY <2>1, <3>1, <4>2, <4>4 DEF SameFor
      <4>6. Out(c, r)
        BY <1>1, <3>1, <4>5 DEF AwaitedOn
      <4>7. QED
        BY <3>2, <3>4, <4>6 DEF Out
    <3>5. QED
      BY <3>3, <3>4
  <2>5. QED
    BY <1>2, <2>2, <2>3, <2>4, <1>4
<1>7. QED
  BY <1>2, <1>4, <1>5, <1>6

LEMMA OutstandingIsInductive ==
  ASSUME OutstandingInv, [Next]_vars
  PROVE  OutstandingInv'
<1>1. LinkedInv'
  BY LinkedIsInductive DEF OutstandingInv
<1>2. ASSUME NEW c \in Dashboards
      PROVE  ShownOn(c)' /\ AwaitedOn(c)'
  <2>1. CASE ServerStep
    BY <2>1, ServerKeepsAwaited
  <2>2. ASSUME NEW d \in Dashboards, SocketStep(d)
        PROVE  ShownOn(c)' /\ AwaitedOn(c)'
    BY <2>2, SocketKeepsAwaited
  <2>3. ASSUME NEW d \in Dashboards, OperatorStep(d)
        PROVE  ShownOn(c)' /\ AwaitedOn(c)'
    BY <2>3, OperatorKeepsAwaited
  <2>4. CASE UNCHANGED vars
    <3>1. ShownOn(c) /\ AwaitedOn(c)
      BY OutstandingByDashboard
    <3>2. QED
      BY <2>4, <3>1, UntouchedStays DEF vars, server, client, ghosts
  <2>5. QED
    BY <2>1, <2>2, <2>3, <2>4 DEF Next
<1>3. ShownInv' /\ PendingIsOutstanding'
  <2>1. ShownInv'
    BY <1>2 DEF ShownInv, ShownOn
  <2>2. \A c \in Dashboards, r \in Requests :
          Out(c, r)' => (Queued(c, r) \cup MergedFor(c, r) # {} \/ Answered(c, r))'
    <3>1. \A c, r : Sends(c, r)' # {} <=> Queued(c, r)' # {}
      BY DEF Sends, Queued
    <3>2. \A c, r : Runs(c, r)' # {} <=> MergedFor(c, r)' # {}
      BY DEF Runs, MergedFor
    <3>3. \A c, r : Answers(c, r)' # {} <=> Answered(c, r)'
      BY DEF Answers, Answered, Of
    <3>4. QED
      BY <3>1, <3>2, <3>3 DEF Out
  <2>3. \A c \in Dashboards : Pending(notes'[c]) \subseteq Requests
    BY <1>1, PendingIsRequest DEF LinkedInv, TypeOK
  <2>4. PendingIsOutstanding'
    BY <1>2, <2>2, <2>3 DEF PendingIsOutstanding, AwaitedOn
  <2>5. QED
    BY <2>1, <2>4
<1>4. QED
  BY <1>1, <1>3 DEF OutstandingInv

\* Each pending note of each connected dashboard is shown to the callbacks too, and its action is
\* on its way, in git, or answered, unless the answer was MERGE_SKIPPED.
THEOREM OutstandingInvariant == Spec => []OutstandingInv
<1>1. Init => OutstandingInv
  BY OutstandingHoldsInitially
<1>2. OutstandingInv /\ [Next]_vars => OutstandingInv'
  BY OutstandingIsInductive
<1>3. QED
  BY <1>1, <1>2, PTL DEF Spec

\* A connected dashboard never waits for nothing: whatever the order of submissions, merges, dropped
\* sockets and the operators' actions, a note in its pending state has an answer to come, except
\* after MERGE_SKIPPED, which useMaestroRealtime.js has no case for.
THEOREM PendingIsAlwaysOutstanding == Spec => []PendingIsOutstanding
<1>1. OutstandingInv => PendingIsOutstanding
  BY DEF OutstandingInv
<1>2. QED
  BY <1>1, OutstandingInvariant, PTL

-----------------------------------------------------------------------------
(* What waits is visible. First: nothing is about a request nobody submitted *)

About(list, S) == \A i \in DOMAIN list : list[i].request \in S

\* The lists that are made of a list and of what is about a member.
LEMMA AboutNotes ==
  ASSUME NEW list, NEW S
  PROVE  About(list, S) <=> \A r : Of(list, r) # {} => r \in S
BY DEF About, Of

LEMMA AboutMore ==
  ASSUME NEW list, NEW S, NEW U, S \subseteq U, About(list, S)
  PROVE  About(list, U)
BY DEF About

LEMMA AboutAdded ==
  ASSUME NEW T, NEW list \in Seq(T), NEW S, About(list, S), NEW e \in T, e.request \in S
  PROVE  About(Append(list, e), S)
<1> DEFINE new == Append(list, e)
           n == Len(list)
<1>1. /\ n \in Nat /\ DOMAIN list = 1 .. n /\ DOMAIN new = 1 .. n + 1
      /\ \A i \in DOMAIN list : new[i] = list[i]
      /\ new[n + 1] = e
  BY AllStay
<1> HIDE DEF new, n
<1>2. About(new, S)
  BY <1>1 DEF About
<1>3. QED
  BY <1>2 DEF new

LEMMA AboutRest ==
  ASSUME NEW T, NEW list \in Seq(T), list # <<>>, NEW S, About(list, S)
  PROVE  About(Tail(list), S) /\ Head(list).request \in S
<1> DEFINE new == Tail(list)
<1>1. /\ Head(list) = list[1] /\ 1 \in DOMAIN list
      /\ \A i \in DOMAIN new : i + 1 \in DOMAIN list /\ new[i] = list[i + 1]
  BY RestStays
<1> HIDE DEF new
<1>2. About(new, S)
  BY <1>1 DEF About
<1>3. QED
  BY <1>1, <1>2 DEF About, new

LEMMA AboutFront ==
  ASSUME NEW T, NEW list \in Seq(T), NEW k \in 0 .. Len(list), NEW S, About(list, S)
  PROVE  About(SubSeq(list, 1, k), S)
<1> DEFINE new == SubSeq(list, 1, k)
<1>1. DOMAIN new = 1 .. k /\ \A i \in 1 .. k : new[i] = list[i]
  BY FrontStays
<1>2. 1 .. k \subseteq DOMAIN list
  OBVIOUS
<1> HIDE DEF new
<1>3. About(new, S)
  BY <1>1, <1>2 DEF About
<1>4. QED
  BY <1>3 DEF new

LEMMA AboutOthers ==
  ASSUME NEW T, NEW list \in Seq(T), NEW i \in DOMAIN list, NEW S, About(list, S)
  PROVE  About(Dropping(list, i), S)
<1> DEFINE new == Dropping(list, i)
<1>1. /\ DOMAIN new = 1 .. Len(list) - 1
      /\ \A j \in DOMAIN new : new[j] = list[IF j < i THEN j ELSE j + 1]
  BY OthersStay
<1>2. \A j \in 1 .. Len(list) - 1 : (IF j < i THEN j ELSE j + 1) \in DOMAIN list
  OBVIOUS
<1> HIDE DEF new
<1>3. About(new, S)
  BY <1>1, <1>2 DEF About
<1>4. QED
  BY <1>3 DEF new

\* SubmittedInv, for one dashboard.
SubmittedOn(c) ==
  /\ About(toServer[c], Submitted) /\ About(fromServer[c], Submitted)
  /\ About(notes[c], Submitted) /\ About(seen[c], Submitted)
  /\ preview[c] # NoNote => preview[c].request \in Submitted

SubmittedAll ==
  /\ \A r \in Requests : state[r] # "none" <=> r \in Submitted
  /\ \A m \in merges : m.request \in Submitted
  /\ \A c \in Dashboards : SubmittedOn(c)

LEMMA SubmittedByDashboard == SubmittedInv <=> SubmittedAll
BY DEF SubmittedInv, SubmittedAll, SubmittedOn, About

\* What the server sends, on one dashboard's queue: nothing, or one event of the step's request.
Tells(c, q) ==
  \/ fromServer'[c] = fromServer[c]
  \/ \E e \in Event : e.request = q /\ fromServer'[c] = Append(fromServer[c], e)

LEMMA BroadcastTells ==
  ASSUME TypeOK, NEW e \in Event, Broadcast(e), NEW c \in Dashboards
  PROVE  Tells(c, e.request)
<1>1. fromServer'[c] = IF link[c] = "open" THEN Append(fromServer[c], e) ELSE fromServer[c]
  BY BroadcastReaches
<1>2. QED
  BY <1>1 DEF Tells

LEMMA SendToTells ==
  ASSUME TypeOK, NEW d \in Dashboards, NEW s, NEW e \in Event, SendTo(d, s, e),
         NEW c \in Dashboards
  PROVE  Tells(c, e.request)
<1>1. fromServer'[c] = IF c = d /\ link[c] = "open" /\ sock[c] = s
                       THEN Append(fromServer[c], e) ELSE fromServer[c]
  BY SendToReaches
<1>2. QED
  BY <1>1 DEF Tells

LEMMA TellsSubmitted ==
  ASSUME TypeOK, NEW c \in Dashboards, NEW q, Tells(c, q), NEW S, q \in S,
         About(fromServer[c], S)
  PROVE  About(fromServer'[c], S)
<1>1. fromServer[c] \in Seq(Event)
  BY DEF TypeOK
<1>2. CASE fromServer'[c] = fromServer[c]
  BY <1>2
<1>3. ASSUME NEW e \in Event, e.request = q, fromServer'[c] = Append(fromServer[c], e)
      PROVE  About(fromServer'[c], S)
  BY <1>1, <1>3, AboutAdded
<1>4. QED
  BY <1>2, <1>3 DEF Tells

LEMMA SubmitTells ==
  ASSUME TypeOK, NEW q \in Requests, Submit(q)
  PROVE  \E e \in Event : /\ e.request = q /\ e.event = "AGENT_TASK_READY" /\ Broadcast(e)
<1>1. version[q] + 1 \in Versions
  BY BoundsAreNatural DEF TypeOK, Submit, Versions
<1>2. [event |-> "AGENT_TASK_READY", request |-> q, version |-> version[q] + 1] \in Event
  BY <1>1, EventsAreTyped
<1>3. QED
  BY <1>2 DEF Submit

LEMMA HandleTells ==
  ASSUME TypeOK, NEW d \in Dashboards, NEW i \in DOMAIN toServer[d], Handle(d, i)
  PROVE  LET m == toServer[d][i] IN
         /\ m \in Action /\ m.request \in Requests
         /\ toServer' = [toServer EXCEPT ![d] = Dropping(@, i)]
         /\ \/ /\ Skips(m.request) /\ UNCHANGED <<state, merges, raced>>
               /\ \E e \in Event : /\ e.event = "MERGE_SKIPPED" /\ e.request = m.request
                                   /\ SendTo(d, m.sock, e)
            \/ /\ ~Skips(m.request) /\ UNCHANGED <<fromServer, raced>>
               /\ state' = [state EXCEPT ![m.request] = "approving"]
               /\ \E n : n.request = m.request /\ n.to = <<d, m.sock>> /\ merges' = merges \cup {n}
            \/ /\ state' = [state EXCEPT ![m.request] = "rejected"] /\ UNCHANGED merges
               /\ raced' = raced \cup {q \in {m.request} : Merging(q)}
               /\ \E e \in Event : /\ e.event = "AGENT_RESTARTED" /\ e.request = m.request
                                   /\ SendTo(d, m.sock, e)
<1> DEFINE m == toServer[d][i]
<1>1. m \in Action
  BY DEF TypeOK
<1>2. m.request \in Requests
  BY <1>1 DEF Action
<1>3. toServer' = [toServer EXCEPT ![d] = Dropping(@, i)]
  BY DEF Handle, Dropping
<1>4. Approve(d, m.sock, m.request, m.version) \/ Reject(d, m.sock, m.request)
  BY DEF Handle
<1> HIDE DEF m
<1>5. CASE Reject(d, m.sock, m.request)
  <2>1. \E e \in Event : /\ e.event = "AGENT_RESTARTED" /\ e.request = m.request
                         /\ SendTo(d, m.sock, e)
    BY <1>2, <1>5, EventsAreTyped DEF Reject
  <2>2. QED
    BY <1>1, <1>2, <1>3, <1>5, <2>1 DEF Reject, m
<1>6. CASE Approve(d, m.sock, m.request, m.version) /\ Skips(m.request) /\ UNCHANGED merges
  <2>1. \E e \in Event : /\ e.event = "MERGE_SKIPPED" /\ e.request = m.request
                         /\ SendTo(d, m.sock, e)
    BY <1>2, <1>6, EventsAreTyped DEF Approve
  <2>2. UNCHANGED <<state, merges, raced>>
    BY <1>6 DEF Approve
  <2>3. QED
    BY <1>1, <1>2, <1>3, <1>6, <2>1, <2>2 DEF m
<1>7. CASE Approve(d, m.sock, m.request, m.version) /\ ~Skips(m.request)
  <2>1. UNCHANGED <<fromServer, raced>> /\ state' = [state EXCEPT ![m.request] = "approving"]
    BY <1>7 DEF Approve
  <2>2. \E n : n.request = m.request /\ n.to = <<d, m.sock>> /\ merges' = merges \cup {n}
    <3>1. \E id, v : merges' = merges \cup
                 {[id |-> id, request |-> m.request, version |-> v, to |-> <<d, m.sock>>]}
      BY <1>7 DEF Approve
    <3>2. QED
      BY <3>1
  <2>3. QED
    BY <1>1, <1>2, <1>3, <1>7, <2>1, <2>2 DEF m
<1>8. QED
  BY <1>4, <1>5, <1>6, <1>7 DEF Approve

LEMMA MergeEndsTells ==
  ASSUME TypeOK, NEW m \in merges, NEW ok \in BOOLEAN, MergeEnds(m, ok)
  PROVE  /\ m.request \in Requests
         /\ \E e \in Event :
              /\ e.event \in {"MERGE_SUCCESS", "MERGE_FAILED"} /\ e.request = m.request
              /\ e.event = "MERGE_SUCCESS" => ok
              /\ \A c \in Dashboards : \/ fromServer'[c] = fromServer[c]
                                       \/ fromServer'[c] = Append(fromServer[c], e)
<1>1. m \in Merge
  BY DEF TypeOK
<1>2. m.request \in Requests /\ (m.to # Everyone => m.to \in Dashboards \X Sockets)
  BY <1>1 DEF Merge
<1>3. PICK e \in Event :
        /\ e.event \in {"MERGE_SUCCESS", "MERGE_FAILED"} /\ e.request = m.request
        /\ e.event = "MERGE_SUCCESS" => ok
        /\ IF m.to = Everyone THEN Broadcast(e) ELSE SendTo(m.to[1], m.to[2], e)
  <2> DEFINE event == [event |-> IF ok THEN "MERGE_SUCCESS" ELSE "MERGE_FAILED",
                       request |-> m.request]
  <2>1. event \in Event
    BY <1>2, EventsAreTyped
  <2>2. /\ event.event \in {"MERGE_SUCCESS", "MERGE_FAILED"} /\ event.request = m.request
        /\ event.event = "MERGE_SUCCESS" => ok
    OBVIOUS
  <2>3. IF m.to = Everyone THEN Broadcast(event) ELSE SendTo(m.to[1], m.to[2], event)
    BY DEF MergeEnds
  <2> HIDE DEF event
  <2>4. QED
    BY <2>1, <2>2, <2>3
<1>4. ASSUME NEW c \in Dashboards
      PROVE  fromServer'[c] = fromServer[c] \/ fromServer'[c] = Append(fromServer[c], e)
  <2>1. CASE m.to = Everyone
    BY <1>3, <2>1, BroadcastReaches
  <2>2. CASE m.to # Everyone
    <3>1. m.to[1] \in Dashboards
      BY <1>2, <2>2
    <3>2. SendTo(m.to[1], m.to[2], e)
      BY <1>3, <2>2
    <3>3. fromServer'[c] = IF c = m.to[1] /\ link[c] = "open" /\ sock[c] = m.to[2]
                           THEN Append(fromServer[c], e) ELSE fromServer[c]
      BY <3>1, <3>2, SendToReaches
    <3>4. QED
      BY <3>3
  <2>3. QED
    BY <2>1, <2>2
<1>5. QED
  BY <1>2, <1>3, <1>4

LEMMA SubmittedGrows ==
  ASSUME TypeOK, [Next]_vars
  PROVE  /\ Submitted \subseteq Submitted'
         /\ \A q \in Requests : Submit(q) => Submitted' = Submitted \cup {q}
<1>1. ASSUME NEW q \in Requests, Submit(q)
      PROVE  Submitted' = Submitted \cup {q}
  <2>1. version[q] \in Nat /\ version' = [version EXCEPT ![q] = @ + 1]
    BY <1>1, BoundsAreNatural DEF Submit, TypeOK
  <2>2. \A r \in Requests : version'[r] > 0 <=> version[r] > 0 \/ r = q
    BY <2>1, BoundsAreNatural DEF TypeOK
  <2>3. QED
    BY <2>2 DEF Submitted
<1>2. (\E q \in Requests : Submit(q)) \/ UNCHANGED version
  <2>1. ServerStep => (\E q \in Requests : Submit(q)) \/ UNCHANGED version
    BY DEF ServerStep, Handle, MergeEnds, BuildReview, server
  <2>2. ASSUME NEW d \in Dashboards, SocketStep(d)
        PROVE  UNCHANGED version
    BY <2>2 DEF SocketStep, Start, Opens, Drops, Stop, Deliver, Render, server
  <2>3. ASSUME NEW d \in Dashboards, OperatorStep(d)
        PROVE  UNCHANGED version
    BY <2>3, OperatorActs DEF server
  <2>4. QED
    BY <2>1, <2>2, <2>3 DEF Next, vars, server
<1>3. QED
  BY <1>1, <1>2 DEF Submitted

\* A dashboard whose lists have not changed.
LEMMA SubmittedStays ==
  ASSUME NEW c, SubmittedOn(c), Submitted \subseteq Submitted',
         toServer'[c] = toServer[c], fromServer'[c] = fromServer[c],
         notes'[c] = notes[c], seen'[c] = seen[c], preview'[c] = preview[c]
  PROVE  SubmittedOn(c)'
<1>1. \A list : About(list, Submitted) => About(list, Submitted')
  BY AboutMore
<1>2. QED
  BY <1>1 DEF SubmittedOn

LEMMA ServerKeepsSubmitted ==
  ASSUME TypeOK, SubmittedAll, ServerStep
  PROVE  SubmittedAll'
<1>1. Submitted \subseteq Submitted' /\ \A q \in Requests : Submit(q) => Submitted' = Submitted \cup {q}
  BY SubmittedGrows DEF Next
<1>2. UNCHANGED <<notes, seen, preview>>
  BY ServerSends
<1>3. \A list : About(list, Submitted) => About(list, Submitted')
  BY <1>1, AboutMore
<1>4. ASSUME NEW q \in Requests, Submit(q)
      PROVE  SubmittedAll'
  <2>1. Submitted' = Submitted \cup {q}
    BY <1>1, <1>4
  <2>2. PICK e \in Event : e.request = q /\ e.event = "AGENT_TASK_READY" /\ Broadcast(e)
    BY <1>4, SubmitTells
  <2>3. \A r \in Requests : state'[r] # "none" <=> r \in Submitted'
    BY <1>4, <2>1 DEF Submit, SubmittedAll, TypeOK
  <2>4. \A m \in merges' : m.request \in Submitted'
    BY <1>4, <2>1 DEF Submit, SubmittedAll
  <2>5. ASSUME NEW c \in Dashboards
        PROVE  SubmittedOn(c)'
    <3>1. SubmittedOn(c) /\ toServer'[c] = toServer[c]
      BY <1>4 DEF SubmittedAll, Submit
    <3>2. About(fromServer[c], Submitted')
      BY <1>3, <3>1 DEF SubmittedOn
    <3>3. Tells(c, q)
      BY <2>2, BroadcastTells
    <3>4. About(fromServer'[c], Submitted')
      BY <2>1, <3>2, <3>3, TellsSubmitted
    <3>5. QED
      BY <1>1, <1>2, <1>3, <3>1, <3>4 DEF SubmittedOn
  <2>6. QED
    BY <2>3, <2>4, <2>5 DEF SubmittedAll
<1>5. ASSUME NEW d \in Dashboards, NEW i \in DOMAIN toServer[d], Handle(d, i)
      PROVE  SubmittedAll'
  <2> DEFINE m == toServer[d][i]
  <2>1. m.request \in Submitted /\ toServer[d] \in Seq(Action)
    BY DEF SubmittedAll, SubmittedOn, About, TypeOK
  <2>2. UNCHANGED Submitted
    BY <1>5 DEF Handle, Submitted
  <2>3. /\ toServer' = [toServer EXCEPT ![d] = Dropping(@, i)]
        /\ UNCHANGED state \/ \E s \in {"approving", "rejected"} :
                                state' = [state EXCEPT ![m.request] = s]
        /\ UNCHANGED merges \/ \E n : n.request = m.request /\ merges' = merges \cup {n}
        /\ UNCHANGED fromServer
             \/ \E e \in Event : e.request = m.request /\ SendTo(d, m.sock, e)
    BY <1>5, HandleTells
  <2> HIDE DEF m
  <2>4. \A r \in Requests : state'[r] # "none" <=> r \in Submitted'
    BY <2>1, <2>2, <2>3 DEF SubmittedAll, TypeOK
  <2>5. \A n \in merges' : n.request \in Submitted'
    BY <2>1, <2>2, <2>3 DEF SubmittedAll
  <2>6. ASSUME NEW c \in Dashboards
        PROVE  SubmittedOn(c)'
    <3>1. SubmittedOn(c)
      BY DEF SubmittedAll
    <3>2. Tells(c, m.request)
      BY <2>3, SendToTells DEF Tells
    <3>3. About(fromServer'[c], Submitted)
      BY <2>1, <3>1, <3>2, TellsSubmitted DEF SubmittedOn
    <3>4. About(toServer'[c], Submitted)
      <4>1. CASE c = d
        <5>1. toServer'[c] = Dropping(toServer[d], i)
          BY <2>3, <4>1 DEF TypeOK
        <5>2. About(Dropping(toServer[d], i), Submitted)
          BY <2>1, <3>1, <4>1, AboutOthers DEF SubmittedOn
        <5>3. QED
          BY <5>1, <5>2
      <4>2. CASE c # d
        BY <2>3, <3>1, <4>2 DEF SubmittedOn, TypeOK
      <4>3. QED
        BY <4>1, <4>2
    <3>5. QED
      BY <1>2, <2>2, <3>1, <3>3, <3>4 DEF SubmittedOn
  <2>7. QED
    BY <2>4, <2>5, <2>6 DEF SubmittedAll
<1>6. ASSUME NEW m \in merges, NEW ok \in BOOLEAN, MergeEnds(m, ok)
      PROVE  SubmittedAll'
  <2>1. m.request \in Submitted
    BY DEF SubmittedAll
  <2>2. UNCHANGED Submitted /\ UNCHANGED toServer /\ merges' = merges \ {m}
    BY <1>6 DEF MergeEnds, Submitted
  <2>3. \A c \in Dashboards : Tells(c, m.request)
    BY <1>6, MergeEndsTells DEF Tells
  <2>4. \A r \in Requests : state'[r] # "none" <=> r \in Submitted'
    BY <1>6, <2>1, <2>2 DEF MergeEnds, SubmittedAll, TypeOK
  <2>5. ASSUME NEW c \in Dashboards
        PROVE  SubmittedOn(c)'
    <3>1. SubmittedOn(c)
      BY DEF SubmittedAll
    <3>2. About(fromServer'[c], Submitted)
      BY <2>1, <2>3, <3>1, TellsSubmitted DEF SubmittedOn
    <3>3. QED
      BY <1>2, <2>2, <3>1, <3>2 DEF SubmittedOn
  <2>6. QED
    BY <2>2, <2>4, <2>5 DEF SubmittedAll
<1>7. ASSUME NEW d \in Dashboards, NEW f \in fetches[d], BuildReview(d, f)
      PROVE  SubmittedAll'
  <2>1. UNCHANGED <<server, toServer, fromServer, notes, seen, preview>>
    BY <1>7 DEF BuildReview
  <2>2. UNCHANGED <<state, merges>>
    BY <2>1 DEF server
  <2>3. UNCHANGED Submitted
    BY <2>1 DEF server, Submitted
  <2>4. QED
    BY <2>1, <2>2, <2>3, SubmittedStays DEF SubmittedAll
<1>8. QED
  BY <1>4, <1>5, <1>6, <1>7 DEF ServerStep

\* Which requests have notes after an event, and which note is the first.
LEMMA DeliverPlaces ==
  ASSUME TypeOK, NEW d \in Dashboards, NEW e \in Event, NEW new \in Seq(Note),
         e.request \in Requests, Shows(d, e, notes[d], new)
  PROVE  /\ \A r : r # e.request => SameFor(notes[d], new, r)
         /\ \A r : r # e.request => (r \in lost'[d] <=> r \in lost[d])
         /\ e.event \in {"MERGE_FAILED", "MERGE_SKIPPED"} =>
              (Of(new, e.request) = {} <=> Of(notes[d], e.request) = {})
         /\ e.event = "AGENT_TASK_READY" =>
              /\ Of(new, e.request) # {} \/ e.request \in lost'[d]
              /\ Of(notes[d], e.request) # {} =>
                   Of(new, e.request) # {} /\ First(new, e.request) = First(notes[d], e.request)
         /\ e.event # "AGENT_TASK_READY" => lost' = lost
<1> DEFINE list == notes[d]
           q == e.request
<1>1. list \in Seq(Note) /\ q \in Requests /\ lost \in [Dashboards -> SUBSET Requests]
  BY DEF TypeOK
<1>2. \A r : SameFor(list, list, r)
  BY DEF SameFor
<1>3. CASE new = list /\ e.event = "MERGE_SKIPPED" /\ UNCHANGED lost
  BY <1>2, <1>3
<1>4. CASE new = list /\ e.event = "AGENT_TASK_READY" /\ lost' = [lost EXCEPT ![d] = @ \cup {q}]
  <2>1. q \in lost'[d] /\ \A r : r # q => (r \in lost'[d] <=> r \in lost[d])
    BY <1>1, <1>4
  <2>2. QED
    BY <1>2, <1>4, <2>1
<1>5. ASSUME NEW v \in Versions, e.event = "AGENT_TASK_READY",
             new = Append(list, [request |-> q, version |-> v, status |-> "READY"]),
             lost' = [lost EXCEPT ![d] = @ \ {q}]
      PROVE  /\ \A r : r # q => SameFor(list, new, r) /\ (r \in lost'[d] <=> r \in lost[d])
             /\ Of(new, q) # {}
             /\ Of(list, q) # {} => First(new, q) = First(list, q)
  <2> DEFINE n == [request |-> q, version |-> v, status |-> "READY"]
  <2>1. n \in Note /\ n.request = q /\ n.status = "READY"
    BY DEF Note
  <2> HIDE DEF n
  <2>2. new = Append(list, n)
    BY <1>5 DEF n
  <2>3. \A r : r # q => (r \in lost'[d] <=> r \in lost[d])
    BY <1>1, <1>5
  <2> HIDE DEF list, q
  <2>4. /\ Of(Append(list, n), n.request) # {}
        /\ Of(list, n.request) # {} => First(Append(list, n), n.request) = First(list, n.request)
    BY <1>1, <2>1, AddedIsLast
  <2>5. \A r : r # n.request => SameFor(list, Append(list, n), r)
    BY <1>1, <2>1, AddedIsLast
  <2>6. QED
    BY <2>1, <2>2, <2>3, <2>4, <2>5
<1>6. CASE /\ e.event \in {"MERGE_SUCCESS", "AGENT_RESTARTED"} /\ UNCHANGED lost
           /\ new = IF Of(seen[d], q) = {} THEN list ELSE Without(list, q)
  <2> HIDE DEF list, q
  <2>1. \A r : r # q => SameFor(list, Without(list, q), r)
    BY <1>1, WithoutKeepsOthers
  <2>2. new = list \/ new = Without(list, q)
    BY <1>6
  <2>3. \A r : r # q => SameFor(list, new, r)
    BY <1>2, <2>1, <2>2
  <2>4. QED
    BY <1>6, <2>3 DEF list, q
<1>7. CASE /\ e.event = "MERGE_FAILED" /\ UNCHANGED lost
           /\ new = IF Of(seen[d], q) = {} THEN list ELSE WithStatus(list, q, "READY")
  <2> HIDE DEF list, q
  <2>1. "READY" \in {"READY", "APPROVING", "REJECTING"}
    OBVIOUS
  <2>2. \A r : r # q => SameFor(list, WithStatus(list, q, "READY"), r)
    BY <1>1, <2>1, WithStatusKeepsOthers
  <2>3. Of(WithStatus(list, q, "READY"), q) = Of(list, q)
    BY <1>1, <2>1, WithStatusKeepsPlaces
  <2>4. new = list \/ new = WithStatus(list, q, "READY")
    BY <1>7
  <2>5. (\A r : r # q => SameFor(list, new, r)) /\ Of(new, q) = Of(list, q)
    BY <1>2, <2>2, <2>3, <2>4
  <2>6. QED
    BY <1>7, <2>5 DEF list, q
<1>8. QED
  BY <1>3, <1>4, <1>5, <1>6, <1>7 DEF Shows

LEMMA DeliverKeepsSubmitted ==
  ASSUME TypeOK, SubmittedAll, NEW d \in Dashboards, Deliver(d), NEW c \in Dashboards
  PROVE  SubmittedOn(c)'
<1>1. PICK e \in Event, new \in Seq(Note) :
        /\ e = Head(fromServer[d]) /\ e.request \in Requests
        /\ Shows(d, e, notes[d], new)
        /\ notes' = [notes EXCEPT ![d] = new]
  BY DeliverShows
<1>2. SubmittedOn(c) /\ SubmittedOn(d)
  BY DEF SubmittedAll
<1>3. /\ UNCHANGED <<toServer, seen, preview>> /\ UNCHANGED Submitted
      /\ fromServer' = [fromServer EXCEPT ![d] = Tail(@)] /\ fromServer[d] # <<>>
  BY DEF Deliver, Submitted, server
<1>4. CASE c # d
  <2>1. notes'[c] = notes[c] /\ fromServer'[c] = fromServer[c]
    BY <1>1, <1>3, <1>4 DEF TypeOK
  <2>2. QED
    BY <1>2, <1>3, <2>1, SubmittedStays
<1>5. CASE c = d
  <2>1. notes'[c] = new /\ fromServer'[c] = Tail(fromServer[c])
    BY <1>1, <1>3, <1>5 DEF TypeOK
  <2>2. About(Tail(fromServer[c]), Submitted) /\ Head(fromServer[c]).request \in Submitted
    <3>1. fromServer[c] \in Seq(Event)
      BY DEF TypeOK
    <3>2. QED
      BY <1>2, <1>3, <1>5, <3>1, AboutRest DEF SubmittedOn
  <2>3. \A r : r # e.request => (Of(new, r) = {} <=> Of(notes[c], r) = {})
    <3>1. \A r : r # e.request => SameFor(notes[d], new, r)
      BY <1>1, DeliverPlaces
    <3>2. QED
      BY <1>5, <3>1 DEF SameFor
  <2>4. About(new, Submitted)
    BY <1>1, <1>2, <1>5, <2>2, <2>3, AboutNotes DEF SubmittedOn
  <2>5. QED
    BY <1>2, <1>3, <2>1, <2>2, <2>4 DEF SubmittedOn
<1>6. QED
  BY <1>4, <1>5

LEMMA SocketKeepsSubmitted ==
  ASSUME LinkedInv, SubmittedAll, NEW d \in Dashboards, SocketStep(d)
  PROVE  SubmittedAll'
<1>1. TypeOK
  BY DEF LinkedInv
<1>2. UNCHANGED <<state, merges>> /\ UNCHANGED Submitted
  BY DEF SocketStep, Start, Opens, Drops, Stop, Deliver, Render, server, Submitted
<1>3. \A list : list = <<>> => About(list, Submitted)
  BY DEF About
<1>4. ASSUME NEW c \in Dashboards
      PROVE  SubmittedOn(c)'
  <2>1. SubmittedOn(c)
    BY DEF SubmittedAll
  <2>2. CASE Deliver(d)
    BY <1>1, <2>2, DeliverKeepsSubmitted
  <2>3. CASE Start(d) \/ Opens(d) \/ Stop(d) \/ Render(d)
    <3>1. UNCHANGED <<toServer, preview>>
      BY <2>3 DEF Start, Opens, Stop, Render
    <3>2. /\ notes'[c] \in {notes[c], <<>>} /\ seen'[c] \in {seen[c], notes[c], <<>>}
          /\ fromServer'[c] \in {fromServer[c], <<>>}
      BY <1>1, <2>3 DEF Start, Opens, Stop, Render, TypeOK
    <3>3. QED
      BY <1>2, <1>3, <2>1, <3>1, <3>2 DEF SubmittedOn
  <2>4. CASE Drops(d)
    <3>1. UNCHANGED <<notes, seen, preview>> /\ fromServer'[c] \in {fromServer[c], <<>>}
      BY <1>1, <2>4 DEF Drops, TypeOK
    <3>2. PICK k \in 0 .. Len(toServer[d]) : toServer' = [toServer EXCEPT ![d] = SubSeq(@, 1, k)]
      BY <2>4 DEF Drops
    <3>3. About(toServer'[c], Submitted)
      <4>1. CASE c = d
        <5>1. toServer'[c] = SubSeq(toServer[c], 1, k) /\ toServer[c] \in Seq(Action)
          BY <1>1, <3>2, <4>1 DEF TypeOK
        <5>2. About(SubSeq(toServer[c], 1, k), Submitted)
          BY <2>1, <4>1, <5>1, AboutFront DEF SubmittedOn
        <5>3. QED
          BY <5>1, <5>2
      <4>2. CASE c # d
        BY <1>1, <2>1, <3>2, <4>2 DEF SubmittedOn, TypeOK
      <4>3. QED
        BY <4>1, <4>2
    <3>4. QED
      BY <1>2, <1>3, <2>1, <3>1, <3>3 DEF SubmittedOn
  <2>5. QED
    BY <2>2, <2>3, <2>4 DEF SocketStep
<1>5. QED
  BY <1>2, <1>4 DEF SubmittedAll

\* An action leaves which requests have notes, as long as the socket is open.
LEMMA ActsPlaces ==
  ASSUME TypeOK, NEW d \in Dashboards, NEW q, NEW t, Acts(d, q, t)
  PROVE  /\ \A r : r # q => SameFor(notes[d], notes'[d], r)
         /\ link[d] = "open" => Of(notes'[d], q) = Of(notes[d], q)
         /\ \A c \in Dashboards \ {d} : notes'[c] = notes[c] /\ toServer'[c] = toServer[c]
<1>1. notes[d] \in Seq(Note) /\ q \in Requests
  BY DEF TypeOK, Acts
<1>2. ASSUME NEW status \in {"APPROVING", "REJECTING"}, notes'[d] = WithStatus(notes[d], q, status)
      PROVE  /\ \A r : r # q => SameFor(notes[d], notes'[d], r)
             /\ Of(notes'[d], q) = Of(notes[d], q)
  <2>1. status \in {"READY", "APPROVING", "REJECTING"}
    OBVIOUS
  <2> DEFINE list == notes[d]
  <2>2. list \in Seq(Note) /\ q \in Requests
    BY <1>1
  <2> HIDE DEF list
  <2>3. \A r : r # q => SameFor(list, WithStatus(list, q, status), r)
    BY <2>1, <2>2, WithStatusKeepsOthers
  <2>4. Of(WithStatus(list, q, status), q) = Of(list, q)
    BY <2>1, <2>2, WithStatusKeepsPlaces
  <2>5. QED
    BY <1>2, <2>3, <2>4 DEF list
<1>3. ASSUME notes'[d] = Without(notes[d], q)
      PROVE  \A r : r # q => SameFor(notes[d], notes'[d], r)
  <2>1. \A r : r # q => SameFor(notes[d], Without(notes[d], q), r)
    BY <1>1, WithoutKeepsOthers
  <2>2. QED
    BY <1>3, <2>1
<1>4. \/ /\ link[d] # "open" /\ notes'[d] = Without(notes[d], q)
      \/ /\ link[d] = "open"
         /\ \E status \in {"APPROVING", "REJECTING"} : notes'[d] = WithStatus(notes[d], q, status)
  BY DEF Acts, TypeOK
<1>5. \A c \in Dashboards \ {d} : notes'[c] = notes[c] /\ toServer'[c] = toServer[c]
  BY DEF Acts, TypeOK
<1>6. QED
  BY <1>2, <1>3, <1>4, <1>5

LEMMA OperatorKeepsSubmitted ==
  ASSUME LinkedInv, SubmittedAll, NEW d \in Dashboards, OperatorStep(d)
  PROVE  SubmittedAll'
<1>1. TypeOK
  BY DEF LinkedInv
<1>2. /\ UNCHANGED <<server, playing, link, sock, fromServer, lost, raced>>
      /\ \/ UNCHANGED <<notes, toServer, ambiguous, seen, skipped, preview>>
         \/ /\ Rendered(d)
            /\ \/ UNCHANGED preview
               \/ \E p \in {NoNote} \cup {seen[d][i] : i \in DOMAIN seen[d]} :
                    preview' = [preview EXCEPT ![d] = p]
            /\ \/ UNCHANGED <<notes, toServer, ambiguous>>
               \/ \E r, t : /\ Acts(d, r, t)
                            /\ \/ \E i \in DOMAIN seen[d] : seen[d][i].request = r
                               \/ preview[d] # NoNote /\ preview[d].request = r
  BY <1>1, OperatorActs
<1>3. UNCHANGED <<state, merges>> /\ UNCHANGED Submitted
  BY <1>2 DEF server, Submitted
<1>4. CASE UNCHANGED <<notes, toServer, ambiguous, seen, skipped, preview>>
  <2>1. \A c \in Dashboards : SubmittedOn(c)'
    BY <1>2, <1>3, <1>4, SubmittedStays DEF SubmittedAll
  <2>2. QED
    BY <1>3, <2>1 DEF SubmittedAll
<1>5. CASE /\ Rendered(d)
           /\ UNCHANGED preview \/ \E p \in {NoNote} \cup {seen[d][i] : i \in DOMAIN seen[d]} :
                                     preview' = [preview EXCEPT ![d] = p]
  <2>1. SubmittedOn(d)
    BY DEF SubmittedAll
  <2>2. preview'[d] # NoNote => preview'[d].request \in Submitted
    <3>1. \A i \in DOMAIN seen[d] : seen[d][i].request \in Submitted
      BY <2>1 DEF SubmittedOn, About
    <3>2. CASE UNCHANGED preview
      BY <2>1, <3>2 DEF SubmittedOn
    <3>3. ASSUME NEW p \in {NoNote} \cup {seen[d][i] : i \in DOMAIN seen[d]},
                 preview' = [preview EXCEPT ![d] = p]
          PROVE  preview'[d] # NoNote => preview'[d].request \in Submitted
      <4>1. preview'[d] = p
        BY <1>1, <3>3 DEF TypeOK
      <4>2. QED
        BY <3>1, <4>1
    <3>4. QED
      BY <1>5, <3>2, <3>3
  <2>3. seen'[d] = notes'[d] /\ \A c \in Dashboards \ {d} : seen'[c] = seen[c] /\ preview'[c] = preview[c]
    BY <1>1, <1>5 DEF Rendered, TypeOK
  <2>4. /\ About(toServer'[d], Submitted) /\ About(notes'[d], Submitted)
        /\ \A c \in Dashboards \ {d} : notes'[c] = notes[c] /\ toServer'[c] = toServer[c]
    <3>1. CASE UNCHANGED <<notes, toServer, ambiguous>>
      BY <2>1, <3>1 DEF SubmittedOn
    <3>2. ASSUME NEW q, NEW t, Acts(d, q, t),
                 \/ \E i \in DOMAIN seen[d] : seen[d][i].request = q
                 \/ preview[d] # NoNote /\ preview[d].request = q
          PROVE  /\ About(toServer'[d], Submitted) /\ About(notes'[d], Submitted)
                 /\ \A c \in Dashboards \ {d} : notes'[c] = notes[c] /\ toServer'[c] = toServer[c]
      <4>1. q \in Submitted
        BY <2>1, <3>2 DEF SubmittedOn, About
      <4>2. /\ \A r : r # q => SameFor(notes[d], notes'[d], r)
            /\ \A c \in Dashboards \ {d} : notes'[c] = notes[c] /\ toServer'[c] = toServer[c]
        BY <1>1, <3>2, ActsPlaces
      <4>3. \A r : Of(notes'[d], r) # {} => r \in Submitted
        BY <2>1, <4>1, <4>2, AboutNotes DEF SubmittedOn, SameFor
      <4>4. About(notes'[d], Submitted)
        BY <4>3, AboutNotes
      <4>5. toServer'[d] = toServer[d]
            \/ \E a \in Action : a.request = q /\ toServer'[d] = Append(toServer[d], a)
        <5>1. CASE UNCHANGED toServer
          BY <5>1
        <5>2. ASSUME NEW action \in {"APPROVE", "REJECT"}, link[d] = "open",
                     toServer' = [toServer EXCEPT ![d] = Append(@,
                       [action |-> action, request |-> q, version |-> t.version, sock |-> sock[d]])]
              PROVE  \E a \in Action : a.request = q /\ toServer'[d] = Append(toServer[d], a)
          <6>1. sock[d] \in Sockets
            BY <5>2 DEF LinkedInv, TypeOK, LinksInv, Sockets
          <6>2. t.version \in Versions /\ q \in Requests
            BY <3>2 DEF Acts, Note
          <6>3. [action |-> action, request |-> q, version |-> t.version, sock |-> sock[d]] \in Action
            BY <6>1, <6>2 DEF Action
          <6>4. QED
            BY <1>1, <5>2, <6>3 DEF TypeOK
        <5>3. QED
          BY <3>2, <5>1, <5>2 DEF Acts
      <4>6. About(toServer'[d], Submitted)
        <5>1. toServer[d] \in Seq(Action) /\ About(toServer[d], Submitted)
          BY <1>1, <2>1 DEF TypeOK, SubmittedOn
        <5>2. QED
          BY <4>1, <4>5, <5>1, AboutAdded
      <4>7. QED
        BY <4>2, <4>4, <4>6
    <3>3. QED
      BY <1>2, <3>1, <3>2, <1>5
  <2>5. ASSUME NEW c \in Dashboards
        PROVE  SubmittedOn(c)'
    <3>1. SubmittedOn(c)
      BY DEF SubmittedAll
    <3>2. CASE c = d
      BY <1>2, <1>3, <2>2, <2>3, <2>4, <3>1, <3>2 DEF SubmittedOn
    <3>3. CASE c # d
      BY <1>2, <1>3, <2>3, <2>4, <3>1, <3>3, SubmittedStays
    <3>4. QED
      BY <3>2, <3>3
  <2>6. QED
    BY <1>3, <2>5 DEF SubmittedAll
<1>6. QED
  BY <1>2, <1>4, <1>5

LEMMA SubmittedIsInductive ==
  ASSUME LinkedInv, SubmittedAll, [Next]_vars
  PROVE  SubmittedAll'
<1>1. TypeOK
  BY DEF LinkedInv
<1>2. CASE ServerStep
  BY <1>1, <1>2, ServerKeepsSubmitted
<1>3. ASSUME NEW d \in Dashboards, SocketStep(d)
      PROVE  SubmittedAll'
  BY <1>3, SocketKeepsSubmitted
<1>4. ASSUME NEW d \in Dashboards, OperatorStep(d)
      PROVE  SubmittedAll'
  BY <1>4, OperatorKeepsSubmitted
<1>5. CASE UNCHANGED vars
  <2>1. UNCHANGED Submitted /\ UNCHANGED <<state, merges>>
    BY <1>5 DEF vars, server, Submitted
  <2>2. UNCHANGED <<toServer, fromServer, notes, seen, preview>>
    BY <1>5 DEF vars, client
  <2>3. \A c \in Dashboards : SubmittedOn(c)'
    BY <2>1, <2>2 DEF SubmittedAll, SubmittedOn
  <2>4. QED
    BY <2>1, <2>3 DEF SubmittedAll
<1>6. QED
  BY <1>2, <1>3, <1>4, <1>5 DEF Next

-----------------------------------------------------------------------------
(* A merge nobody disturbs is the only one of its request *)

\* MergesInv, for one request.
MergedOn(r) ==
  \A m \in merges : m.request = r => state[r] = "approving" /\ \A n \in merges : n.request = r => n = m

LEMMA MergesByRequest ==
  ASSUME TypeOK
  PROVE  MergesInv <=> \A r \in Requests \ raced : MergedOn(r)
<1>1. \A m \in merges : m.request \in Requests
  BY DEF TypeOK, Merge
<1>2. QED
  BY <1>1 DEF MergesInv, MergedOn

\* What the server does to a request it is not asked about: nothing.
LEMMA ServerStateSteps ==
  ASSUME TypeOK, SubmittedAll, ServerStep, NEW r \in Requests \ raced', MergedOn(r)
  PROVE  /\ r \notin raced /\ MergedOn(r)'
         /\ state'[r] \in {"ready", "approving"} =>
              \/ state[r] \in {"ready", "approving"}
              \/ Submit(r)
<1>1. ASSUME NEW q \in Requests, Submit(q)
      PROVE  /\ r \notin raced /\ MergedOn(r)'
             /\ state'[r] \in {"ready", "approving"} =>
                  state[r] \in {"ready", "approving"} \/ Submit(r)
  <2>1. raced' = raced \cup {p \in {q} : Merging(p)}
    BY <1>1 DEF Submit
  <2>2. CASE q = r
    <3>1. \A m \in merges : m.request # r
      BY <2>1, <2>2 DEF Merging
    <3>2. UNCHANGED merges \/ \E n : n.request = r /\ merges' = merges \cup {n}
                                     /\ state'[r] = "approving"
      BY <1>1, <2>2 DEF Submit, TypeOK
    <3>3. MergedOn(r)'
      BY <3>1, <3>2 DEF MergedOn
    <3>4. QED
      BY <1>1, <2>1, <2>2, <3>3
  <2>3. CASE q # r
    <3>1. state'[r] = state[r]
      BY <1>1, <2>3 DEF Submit, TypeOK
    <3>2. \A m : m.request = r => (m \in merges' <=> m \in merges)
      BY <1>1, <2>3 DEF Submit
    <3>3. MergedOn(r)'
      BY <3>1, <3>2 DEF MergedOn
    <3>4. QED
      BY <2>1, <3>1, <3>3
  <2>4. QED
    BY <2>2, <2>3
<1>2. ASSUME NEW d \in Dashboards, NEW i \in DOMAIN toServer[d], Handle(d, i)
      PROVE  /\ r \notin raced /\ MergedOn(r)'
             /\ state'[r] \in {"ready", "approving"} => state[r] \in {"ready", "approving"}
  <2> DEFINE q == toServer[d][i].request
  <2>1. q \in Submitted /\ q \in Requests
    BY DEF SubmittedAll, SubmittedOn, About, Submitted
  <2>2. \/ UNCHANGED <<state, merges, raced>>
        \/ /\ ~Skips(q) /\ UNCHANGED raced
           /\ state' = [state EXCEPT ![q] = "approving"]
           /\ \E n : n.request = q /\ merges' = merges \cup {n}
        \/ /\ state' = [state EXCEPT ![q] = "rejected"] /\ UNCHANGED merges
           /\ raced' = raced \cup {p \in {q} : Merging(p)}
    <3>1. LET m == toServer[d][i] IN
            \/ UNCHANGED <<state, merges, raced>>
            \/ /\ ~Skips(m.request) /\ UNCHANGED raced
               /\ state' = [state EXCEPT ![m.request] = "approving"]
               /\ \E n : n.request = m.request /\ n.to = <<d, m.sock>> /\ merges' = merges \cup {n}
            \/ /\ state' = [state EXCEPT ![m.request] = "rejected"] /\ UNCHANGED merges
               /\ raced' = raced \cup {p \in {m.request} : Merging(p)}
      BY <1>2, HandleTells
    <3>2. QED
      BY <3>1
  <2> HIDE DEF q
  <2>3. CASE UNCHANGED <<state, merges, raced>>
    BY <2>3 DEF MergedOn
  <2>4. ASSUME ~Skips(q), UNCHANGED raced, state' = [state EXCEPT ![q] = "approving"],
               NEW n, n.request = q, merges' = merges \cup {n}
        PROVE  /\ r \notin raced /\ MergedOn(r)'
               /\ state'[r] \in {"ready", "approving"} => state[r] \in {"ready", "approving"}
    <3>1. CASE q = r
      <4>1. state[r] \in {"none", "ready"} /\ state[r] # "none" /\ state'[r] = "approving"
        BY <2>1, <2>4, <3>1 DEF Skips, TypeOK, SubmittedAll
      <4>2. \A m \in merges : m.request # r
        BY <4>1 DEF MergedOn
      <4>3. MergedOn(r)'
        BY <2>4, <4>1, <4>2 DEF MergedOn
      <4>4. QED
        BY <2>4, <4>1, <4>3
    <3>2. CASE q # r
      <4>1. state'[r] = state[r]
        BY <2>1, <2>4, <3>2 DEF TypeOK
      <4>2. \A m : m.request = r => (m \in merges' <=> m \in merges)
        BY <2>4, <3>2
      <4>3. MergedOn(r)'
        BY <4>1, <4>2 DEF MergedOn
      <4>4. QED
        BY <2>4, <4>1, <4>3
    <3>3. QED
      BY <3>1, <3>2
  <2>5. CASE /\ state' = [state EXCEPT ![q] = "rejected"] /\ UNCHANGED merges
             /\ raced' = raced \cup {p \in {q} : Merging(p)}
    <3>1. CASE q = r
      <4>1. \A m \in merges : m.request # r
        BY <2>5, <3>1 DEF Merging
      <4>2. MergedOn(r)' /\ state'[r] = "rejected"
        BY <2>5, <3>1, <4>1 DEF MergedOn, TypeOK
      <4>3. QED
        BY <2>5, <4>2
    <3>2. CASE q # r
      <4>1. state'[r] = state[r]
        BY <2>1, <2>5, <3>2 DEF TypeOK
      <4>2. MergedOn(r)'
        BY <2>5, <4>1 DEF MergedOn
      <4>3. QED
        BY <2>5, <4>1, <4>2
    <3>3. QED
      BY <3>1, <3>2
  <2>6. QED
    BY <2>2, <2>3, <2>4, <2>5
<1>3. ASSUME NEW m \in merges, NEW ok \in BOOLEAN, MergeEnds(m, ok)
      PROVE  /\ r \notin raced /\ MergedOn(r)'
             /\ state'[r] \in {"ready", "approving"} => state[r] \in {"ready", "approving"}
  <2>1. /\ merges' = merges \ {m} /\ UNCHANGED raced
        /\ state' = [state EXCEPT ![m.request] = IF ok THEN "merged" ELSE "ready"]
    BY <1>3 DEF MergeEnds, ghosts
  <2>2. m.request \in Requests
    BY <1>3, MergeEndsTells
  <2>3. CASE m.request = r
    <3>1. state[r] = "approving" /\ \A n \in merges : n.request = r => n = m
      BY <2>3 DEF MergedOn
    <3>2. MergedOn(r)'
      BY <2>1, <3>1 DEF MergedOn
    <3>3. QED
      BY <2>1, <3>1, <3>2
  <2>4. CASE m.request # r
    <3>1. state'[r] = state[r]
      BY <2>1, <2>2, <2>4 DEF TypeOK
    <3>2. MergedOn(r)'
      BY <2>1, <3>1 DEF MergedOn
    <3>3. QED
      BY <2>1, <3>1, <3>2
  <2>5. QED
    BY <2>3, <2>4
<1>4. ASSUME NEW d \in Dashboards, NEW f \in fetches[d], BuildReview(d, f)
      PROVE  /\ r \notin raced /\ MergedOn(r)'
             /\ state'[r] \in {"ready", "approving"} => state[r] \in {"ready", "approving"}
  <2>1. UNCHANGED <<state, merges, raced>>
    BY <1>4 DEF BuildReview, server, ghosts
  <2>2. QED
    BY <2>1 DEF MergedOn
<1>5. QED
  BY <1>1, <1>2, <1>3, <1>4 DEF ServerStep

LEMMA DashboardsDecideNothing ==
  ASSUME TypeOK, NEW d \in Dashboards, SocketStep(d) \/ OperatorStep(d)
  PROVE  UNCHANGED <<state, merges, raced>>
<1>1. CASE SocketStep(d)
  BY <1>1 DEF SocketStep, Start, Opens, Drops, Stop, Deliver, Render, server, ghosts
<1>2. CASE OperatorStep(d)
  BY <1>2, OperatorActs DEF server
<1>3. QED
  BY <1>1, <1>2

\* What was raced stays so.
LEMMA RacedStays ==
  ASSUME ServerStep
  PROVE  raced \subseteq raced'
<1>1. ASSUME NEW r \in Requests, Submit(r) PROVE raced \subseteq raced'
  BY <1>1 DEF Submit
<1>2. ASSUME NEW d \in Dashboards, NEW i \in DOMAIN toServer[d], Handle(d, i)
      PROVE  raced \subseteq raced'
  BY <1>2 DEF Handle, Approve, Reject
<1>3. ASSUME NEW m \in merges, NEW ok \in BOOLEAN, MergeEnds(m, ok) PROVE raced \subseteq raced'
  BY <1>3 DEF MergeEnds, ghosts
<1>4. ASSUME NEW d \in Dashboards, NEW f \in fetches[d], BuildReview(d, f)
      PROVE  raced \subseteq raced'
  BY <1>4 DEF BuildReview, ghosts
<1>5. QED
  BY <1>1, <1>2, <1>3, <1>4 DEF ServerStep

LEMMA MergesAreInductive ==
  ASSUME LinkedInv, SubmittedAll, MergesInv, [Next]_vars
  PROVE  MergesInv'
<1>1. TypeOK /\ TypeOK'
  BY LinkedIsInductive DEF LinkedInv
<1>2. \A r \in Requests \ raced : MergedOn(r)
  BY <1>1, MergesByRequest
<1>3. ASSUME NEW r \in Requests \ raced'
      PROVE  MergedOn(r)'
  <2>1. CASE ServerStep
    <3>1. r \notin raced
      BY <2>1, RacedStays
    <3>2. QED
      BY <1>1, <1>2, <2>1, <3>1, ServerStateSteps
  <2>2. CASE UNCHANGED <<state, merges, raced>>
    BY <1>2, <2>2 DEF MergedOn
  <2>3. UNCHANGED vars => UNCHANGED <<state, merges, raced>>
    BY DEF vars, server, ghosts
  <2>4. QED
    BY <1>1, <2>1, <2>2, <2>3, DashboardsDecideNothing DEF Next
<1>4. \A m \in merges' : m.request \in Requests
  BY <1>1 DEF TypeOK, Merge
<1>5. QED
  BY <1>3, <1>4 DEF MergesInv, MergedOn

-----------------------------------------------------------------------------
(* What waits is announced again after each event that removes its note *)

Removing(e, r) == e.event \in {"MERGE_SUCCESS", "AGENT_RESTARTED"} /\ e.request = r
Announcing(e, r) == e.event = "AGENT_TASK_READY" /\ e.request = r
Restored(c, r) ==
  \A i \in DOMAIN fromServer[c] : Removing(fromServer[c][i], r) => Announced(c, r, i)

LEMMA QueueSame ==
  ASSUME NEW c, NEW r, fromServer'[c] = fromServer[c]
  PROVE  /\ \A i : Announced(c, r, i)' <=> Announced(c, r, i)
         /\ Restored(c, r)' <=> Restored(c, r)
<1>1. \A i : Announced(c, r, i)' <=> Announced(c, r, i)
  BY DEF Announced
<1>2. QED
  BY <1>1 DEF Restored

LEMMA QueueAdds ==
  ASSUME TypeOK, NEW c \in Dashboards, NEW r, NEW e \in Event,
         fromServer'[c] = Append(fromServer[c], e)
  PROVE  /\ Announced(c, r, 1) => Announced(c, r, 1)'
         /\ Announcing(e, r) => Announced(c, r, 1)' /\ Restored(c, r)'
         /\ Restored(c, r) /\ ~Removing(e, r) => Restored(c, r)'
<1> DEFINE list == fromServer[c]
           n == Len(list)
           new == fromServer'[c]
<1>1. list \in Seq(Event)
  BY DEF TypeOK
<1>2. /\ n \in Nat /\ DOMAIN list = 1 .. n /\ DOMAIN new = 1 .. n + 1
      /\ \A i \in DOMAIN list : new[i] = list[i]
      /\ new[n + 1] = e
  BY <1>1, AllStay
<1>3. \A i : Announced(c, r, i) <=> \E j \in DOMAIN list : i <= j /\ Announcing(list[j], r)
  BY DEF Announced, Announcing
<1>4. \A i : Announced(c, r, i)' <=> \E j \in DOMAIN new : i <= j /\ Announcing(new[j], r)
  BY DEF Announced, Announcing
<1>5. Restored(c, r) <=> \A i \in DOMAIN list : Removing(list[i], r) => Announced(c, r, i)
  BY DEF Restored
<1>6. Restored(c, r)' <=> \A i \in DOMAIN new : Removing(new[i], r) => Announced(c, r, i)'
  BY DEF Restored
<1> HIDE DEF list, n, new
<1>7. \A i : Announced(c, r, i) => Announced(c, r, i)'
  BY <1>2, <1>3, <1>4
<1>8. Announcing(e, r) => \A i \in DOMAIN new : Announced(c, r, i)'
  BY <1>2, <1>4
<1>9. 1 \in DOMAIN new
  BY <1>2
<1>10. Announcing(e, r) => Announced(c, r, 1)' /\ Restored(c, r)'
  BY <1>6, <1>8, <1>9
<1>11. ASSUME Restored(c, r), ~Removing(e, r), NEW i \in DOMAIN new, Removing(new[i], r)
       PROVE  Announced(c, r, i)'
  <2>1. i # n + 1
    BY <1>2, <1>11
  <2>2. i \in DOMAIN list /\ new[i] = list[i]
    BY <1>2, <2>1
  <2>3. Announced(c, r, i)
    BY <1>5, <1>11, <2>2
  <2>4. QED
    BY <1>7, <2>3
<1>12. QED
  BY <1>6, <1>7, <1>10, <1>11

LEMMA QueueTakes ==
  ASSUME NEW c, NEW r, fromServer[c] \in Seq(Event), fromServer[c] # <<>>,
         fromServer'[c] = Tail(fromServer[c]), Restored(c, r)
  PROVE  /\ Restored(c, r)'
         /\ Announced(c, r, 1) /\ ~Announcing(Head(fromServer[c]), r) => Announced(c, r, 1)'
         /\ Removing(Head(fromServer[c]), r) => Announced(c, r, 1)'
<1> DEFINE list == fromServer[c]
           new == fromServer'[c]
           e == Head(list)
<1>1. /\ e = list[1] /\ 1 \in DOMAIN list
      /\ DOMAIN list = 1 .. Len(list) /\ Len(list) \in Nat
      /\ DOMAIN new = 1 .. Len(list) - 1
      /\ \A i \in DOMAIN new : i + 1 \in DOMAIN list /\ new[i] = list[i + 1]
      /\ \A i \in DOMAIN list : i # 1 => i - 1 \in DOMAIN new /\ new[i - 1] = list[i]
  BY RestStays
<1>2. \A i : Announced(c, r, i) <=> \E j \in DOMAIN list : i <= j /\ Announcing(list[j], r)
  BY DEF Announced, Announcing
<1>3. \A i : Announced(c, r, i)' <=> \E j \in DOMAIN new : i <= j /\ Announcing(new[j], r)
  BY DEF Announced, Announcing
<1>4. \A i \in DOMAIN list : Removing(list[i], r) => Announced(c, r, i)
  BY DEF Restored
<1>5. Restored(c, r)' <=> \A i \in DOMAIN new : Removing(new[i], r) => Announced(c, r, i)'
  BY DEF Restored
<1>6. ~(Removing(e, r) /\ Announcing(e, r))
  BY DEF Removing, Announcing
<1> HIDE DEF list, new, e
<1>7. ASSUME NEW i \in Nat, Announced(c, r, i + 1), i # 0
      PROVE  Announced(c, r, i)'
  <2>1. PICK j \in DOMAIN list : i + 1 <= j /\ Announcing(list[j], r)
    BY <1>2, <1>7
  <2>2. j # 1 /\ i <= j - 1
    BY <1>1, <1>7, <2>1
  <2>3. j - 1 \in DOMAIN new /\ new[j - 1] = list[j]
    BY <1>1, <2>2
  <2>4. QED
    BY <1>3, <2>1, <2>2, <2>3
<1>8. ASSUME Announced(c, r, 1), ~Announcing(e, r)
      PROVE  Announced(c, r, 1)'
  <2>1. PICK j \in DOMAIN list : Announcing(list[j], r)
    BY <1>2, <1>8
  <2>2. j # 1 /\ 1 <= j - 1
    BY <1>1, <1>8, <2>1
  <2>3. j - 1 \in DOMAIN new /\ new[j - 1] = list[j]
    BY <1>1, <2>2
  <2>4. QED
    BY <1>3, <2>1, <2>2, <2>3
<1>9. Removing(e, r) => Announced(c, r, 1)'
  BY <1>1, <1>4, <1>6, <1>8
<1>10. ASSUME NEW i \in DOMAIN new, Removing(new[i], r)
       PROVE  Announced(c, r, i)'
  <2>1. i + 1 \in DOMAIN list /\ new[i] = list[i + 1] /\ i \in Nat /\ i # 0
    BY <1>1
  <2>2. Announced(c, r, i + 1)
    BY <1>4, <1>10, <2>1
  <2>3. QED
    BY <1>7, <2>1, <2>2
<1>11. QED
  BY <1>5, <1>8, <1>9, <1>10 DEF list, e

\* NotesInv, for one dashboard and one request.
NotedOn(c, r) ==
  link[c] = "open" /\ state[r] \in {"ready", "approving"} =>
    /\ r \notin lost[c] => Of(notes[c], r) # {} \/ Announced(c, r, 1)
    /\ Restored(c, r)

LEMMA NotesByDashboard ==
  NotesInv <=> \A c \in Dashboards, r \in Requests \ raced : NotedOn(c, r)
BY DEF NotesInv, NotedOn, Restored, Removing

\* The server sends nothing that removes the note of what it goes on waiting for.
LEMMA ServerRemovesNothing ==
  ASSUME TypeOK, ServerStep, NEW r \in Requests \ raced', state'[r] \in {"ready", "approving"},
         NEW c \in Dashboards
  PROVE  \/ fromServer'[c] = fromServer[c] /\ (Submit(r) => link[c] # "open")
         \/ \E e \in Event : /\ fromServer'[c] = Append(fromServer[c], e) /\ ~Removing(e, r)
                             /\ Submit(r) => Announcing(e, r)
<1> DEFINE Quiet == \/ fromServer'[c] = fromServer[c]
                    \/ \E e \in Event : fromServer'[c] = Append(fromServer[c], e) /\ ~Removing(e, r)
<1>1. ASSUME NEW q \in Requests, Submit(q)
      PROVE  \/ fromServer'[c] = fromServer[c] /\ link[c] # "open"
             \/ \E e \in Event : /\ fromServer'[c] = Append(fromServer[c], e) /\ ~Removing(e, r)
                                 /\ Announcing(e, q)
  <2>1. PICK e \in Event : e.request = q /\ e.event = "AGENT_TASK_READY" /\ Broadcast(e)
    BY <1>1, SubmitTells
  <2>2. fromServer'[c] = IF link[c] = "open" THEN Append(fromServer[c], e) ELSE fromServer[c]
    BY <2>1, BroadcastReaches
  <2>3. ~Removing(e, r) /\ Announcing(e, q)
    BY <2>1 DEF Removing, Announcing
  <2>4. QED
    BY <2>2, <2>3
<1>2. ASSUME NEW d \in Dashboards, NEW i \in DOMAIN toServer[d], Handle(d, i)
      PROVE  Quiet
  <2> DEFINE m == toServer[d][i]
  <2>1. /\ m.request \in Requests
        /\ \/ UNCHANGED fromServer
           \/ \E e \in Event : e.event = "MERGE_SKIPPED" /\ SendTo(d, m.sock, e)
           \/ /\ state' = [state EXCEPT ![m.request] = "rejected"]
              /\ \E e \in Event : e.request = m.request /\ SendTo(d, m.sock, e)
    BY <1>2, HandleTells
  <2> HIDE DEF m
  <2>2. ASSUME NEW e \in Event, SendTo(d, m.sock, e), ~Removing(e, r)
        PROVE  Quiet
    <3>1. fromServer'[c] = IF c = d /\ link[c] = "open" /\ sock[c] = m.sock
                           THEN Append(fromServer[c], e) ELSE fromServer[c]
      BY <2>2, SendToReaches
    <3>2. QED
      BY <2>2, <3>1
  <2>3. state' = [state EXCEPT ![m.request] = "rejected"] => m.request # r
    BY <2>1 DEF TypeOK
  <2>4. CASE UNCHANGED fromServer
    BY <2>4
  <2>5. ASSUME NEW e \in Event, SendTo(d, m.sock, e), e.event = "MERGE_SKIPPED" \/ e.request # r
        PROVE  Quiet
    <3>1. ~Removing(e, r)
      BY <2>5 DEF Removing
    <3> HIDE DEF Quiet
    <3>2. QED
      BY <2>2, <2>5, <3>1
  <2> HIDE DEF Quiet
  <2>6. QED
    BY <2>1, <2>3, <2>4, <2>5
<1>3. ASSUME NEW m \in merges, NEW ok \in BOOLEAN, MergeEnds(m, ok)
      PROVE  Quiet
  <2>1. PICK e \in Event :
          /\ e.event \in {"MERGE_SUCCESS", "MERGE_FAILED"} /\ e.request = m.request
          /\ e.event = "MERGE_SUCCESS" => ok
          /\ fromServer'[c] = fromServer[c] \/ fromServer'[c] = Append(fromServer[c], e)
    BY <1>3, MergeEndsTells
  <2>2. m.request \in Requests
    BY <1>3, MergeEndsTells
  <2>3. ok => state'[m.request] = "merged"
    BY <1>3, <2>2 DEF MergeEnds, TypeOK
  <2>4. ~Removing(e, r)
    BY <2>1, <2>3 DEF Removing
  <2>5. QED
    BY <2>1, <2>4
<1>4. ASSUME NEW d \in Dashboards, NEW f \in fetches[d], BuildReview(d, f)
      PROVE  Quiet
  BY <1>4 DEF BuildReview
<1>5. CASE Submit(r)
  BY <1>1, <1>5
<1>6. CASE ~Submit(r)
  <2>1. (\E q \in Requests : Submit(q)) => Quiet
    BY <1>1
  <2> HIDE DEF Quiet
  <2>2. Quiet
    BY <1>2, <1>3, <1>4, <2>1 DEF ServerStep
  <2>3. QED
    BY <1>6, <2>2 DEF Quiet
<1>7. QED
  BY <1>5, <1>6

LEMMA NotesStay ==
  ASSUME NEW c, NEW r, NotedOn(c, r), fromServer'[c] = fromServer[c], link'[c] = link[c],
         state'[r] = state[r], lost'[c] = lost[c], Of(notes'[c], r) = {} <=> Of(notes[c], r) = {}
  PROVE  NotedOn(c, r)'
<1>1. /\ Announced(c, r, 1)' <=> Announced(c, r, 1)
      /\ Restored(c, r)' <=> Restored(c, r)
  BY QueueSame
<1>2. QED
  BY <1>1 DEF NotedOn

LEMMA ServerKeepsNotes ==
  ASSUME LinkedInv, SubmittedAll, ServerStep, NEW c \in Dashboards, NEW r \in Requests \ raced',
         MergedOn(r), NotedOn(c, r)
  PROVE  NotedOn(c, r)'
<1>1. TypeOK
  BY DEF LinkedInv
<1>2. UNCHANGED <<link, notes, lost>>
  <2>1. UNCHANGED lost
    BY DEF ServerStep, Submit, Handle, MergeEnds, BuildReview, ghosts
  <2>2. QED
    BY <1>1, <2>1, ServerSends
<1>3. SUFFICES ASSUME link[c] = "open", state'[r] \in {"ready", "approving"}
               PROVE  /\ r \notin lost[c] => Of(notes[c], r) # {} \/ Announced(c, r, 1)'
                      /\ Restored(c, r)'
  BY <1>2 DEF NotedOn
<1>4. \/ fromServer'[c] = fromServer[c] /\ ~Submit(r)
      \/ \E e \in Event : /\ fromServer'[c] = Append(fromServer[c], e) /\ ~Removing(e, r)
                          /\ Submit(r) => Announcing(e, r)
  BY <1>1, <1>3, ServerRemovesNothing
<1>5. CASE Submit(r)
  <2>1. PICK e \in Event : fromServer'[c] = Append(fromServer[c], e) /\ Announcing(e, r)
    BY <1>4, <1>5
  <2>2. QED
    BY <1>1, <2>1, QueueAdds
<1>6. CASE ~Submit(r)
  <2>1. state[r] \in {"ready", "approving"}
    BY <1>1, <1>3, <1>6, ServerStateSteps
  <2>2. /\ r \notin lost[c] => Of(notes[c], r) # {} \/ Announced(c, r, 1)
        /\ Restored(c, r)
    BY <1>3, <2>1 DEF NotedOn
  <2>3. CASE fromServer'[c] = fromServer[c]
    BY <2>2, <2>3, QueueSame
  <2>4. ASSUME NEW e \in Event, fromServer'[c] = Append(fromServer[c], e), ~Removing(e, r)
        PROVE  /\ Announced(c, r, 1) => Announced(c, r, 1)'
               /\ Restored(c, r)'
    BY <1>1, <2>2, <2>4, QueueAdds
  <2>5. QED
    BY <1>4, <2>2, <2>3, <2>4
<1>7. QED
  BY <1>5, <1>6

LEMMA DeliverKeepsNotes ==
  ASSUME TypeOK, NEW d \in Dashboards, Deliver(d), NEW r \in Requests, NotedOn(d, r)
  PROVE  NotedOn(d, r)'
<1>1. PICK e \in Event, new \in Seq(Note) :
        /\ e = Head(fromServer[d]) /\ e.request \in Requests
        /\ Shows(d, e, notes[d], new)
        /\ notes' = [notes EXCEPT ![d] = new]
  BY DeliverShows
<1>2. /\ fromServer'[d] = Tail(fromServer[d]) /\ fromServer[d] # <<>>
      /\ fromServer[d] \in Seq(Event) /\ UNCHANGED <<link, state>> /\ link[d] = "open"
  BY DEF Deliver, TypeOK, server
<1>3. notes'[d] = new
  BY <1>1 DEF TypeOK
<1>4. SUFFICES ASSUME state[r] \in {"ready", "approving"}
               PROVE  /\ r \notin lost'[d] => Of(new, r) # {} \/ Announced(d, r, 1)'
                      /\ Restored(d, r)'
  BY <1>2, <1>3 DEF NotedOn
<1>5. /\ r \notin lost[d] => Of(notes[d], r) # {} \/ Announced(d, r, 1)
      /\ Restored(d, r)
  BY <1>2, <1>4 DEF NotedOn
<1>6. /\ Restored(d, r)'
      /\ Announced(d, r, 1) /\ ~Announcing(e, r) => Announced(d, r, 1)'
      /\ Removing(e, r) => Announced(d, r, 1)'
  BY <1>1, <1>2, <1>5, QueueTakes
<1>7. /\ \A p : p # e.request => SameFor(notes[d], new, p)
      /\ \A p : p # e.request => (p \in lost'[d] <=> p \in lost[d])
      /\ e.event \in {"MERGE_FAILED", "MERGE_SKIPPED"} =>
           (Of(new, e.request) = {} <=> Of(notes[d], e.request) = {})
      /\ e.event = "AGENT_TASK_READY" => Of(new, e.request) # {} \/ e.request \in lost'[d]
      /\ e.event # "AGENT_TASK_READY" => lost' = lost
  BY <1>1, DeliverPlaces
<1>8. CASE r # e.request
  <2>1. ~Announcing(e, r)
    BY <1>8 DEF Announcing
  <2>2. Of(new, r) = {} <=> Of(notes[d], r) = {}
    BY <1>7, <1>8 DEF SameFor
  <2>3. QED
    BY <1>5, <1>6, <1>7, <1>8, <2>1, <2>2
<1>9. CASE r = e.request
  <2>1. e.event \in {"AGENT_TASK_READY", "MERGE_SUCCESS", "MERGE_FAILED", "MERGE_SKIPPED",
                     "AGENT_RESTARTED"}
    BY <1>1 DEF Event
  <2>2. CASE e.event = "AGENT_TASK_READY"
    BY <1>6, <1>7, <1>9, <2>2
  <2>3. CASE e.event \in {"MERGE_SUCCESS", "AGENT_RESTARTED"}
    BY <1>6, <1>9, <2>3 DEF Removing
  <2>4. CASE e.event \in {"MERGE_FAILED", "MERGE_SKIPPED"}
    <3>1. ~Announcing(e, r) /\ lost' = lost
      BY <1>7, <2>4 DEF Announcing
    <3>2. QED
      BY <1>5, <1>6, <1>7, <1>9, <2>4, <3>1
  <2>5. QED
    BY <2>1, <2>2, <2>3, <2>4
<1>10. QED
  BY <1>8, <1>9

LEMMA SocketKeepsNotes ==
  ASSUME LinkedInv, SubmittedAll, NEW d \in Dashboards, SocketStep(d),
         NEW c \in Dashboards, NEW r \in Requests, NotedOn(c, r)
  PROVE  NotedOn(c, r)'
<1>1. TypeOK
  BY DEF LinkedInv
<1>2. UNCHANGED state
  BY <1>1, DashboardsDecideNothing
<1>3. CASE c # d
  <2>1. fromServer'[c] = fromServer[c] /\ link'[c] = link[c]
    BY <1>1, <1>3 DEF SocketStep, Start, Opens, Drops, Stop, Deliver, Render, TypeOK
  <2>2. notes'[c] = notes[c] /\ lost'[c] = lost[c]
    <3>1. CASE Deliver(d)
      <4>1. PICK e, new : Shows(d, e, notes[d], new) /\ notes' = [notes EXCEPT ![d] = new]
        BY <1>1, <3>1, DeliverShows
      <4>2. QED
        BY <1>1, <1>3, <4>1 DEF TypeOK, Shows
    <3>2. CASE Start(d) \/ Opens(d) \/ Drops(d) \/ Stop(d) \/ Render(d)
      BY <1>1, <1>3, <3>2 DEF Start, Opens, Drops, Stop, Render, TypeOK, ghosts
    <3>3. QED
      BY <3>1, <3>2 DEF SocketStep
  <2>3. QED
    BY <1>2, <2>1, <2>2, NotesStay
<1>4. CASE c = d /\ Deliver(d)
  BY <1>1, <1>4, DeliverKeepsNotes
<1>5. CASE c = d /\ (Start(d) \/ Drops(d) \/ Stop(d))
  <2>1. link'[c] # "open"
    BY <1>1, <1>5 DEF Start, Drops, Stop, TypeOK
  <2>2. QED
    BY <2>1 DEF NotedOn
<1>6. CASE c = d /\ Opens(d)
  <2>1. fromServer'[c] = <<>> /\ lost'[c] = Submitted
    BY <1>1, <1>6 DEF Opens, LinkedInv, LinksInv, TypeOK, Submitted
  <2>2. state[r] \in {"ready", "approving"} => r \in Submitted
    BY DEF SubmittedAll
  <2>3. Restored(c, r)'
    BY <2>1 DEF Restored
  <2>4. QED
    BY <1>2, <2>1, <2>2, <2>3 DEF NotedOn
<1>7. CASE c = d /\ Render(d)
  BY <1>2, <1>7, NotesStay DEF Render, ghosts
<1>8. QED
  BY <1>3, <1>4, <1>5, <1>6, <1>7 DEF SocketStep

LEMMA OperatorKeepsNotes ==
  ASSUME LinkedInv, NEW d \in Dashboards, OperatorStep(d),
         NEW c \in Dashboards, NEW r \in Requests, NotedOn(c, r)
  PROVE  NotedOn(c, r)'
<1>1. TypeOK
  BY DEF LinkedInv
<1>2. /\ UNCHANGED <<state, link, fromServer, lost>>
      /\ UNCHANGED notes \/ \E q, t : Acts(d, q, t)
  BY <1>1, OperatorActs DEF server
<1>3. CASE link[c] # "open"
  BY <1>2, <1>3 DEF NotedOn
<1>4. CASE link[c] = "open"
  <2>1. Of(notes'[c], r) = {} <=> Of(notes[c], r) = {}
    <3>1. ASSUME NEW q, NEW t, Acts(d, q, t)
          PROVE  Of(notes'[c], r) = {} <=> Of(notes[c], r) = {}
      <4>1. /\ \A p : p # q => SameFor(notes[d], notes'[d], p)
            /\ link[d] = "open" => Of(notes'[d], q) = Of(notes[d], q)
            /\ c # d => notes'[c] = notes[c]
        BY <1>1, <3>1, ActsPlaces
      <4>2. QED
        BY <1>4, <4>1 DEF SameFor
    <3>2. QED
      BY <1>2, <3>1
  <2>2. QED
    BY <1>2, <2>1, NotesStay
<1>5. QED
  BY <1>3, <1>4

\* The inductive invariant of what waits.
VisibleInv == LinkedInv /\ SubmittedAll /\ MergesInv /\ NotesInv

LEMMA VisibleHoldsInitially == ASSUME Init PROVE VisibleInv
<1>1. LinkedInv
  BY TypesHoldInitially
<1>2. SubmittedAll
  <2>1. Submitted = {}
    BY DEF Init, Submitted
  <2>2. \A c \in Dashboards : SubmittedOn(c)
    BY <2>1 DEF Init, SubmittedOn, About
  <2>3. QED
    BY <2>1, <2>2 DEF Init, SubmittedAll
<1>3. MergesInv /\ NotesInv
  BY DEF Init, MergesInv, NotesInv
<1>4. QED
  BY <1>1, <1>2, <1>3 DEF VisibleInv

LEMMA VisibleIsInductive ==
  ASSUME VisibleInv, [Next]_vars
  PROVE  VisibleInv'
<1>1. LinkedInv /\ TypeOK /\ SubmittedAll /\ MergesInv
  BY DEF VisibleInv, LinkedInv
<1>2. LinkedInv' /\ SubmittedAll' /\ MergesInv'
  BY <1>1, LinkedIsInductive, SubmittedIsInductive, MergesAreInductive
<1>3. \A c \in Dashboards, r \in Requests \ raced : NotedOn(c, r) /\ MergedOn(r)
  BY <1>1, NotesByDashboard, MergesByRequest DEF VisibleInv
<1>4. ASSUME NEW c \in Dashboards, NEW r \in Requests \ raced'
      PROVE  NotedOn(c, r)'
  <2>1. CASE ServerStep
    <3>1. r \notin raced
      BY <2>1, RacedStays
    <3>2. QED
      BY <1>1, <1>3, <2>1, <3>1, ServerKeepsNotes
  <2>2. ASSUME NEW d \in Dashboards, SocketStep(d)
        PROVE  NotedOn(c, r)'
    BY <1>1, <1>3, <2>2, SocketKeepsNotes, DashboardsDecideNothing
  <2>3. ASSUME NEW d \in Dashboards, OperatorStep(d)
        PROVE  NotedOn(c, r)'
    BY <1>1, <1>3, <2>3, OperatorKeepsNotes, DashboardsDecideNothing
  <2>4. CASE UNCHANGED vars
    BY <1>3, <2>4, NotesStay DEF vars, server, client, ghosts
  <2>5. QED
    BY <2>1, <2>2, <2>3, <2>4 DEF Next
<1>5. NotesInv'
  BY <1>4 DEF NotesInv, NotedOn, Restored, Removing
<1>6. QED
  BY <1>2, <1>5 DEF VisibleInv

\* While a request waits or is merged undisturbed, each connected dashboard that was told of it has
\* its note or will be told again, also after each event on the way that takes the note.
THEOREM VisibleInvariant == Spec => []VisibleInv
<1>1. Init => VisibleInv
  BY VisibleHoldsInitially
<1>2. VisibleInv /\ [Next]_vars => VisibleInv'
  BY VisibleIsInductive
<1>3. QED
  BY <1>1, <1>2, PTL DEF Spec

\* What the server waits for is on every connected dashboard that got its announcement and had room
\* for it, or the announcement is on its way, for any number of submissions, merges and sockets.
THEOREM WaitingIsAlwaysVisible == Spec => []WaitingIsVisible
<1>1. VisibleInv => WaitingIsVisible
  <2>1. ASSUME VisibleInv, NEW d \in Dashboards, link[d] = "open",
               NEW r \in Requests \ (raced \cup lost[d]), state[r] = "ready"
        PROVE  Of(notes[d], r) # {} \/ Announced(d, r, 1)
    BY <2>1 DEF VisibleInv, NotesInv
  <2>2. QED
    BY <2>1 DEF WaitingIsVisible, Announced
<1>2. QED
  BY <1>1, VisibleInvariant, PTL

-----------------------------------------------------------------------------
(* One action on a request at a time. First: no socket is from the future *)

Past(list, n) == \A i \in DOMAIN list : list[i].sock <= n

LEMMA PastOthers ==
  ASSUME NEW list \in Seq(Action), NEW i \in DOMAIN list, NEW n, Past(list, n)
  PROVE  Past(Dropping(list, i), n)
<1> DEFINE new == Dropping(list, i)
<1>1. /\ DOMAIN new = 1 .. Len(list) - 1
      /\ \A j \in DOMAIN new : new[j] = list[IF j < i THEN j ELSE j + 1]
  BY OthersStay
<1>2. \A j \in 1 .. Len(list) - 1 : (IF j < i THEN j ELSE j + 1) \in DOMAIN list
  OBVIOUS
<1> HIDE DEF new
<1>3. Past(new, n)
  BY <1>1, <1>2 DEF Past
<1>4. QED
  BY <1>3 DEF new

LEMMA PastFront ==
  ASSUME NEW list \in Seq(Action), NEW k \in 0 .. Len(list), NEW n, Past(list, n)
  PROVE  Past(SubSeq(list, 1, k), n)
<1> DEFINE new == SubSeq(list, 1, k)
<1>1. DOMAIN new = 1 .. k /\ \A i \in 1 .. k : new[i] = list[i]
  BY FrontStays
<1>2. 1 .. k \subseteq DOMAIN list
  OBVIOUS
<1> HIDE DEF new
<1>3. Past(new, n)
  BY <1>1, <1>2 DEF Past
<1>4. QED
  BY <1>3 DEF new

LEMMA PastAdded ==
  ASSUME NEW list \in Seq(Action), NEW n \in Nat, Past(list, n), NEW a \in Action, a.sock <= n
  PROVE  Past(Append(list, a), n)
<1> DEFINE new == Append(list, a)
           k == Len(list)
<1>1. /\ k \in Nat /\ DOMAIN list = 1 .. k /\ DOMAIN new = 1 .. k + 1
      /\ \A i \in DOMAIN list : new[i] = list[i]
      /\ new[k + 1] = a
  BY AllStay
<1> HIDE DEF new, k
<1>2. Past(new, n)
  BY <1>1 DEF Past
<1>3. QED
  BY <1>2 DEF new

LEMMA PastLater ==
  ASSUME NEW list \in Seq(Action), NEW n \in Nat, NEW k \in Nat, n <= k, Past(list, n)
  PROVE  Past(list, k)
<1>1. ASSUME NEW i \in DOMAIN list
      PROVE  list[i].sock \in Nat
  <2>1. list[i] \in Action
    OBVIOUS
  <2>2. list[i].sock \in Sockets
    BY <2>1 DEF Action
  <2>3. QED
    BY <2>2, BoundsAreNatural DEF Sockets
<1>2. QED
  BY <1>1 DEF Past

\* An action an operator sends is of the socket there is.
LEMMA ActsSend ==
  ASSUME LinkedInv, NEW d \in Dashboards, NEW q, NEW t, Acts(d, q, t)
  PROVE  \/ toServer' = toServer
         \/ \E a \in Action : /\ link[d] = "open" /\ a.request = q /\ a.sock = sock[d]
                              /\ toServer' = [toServer EXCEPT ![d] = Append(@, a)]
<1>1. CASE UNCHANGED toServer
  BY <1>1
<1>2. ASSUME NEW action \in {"APPROVE", "REJECT"}, link[d] = "open",
             toServer' = [toServer EXCEPT ![d] = Append(@,
               [action |-> action, request |-> q, version |-> t.version, sock |-> sock[d]])]
      PROVE  \E a \in Action : /\ a.request = q /\ a.sock = sock[d]
                               /\ toServer' = [toServer EXCEPT ![d] = Append(@, a)]
  <2>1. sock[d] \in Sockets
    BY <1>2 DEF LinkedInv, TypeOK, LinksInv, Sockets
  <2>2. t.version \in Versions /\ q \in Requests
    BY DEF Acts, Note
  <2>3. [action |-> action, request |-> q, version |-> t.version, sock |-> sock[d]] \in Action
    BY <2>1, <2>2 DEF Action
  <2>4. QED
    BY <1>2, <2>3
<1>3. QED
  BY <1>1, <1>2 DEF Acts

\* SocketsInv, for a merge.
Known(m) == IF m.to = Everyone THEN m.request \in ambiguous ELSE m.to[2] <= sock[m.to[1]]

LEMMA SocketsApart ==
  SocketsInv <=> (\A c \in Dashboards : Past(toServer[c], sock[c])) /\ \A m \in merges : Known(m)
BY DEF SocketsInv, Past, Known

LEMMA SocketsAreInductive ==
  ASSUME LinkedInv, SocketsInv, [Next]_vars
  PROVE  SocketsInv'
<1>1. TypeOK
  BY DEF LinkedInv
<1>2. /\ \A c \in Dashboards : Past(toServer[c], sock[c]) /\ sock[c] \in Nat
      /\ \A c \in Dashboards : toServer[c] \in Seq(Action)
      /\ \A m \in merges : Known(m)
  BY <1>1, SocketsApart, BoundsAreNatural DEF TypeOK
<1>3. SUFFICES /\ \A c \in Dashboards : Past(toServer'[c], sock'[c])
               /\ \A m \in merges' : Known(m)'
  BY DEF SocketsInv, Past, Known
<1>4. ASSUME ambiguous \subseteq ambiguous', UNCHANGED sock, NEW m, Known(m)
      PROVE  Known(m)'
  BY <1>4 DEF Known
<1>5. ASSUME NEW q \in Requests, Submit(q)
      PROVE  /\ \A c \in Dashboards : Past(toServer'[c], sock'[c])
             /\ \A m \in merges' : Known(m)'
  <2>1. UNCHANGED <<toServer, sock>> /\ ambiguous \subseteq ambiguous'
    BY <1>5 DEF Submit, client
  <2>2. \A m \in merges' : m \in merges \/ (m.to = Everyone /\ m.request \in ambiguous')
    BY <1>5 DEF Submit
  <2>3. QED
    BY <1>2, <1>4, <2>1, <2>2 DEF Known
<1>6. ASSUME NEW d \in Dashboards, NEW i \in DOMAIN toServer[d], Handle(d, i)
      PROVE  /\ \A c \in Dashboards : Past(toServer'[c], sock'[c])
             /\ \A m \in merges' : Known(m)'
  <2> DEFINE a == toServer[d][i]
  <2>1. UNCHANGED <<sock, ambiguous>>
    BY <1>6 DEF Handle, client
  <2>2. /\ toServer' = [toServer EXCEPT ![d] = Dropping(@, i)]
        /\ UNCHANGED merges \/ \E n : n.to = <<d, a.sock>> /\ merges' = merges \cup {n}
    BY <1>6, HandleTells, <1>1
  <2>3. a.sock <= sock[d]
    BY <1>2 DEF Past
  <2> HIDE DEF a
  <2>4. <<d, a.sock>> # Everyone
    <3>1. <<d, a.sock>> = Everyone => a.sock = 0
      BY DEF Everyone
    <3>2. a.sock # 0
      <4>1. a \in Action
        BY <1>2 DEF a
      <4>2. a.sock \in Sockets
        BY <4>1 DEF Action
      <4>3. QED
        BY <4>2, BoundsAreNatural DEF Sockets
    <3>3. QED
      BY <3>1, <3>2
  <2>5. ASSUME NEW n, n.to = <<d, a.sock>>
        PROVE  Known(n)'
    BY <2>1, <2>3, <2>4, <2>5 DEF Known
  <2>6. \A m \in merges' : Known(m)'
    BY <1>2, <1>4, <2>1, <2>2, <2>5
  <2>7. ASSUME NEW c \in Dashboards
        PROVE  Past(toServer'[c], sock'[c])
    <3>1. CASE c = d
      <4>1. toServer'[c] = Dropping(toServer[d], i)
        BY <1>1, <2>2, <3>1 DEF TypeOK
      <4>2. Past(Dropping(toServer[d], i), sock[d])
        BY <1>2, PastOthers
      <4>3. QED
        BY <2>1, <3>1, <4>1, <4>2
    <3>2. CASE c # d
      BY <1>1, <1>2, <2>1, <2>2, <3>2 DEF TypeOK
    <3>3. QED
      BY <3>1, <3>2
  <2>8. QED
    BY <2>6, <2>7
<1>7. ASSUME NEW m \in merges, NEW ok \in BOOLEAN, MergeEnds(m, ok)
      PROVE  /\ \A c \in Dashboards : Past(toServer'[c], sock'[c])
             /\ \A n \in merges' : Known(n)'
  BY <1>2, <1>4, <1>7 DEF MergeEnds, client, ghosts
<1>8. ASSUME NEW d \in Dashboards, NEW f \in fetches[d], BuildReview(d, f)
      PROVE  /\ \A c \in Dashboards : Past(toServer'[c], sock'[c])
             /\ \A n \in merges' : Known(n)'
  BY <1>2, <1>4, <1>8 DEF BuildReview, server, ghosts
<1>9. ASSUME NEW d \in Dashboards, Start(d)
      PROVE  /\ \A c \in Dashboards : Past(toServer'[c], sock'[c])
             /\ \A n \in merges' : Known(n)'
  <2>1. /\ UNCHANGED <<toServer, merges, ambiguous>>
        /\ \A c \in Dashboards : sock'[c] = IF c = d THEN sock[c] + 1 ELSE sock[c]
    BY <1>1, <1>9 DEF Start, server, TypeOK
  <2>2. \A c \in Dashboards : sock'[c] \in Nat /\ sock[c] <= sock'[c]
    BY <1>2, <2>1
  <2>3. \A c \in Dashboards : Past(toServer'[c], sock'[c])
    BY <1>2, <2>1, <2>2, PastLater
  <2>4. ASSUME NEW m \in merges
        PROVE  Known(m)'
    <3>1. m \in Merge
      BY <1>1 DEF TypeOK
    <3>2. CASE m.to = Everyone
      BY <1>2, <2>1, <3>2 DEF Known
    <3>3. CASE m.to # Everyone
      <4>1. m.to[1] \in Dashboards /\ m.to[2] \in Nat
        BY <3>1, <3>3 DEF Merge, Sockets
      <4>2. m.to[2] <= sock[m.to[1]]
        BY <1>2, <3>3 DEF Known
      <4>3. m.to[2] <= sock'[m.to[1]]
        BY <1>2, <2>2, <4>1, <4>2
      <4>4. QED
        BY <3>3, <4>3 DEF Known
    <3>4. QED
      BY <3>2, <3>3
  <2>5. QED
    BY <2>1, <2>3, <2>4
<1>10. ASSUME NEW d \in Dashboards, Drops(d)
       PROVE  /\ \A c \in Dashboards : Past(toServer'[c], sock'[c])
              /\ \A n \in merges' : Known(n)'
  <2>1. UNCHANGED <<sock, merges, ambiguous>>
    BY <1>10 DEF Drops, server, ghosts
  <2>2. PICK k \in 0 .. Len(toServer[d]) : toServer' = [toServer EXCEPT ![d] = SubSeq(@, 1, k)]
    BY <1>10 DEF Drops
  <2>3. ASSUME NEW c \in Dashboards
        PROVE  Past(toServer'[c], sock'[c])
    <3>1. CASE c = d
      <4>1. toServer'[c] = SubSeq(toServer[d], 1, k)
        BY <1>1, <2>2, <3>1 DEF TypeOK
      <4>2. Past(SubSeq(toServer[d], 1, k), sock[d])
        BY <1>2, PastFront
      <4>3. QED
        BY <2>1, <3>1, <4>1, <4>2
    <3>2. CASE c # d
      BY <1>1, <1>2, <2>1, <2>2, <3>2 DEF TypeOK
    <3>3. QED
      BY <3>1, <3>2
  <2>4. QED
    BY <1>2, <1>4, <2>1, <2>3
<1>11. ASSUME NEW d \in Dashboards, Opens(d) \/ Stop(d) \/ Deliver(d) \/ Render(d)
       PROVE  /\ \A c \in Dashboards : Past(toServer'[c], sock'[c])
              /\ \A n \in merges' : Known(n)'
  <2>1. UNCHANGED <<toServer, sock, merges, ambiguous>>
    BY <1>11 DEF Opens, Stop, Deliver, Render, server, ghosts
  <2>2. QED
    BY <1>2, <1>4, <2>1
<1>12. ASSUME NEW d \in Dashboards, OperatorStep(d)
       PROVE  /\ \A c \in Dashboards : Past(toServer'[c], sock'[c])
              /\ \A n \in merges' : Known(n)'
  <2>1. /\ UNCHANGED <<sock, merges>>
        /\ UNCHANGED <<toServer, ambiguous>> \/ \E q, t : Acts(d, q, t)
    BY <1>1, <1>12, OperatorActs DEF server
  <2>2. ambiguous \subseteq ambiguous'
    BY <2>1 DEF Acts
  <2>3. \/ toServer' = toServer
        \/ \E a \in Action : a.sock = sock[d] /\ toServer' = [toServer EXCEPT ![d] = Append(@, a)]
    BY <2>1, ActsSend
  <2>4. ASSUME NEW a \in Action, a.sock = sock[d], toServer' = [toServer EXCEPT ![d] = Append(@, a)],
               NEW c \in Dashboards
        PROVE  Past(toServer'[c], sock[c])
    <3>1. CASE c = d
      <4>1. toServer'[c] = Append(toServer[d], a) /\ a.sock <= sock[d]
        BY <1>1, <1>2, <2>4, <3>1 DEF TypeOK
      <4>2. Past(Append(toServer[d], a), sock[d])
        BY <1>2, <4>1, PastAdded
      <4>3. QED
        BY <3>1, <4>1, <4>2
    <3>2. CASE c # d
      BY <1>1, <1>2, <2>4, <3>2 DEF TypeOK
    <3>3. QED
      BY <3>1, <3>2
  <2>5. QED
    BY <1>2, <1>4, <2>1, <2>2, <2>3, <2>4
<1>13. CASE UNCHANGED vars
  <2>1. UNCHANGED <<toServer, sock, merges, ambiguous>>
    BY <1>13 DEF vars, server, client, ghosts
  <2>2. QED
    BY <1>2, <1>4, <2>1
<1>14. QED
  BY <1>5, <1>6, <1>7, <1>8, <1>9, <1>10, <1>11, <1>12, <1>13 DEF Next, ServerStep, SocketStep

\* SingleInv, for one dashboard and one request.
Alone(c, r) ==
  /\ AtMostOne(Sends(c, r)) /\ AtMostOne(Runs(c, r)) /\ AtMostOne(Answers(c, r))
  /\ Sends(c, r) # {} => Runs(c, r) = {} /\ Answers(c, r) = {}
  /\ Runs(c, r) # {} => Answers(c, r) = {}
Blocked(list, r) == Of(list, r) # {} /\ First(list, r).status # "READY"
Held(c, r) == Of(seen[c], r) # {} /\ First(seen[c], r).status = "READY" => Of(notes[c], r) # {}
SingleOn(c, r) ==
  link[c] # "off" => /\ Alone(c, r)
                     /\ Out(c, r) => Blocked(notes[c], r) /\ Blocked(seen[c], r)
                     /\ Held(c, r)

LEMMA SingleByDashboard ==
  SingleInv <=> \A c \in Dashboards, r \in Requests \ ambiguous : SingleOn(c, r)
<1>1. \A c, r : Sends(c, r) \cup Runs(c, r) \cup Answers(c, r) # {} <=> Out(c, r)
  BY DEF Out
<1>2. QED
  BY <1>1 DEF SingleInv, SingleOn, Alone, Blocked, Held

LEMMA AloneKept ==
  ASSUME NEW c, NEW r, Alone(c, r), Keeps(c, r)
  PROVE  Alone(c, r)' /\ (Out(c, r)' <=> Out(c, r))
BY DEF Alone, Keeps, KeepsSize, Out

LEMMA SameKept ==
  ASSUME NEW c, NEW r, Sends(c, r)' = Sends(c, r), Runs(c, r)' = Runs(c, r),
         Answers(c, r)' = Answers(c, r)
  PROVE  Keeps(c, r)
BY SameKeepsSize DEF Keeps

\* The lists stay, and so does how many are outstanding.
LEMMA SingleStays ==
  ASSUME NEW c, NEW r, SingleOn(c, r), Keeps(c, r), link'[c] = link[c],
         notes'[c] = notes[c], seen'[c] = seen[c]
  PROVE  SingleOn(c, r)'
<1>1. Alone(c, r) => Alone(c, r)' /\ (Out(c, r)' <=> Out(c, r))
  BY AloneKept
<1>2. Held(c, r)' <=> Held(c, r)
  BY DEF Held
<1>3. QED
  BY <1>1, <1>2 DEF SingleOn

\* A socket that is not open yet has nothing outstanding.
LEMMA OnlyOpenAwait ==
  ASSUME LinkedInv, NEW c \in Dashboards, NEW r, SingleOn(c, r), link[c] # "off", Out(c, r)
  PROVE  link[c] = "open"
<1>1. Of(notes[c], r) # {}
  BY DEF SingleOn, Blocked
<1>2. notes[c] # <<>>
  BY <1>1 DEF Of
<1>3. QED
  BY <1>2 DEF LinkedInv, LinksInv, TypeOK

\* An action that is handled, and a merge that ends, is followed by one thing.
LEMMA ServerKeepsSingle ==
  ASSUME LinkedInv, SocketsInv, ServerStep, NEW c \in Dashboards,
         NEW r \in Requests \ ambiguous, SingleOn(c, r)
  PROVE  SingleOn(c, r)'
<1>1. TypeOK
  BY DEF LinkedInv
<1>2. UNCHANGED <<link, sock, notes, seen>>
  BY <1>1, ServerSends
<1>3. CASE link[c] = "off"
  BY <1>2, <1>3 DEF SingleOn
<1>4. ASSUME link[c] # "off"
      PROVE  SingleOn(c, r)'
  <2>1. Alone(c, r) /\ sock[c] # 0
    BY <1>4 DEF SingleOn, LinkedInv, LinksInv
  <2>2. ASSUME Out(c, r), Alone(c, r)'
        PROVE  SingleOn(c, r)'
    <3>1. Held(c, r)'
      BY <1>2, <1>4 DEF SingleOn, Held
    <3>2. QED
      BY <1>2, <1>4, <2>2, <3>1 DEF SingleOn
  <2>3. ASSUME NEW q \in Requests, Submit(q)
        PROVE  SingleOn(c, r)'
    <3>1. Keeps(c, r)
      BY <1>1, <2>1, <2>3, SubmitKeeps, SameKept
    <3>2. QED
      BY <1>2, <3>1, SingleStays
  <2>4. ASSUME NEW d \in Dashboards, NEW i \in DOMAIN toServer[d], Handle(d, i)
        PROVE  SingleOn(c, r)'
    <3>1. PICK own : own = (c = d /\ toServer[d][i].request = r /\ toServer[d][i].sock = sock[d])
      OBVIOUS
    <3>2. CASE ~own
      <4>1. Keeps(c, r)
        BY <1>1, <2>4, <3>1, <3>2, HandleMoves
      <4>2. QED
        BY <1>2, <4>1, SingleStays
    <3>3. CASE own
      <4>1. /\ i \in Sends(c, r)
            /\ AtMostOne(Sends(c, r)) => Sends(c, r)' = {}
            /\ \/ /\ AddsTo(Runs(c, r), Runs(c, r)')
                  /\ KeepsSize(Answers(c, r), Answers(c, r)')
               \/ /\ link[c] = "open" => AddsTo(Answers(c, r), Answers(c, r)')
                  /\ KeepsSize(Runs(c, r), Runs(c, r)')
        BY <1>1, <2>4, <3>1, <3>3, HandleMoves
      <4>2. Out(c, r)
        BY <4>1 DEF Out
      <4>3. link[c] = "open"
        BY <1>4, <4>2, OnlyOpenAwait
      <4>4. Runs(c, r) = {} /\ Answers(c, r) = {} /\ Sends(c, r)' = {}
        BY <2>1, <4>1 DEF Alone
      <4>5. \/ /\ AtMostOne(Runs(c, r)') /\ Answers(c, r)' = {}
            \/ /\ AtMostOne(Answers(c, r)') /\ Runs(c, r)' = {}
        BY <4>1, <4>3, <4>4 DEF AddsTo, KeepsSize
      <4>6. Alone(c, r)'
        BY <4>4, <4>5 DEF Alone, AtMostOne
      <4>7. QED
        BY <2>2, <4>2, <4>6
    <3>4. QED
      BY <3>1, <3>2, <3>3, Zenon
  <2>5. ASSUME NEW m \in merges, NEW ok \in BOOLEAN, MergeEnds(m, ok)
        PROVE  SingleOn(c, r)'
    <3>1. /\ Sends(c, r)' = Sends(c, r) /\ Runs(c, r)' = Runs(c, r) \ {m}
          /\ m.request # r \/ (m.to # Everyone /\ m \notin Runs(c, r)) =>
                Runs(c, r)' = Runs(c, r) /\ Answers(c, r)' = Answers(c, r)
          /\ m \in Runs(c, r) /\ link[c] = "open" => AddsTo(Answers(c, r), Answers(c, r)')
      BY <1>1, <2>1, <2>5, MergeEndsMoves
    <3>2. m.to = Everyone => m.request # r
      BY DEF SocketsInv
    <3>3. CASE m \notin Runs(c, r)
      <4>1. Keeps(c, r)
        BY <3>1, <3>2, <3>3, SameKept
      <4>2. QED
        BY <1>2, <4>1, SingleStays
    <3>4. CASE m \in Runs(c, r)
      <4>1. Out(c, r)
        BY <3>4 DEF Out
      <4>2. link[c] = "open"
        BY <1>4, <4>1, OnlyOpenAwait
      <4>3. Runs(c, r)' = {} /\ Sends(c, r)' = {} /\ Answers(c, r) = {}
        BY <2>1, <3>1, <3>4 DEF Alone, AtMostOne
      <4>4. AtMostOne(Answers(c, r)')
        BY <3>1, <3>4, <4>2, <4>3 DEF AddsTo
      <4>5. Alone(c, r)'
        BY <4>3, <4>4 DEF Alone, AtMostOne
      <4>6. QED
        BY <2>2, <4>1, <4>5
    <3>5. QED
      BY <3>3, <3>4
  <2>6. ASSUME NEW d \in Dashboards, NEW f \in fetches[d], BuildReview(d, f)
        PROVE  SingleOn(c, r)'
    <3>1. toServer' = toServer /\ fromServer' = fromServer /\ merges' = merges
      BY <2>6 DEF BuildReview, server
    <3>2. Keeps(c, r)
      BY <1>2, <3>1, UntouchedKeepsOut, SameKept
    <3>3. QED
      BY <1>2, <3>2, SingleStays
  <2>7. QED
    BY <2>3, <2>4, <2>5, <2>6 DEF ServerStep
<1>5. QED
  BY <1>3, <1>4

LEMMA DeliverKeepsSingle ==
  ASSUME LinkedInv, NEW d \in Dashboards, Deliver(d), NEW r \in Requests, SingleOn(d, r)
  PROVE  SingleOn(d, r)'
<1>1. TypeOK
  BY DEF LinkedInv
<1>2. PICK e \in Event, new \in Seq(Note) :
        /\ e = Head(fromServer[d]) /\ e.request \in Requests
        /\ Shows(d, e, notes[d], new)
        /\ notes' = [notes EXCEPT ![d] = new]
  BY <1>1, DeliverShows
<1>3. notes'[d] = new /\ UNCHANGED <<link, seen>> /\ link[d] = "open"
  BY <1>1, <1>2 DEF Deliver, TypeOK
<1>4. /\ Alone(d, r) /\ Held(d, r)
      /\ Out(d, r) => Blocked(notes[d], r) /\ Blocked(seen[d], r)
  BY <1>3 DEF SingleOn
<1>5. /\ Sends(d, r)' = Sends(d, r) /\ Runs(d, r)' = Runs(d, r)
      /\ e.request # r \/ e.event = "AGENT_TASK_READY" =>
           KeepsSize(Answers(d, r), Answers(d, r)')
      /\ e.request = r /\ e.event # "AGENT_TASK_READY" =>
           Answers(d, r) # {} /\ (AtMostOne(Answers(d, r)) => Answers(d, r)' = {})
  BY <1>1, <1>2, DeliverMoves
<1>6. CASE e.request # r \/ e.event = "AGENT_TASK_READY"
  <2>1. Keeps(d, r)
    BY <1>5, <1>6, SameKeepsSize DEF Keeps
  <2>2. Alone(d, r)' /\ (Out(d, r)' <=> Out(d, r))
    BY <1>4, <2>1, AloneKept
  <2>3. Of(notes[d], r) # {} => Of(new, r) # {} /\ First(new, r) = First(notes[d], r)
    <3>1. CASE e.request # r
      <4>1. \A p : p # e.request => SameFor(notes[d], new, p)
        BY <1>1, <1>2, DeliverPlaces
      <4>2. QED
        BY <3>1, <4>1 DEF SameFor
    <3>2. CASE e.request = r /\ e.event = "AGENT_TASK_READY"
      <4>1. Of(notes[d], e.request) # {} =>
              Of(new, e.request) # {} /\ First(new, e.request) = First(notes[d], e.request)
        BY <1>1, <1>2, <3>2, DeliverPlaces
      <4>2. QED
        BY <3>2, <4>1
    <3>3. QED
      BY <1>6, <3>1, <3>2
  <2>4. Held(d, r)'
    BY <1>3, <1>4, <2>3 DEF Held
  <2>5. Out(d, r)' => Blocked(notes'[d], r) /\ Blocked(seen'[d], r)
    BY <1>3, <1>4, <2>2, <2>3 DEF Blocked
  <2>6. QED
    BY <2>2, <2>4, <2>5 DEF SingleOn
<1>7. CASE e.request = r /\ e.event # "AGENT_TASK_READY"
  <2>1. Answers(d, r) # {} /\ Answers(d, r)' = {}
    BY <1>4, <1>5, <1>7 DEF Alone
  <2>2. Sends(d, r)' = {} /\ Runs(d, r)' = {}
    BY <1>4, <1>5, <2>1 DEF Alone
  <2>3. Alone(d, r)' /\ ~Out(d, r)'
    BY <2>1, <2>2 DEF Alone, AtMostOne, Out
  <2>4. Blocked(seen[d], r)
    BY <1>4, <2>1 DEF Out
  <2>5. Held(d, r)'
    BY <1>3, <2>4 DEF Held, Blocked
  <2>6. QED
    BY <2>3, <2>5 DEF SingleOn
<1>8. QED
  BY <1>6, <1>7

LEMMA SocketKeepsSingle ==
  ASSUME LinkedInv, SocketsInv, NEW d \in Dashboards, SocketStep(d), NEW c \in Dashboards,
         NEW r \in Requests, SingleOn(c, r)
  PROVE  SingleOn(c, r)'
<1>1. TypeOK
  BY DEF LinkedInv
<1>2. merges' = merges
  BY <1>1, DashboardsDecideNothing
<1>3. CASE c # d
  <2>1. toServer'[c] = toServer[c] /\ fromServer'[c] = fromServer[c] /\ sock'[c] = sock[c]
        /\ link'[c] = link[c] /\ seen'[c] = seen[c]
    BY <1>1, <1>3 DEF SocketStep, Start, Opens, Drops, Stop, Deliver, Render, TypeOK
  <2>2. notes'[c] = notes[c]
    <3>1. CASE Deliver(d)
      <4>1. PICK new : notes' = [notes EXCEPT ![d] = new]
        BY <1>1, <3>1, DeliverShows
      <4>2. QED
        BY <1>1, <1>3, <4>1 DEF TypeOK
    <3>2. QED
      BY <1>1, <1>3, <3>1 DEF SocketStep, Start, Opens, Drops, Stop, Render, TypeOK
  <2>3. Keeps(c, r)
    BY <1>2, <2>1, UntouchedKeepsOut, SameKept
  <2>4. QED
    BY <2>1, <2>2, <2>3, SingleStays
<1>4. CASE c = d /\ Deliver(d)
  BY <1>4, DeliverKeepsSingle
<1>5. CASE c = d /\ (Drops(d) \/ Stop(d))
  <2>1. link'[c] = "off"
    BY <1>1, <1>5 DEF Drops, Stop, TypeOK
  <2>2. QED
    BY <2>1 DEF SingleOn
<1>6. CASE c = d /\ Start(d)
  <2>1. /\ toServer' = toServer /\ fromServer'[c] = <<>>
        /\ sock'[c] = sock[c] + 1 /\ seen'[c] = <<>>
    BY <1>1, <1>6 DEF Start, LinkedInv, LinksInv, TypeOK
  <2>2. sock[c] \in Nat /\ toServer[c] \in Seq(Action)
    BY <1>1, BoundsAreNatural DEF TypeOK
  <2>3. Sends(c, r)' = {}
    <3>1. ASSUME NEW i \in DOMAIN toServer[c]
          PROVE  toServer[c][i].sock # sock[c] + 1
      <4>1. toServer[c][i].sock <= sock[c]
        BY DEF SocketsInv
      <4>2. toServer[c][i] \in Action
        BY <2>2
      <4>3. toServer[c][i].sock \in Nat
        BY <4>2, BoundsAreNatural DEF Action, Sockets
      <4>4. QED
        BY <2>2, <4>1, <4>3
    <3>2. QED
      BY <2>1, <3>1 DEF Sends, Of
  <2>4. Runs(c, r)' = {}
    <3>1. ASSUME NEW m \in merges, m.to = <<c, sock[c] + 1>>
          PROVE  FALSE
      <4>1. sock[c] + 1 # 0
        BY <2>2
      <4>2. m.to # Everyone
        BY <3>1, <4>1 DEF Everyone
      <4>3. m.to[2] <= sock[m.to[1]]
        BY <4>2 DEF SocketsInv
      <4>4. m.to[1] = c /\ m.to[2] = sock[c] + 1
        BY <3>1
      <4>5. sock[c] + 1 <= sock[c]
        BY <4>3, <4>4
      <4>6. QED
        BY <2>2, <4>5
    <3>2. QED
      BY <1>2, <2>1, <3>1 DEF Runs
  <2>5. Answers(c, r)' = {} /\ Of(seen'[c], r) = {}
    BY <2>1 DEF Answers, Of
  <2>6. QED
    BY <2>3, <2>4, <2>5 DEF SingleOn, Alone, AtMostOne, Out, Held
<1>7. CASE c = d /\ Opens(d)
  <2>1. /\ UNCHANGED <<toServer, fromServer, sock, notes, seen>> /\ link[c] # "off"
        /\ notes[c] = <<>> /\ seen[c] = <<>>
    BY <1>1, <1>7 DEF Opens, LinkedInv, LinksInv
  <2>2. Keeps(c, r)
    BY <1>2, <2>1, UntouchedKeepsOut, SameKept
  <2>3. Alone(c, r)' /\ (Out(c, r)' <=> Out(c, r))
    BY <2>1, <2>2, AloneKept DEF SingleOn
  <2>4. Of(notes[c], r) = {} /\ Of(seen[c], r) = {}
    BY <2>1 DEF Of
  <2>5. ~Out(c, r)
    BY <2>1, <2>4 DEF SingleOn, Blocked
  <2>6. QED
    BY <2>1, <2>3, <2>4, <2>5 DEF SingleOn, Held
<1>8. CASE c = d /\ Render(d)
  <2>1. /\ UNCHANGED <<toServer, fromServer, sock, notes, link>> /\ seen'[c] = notes[c]
    BY <1>1, <1>8 DEF Render, TypeOK
  <2>2. Keeps(c, r)
    BY <1>2, <2>1, UntouchedKeepsOut, SameKept
  <2>3. link[c] # "off" => Alone(c, r)' /\ (Out(c, r)' <=> Out(c, r))
    BY <2>2, AloneKept DEF SingleOn
  <2>4. Held(c, r)'
    BY <2>1 DEF Held
  <2>5. QED
    BY <2>1, <2>3, <2>4 DEF SingleOn, Blocked
<1>9. QED
  BY <1>3, <1>4, <1>5, <1>6, <1>7, <1>8 DEF SocketStep

\* Whoever acts on a request that is not ambiguous has nothing outstanding on it.
LEMMA ActsOnlyWhenFree ==
  ASSUME LinkedInv, NEW d \in Dashboards, NEW q, NEW t, Acts(d, q, t), link[d] = "open",
         SingleOn(d, q)
  PROVE  Sends(d, q) = {} /\ Runs(d, q) = {} /\ Answers(d, q) = {}
<1>1. Out(d, q) => Of(seen[d], q) # {} /\ First(seen[d], q).status # "READY"
  BY DEF SingleOn, Blocked
<1>2. Of(seen[d], q) # {} => First(seen[d], q).status = "READY"
  BY DEF Acts
<1>3. ~Out(d, q)
  BY <1>1, <1>2
<1>4. QED
  BY <1>3 DEF Out

LEMMA FirstWithStatus ==
  ASSUME NEW list \in Seq(Note), NEW q \in Requests,
         NEW status \in {"READY", "APPROVING", "REJECTING"}, Of(list, q) # {}
  PROVE  First(WithStatus(list, q, status), q).status = status
<1> DEFINE new == WithStatus(list, q, status)
           i == Least(Of(list, q))
<1>1. Of(new, q) = Of(list, q)
  BY WithStatusKeepsPlaces
<1>2. i \in Of(list, q)
  BY FirstIsOf
<1>3. First(new, q) = new[i]
  BY <1>1 DEF First
<1> HIDE DEF i
<1>4. list[i] \in Note /\ list[i].request = q /\ i \in DOMAIN list
  BY <1>2 DEF Of
<1>5. new[i] = [list[i] EXCEPT !.status = status]
  BY <1>4 DEF WithStatus
<1>6. new[i].status = status
  BY <1>4, <1>5 DEF Note
<1>7. QED
  BY <1>3, <1>6

LEMMA ActsKeepsSingle ==
  ASSUME LinkedInv, NEW d \in Dashboards, NEW q, NEW t, Acts(d, q, t), Rendered(d),
         UNCHANGED <<sock, merges, fromServer, link>>, link[d] = "open",
         NEW r \in Requests \ ambiguous', SingleOn(d, r)
  PROVE  SingleOn(d, r)'
<1>1. TypeOK
  BY DEF LinkedInv
<1>2. seen'[d] = notes'[d]
  BY <1>1 DEF Rendered, TypeOK
<1>3. Held(d, r)'
  BY <1>2 DEF Held
<1>4. /\ Runs(d, r)' = Runs(d, r) /\ Answers(d, r)' = Answers(d, r)
      /\ r # q => Sends(d, r)' = Sends(d, r)
      /\ r = q => AddsTo(Sends(d, r), Sends(d, r)')
  BY ActsMoves
<1>5. CASE r # q
  <2>1. Keeps(d, r)
    BY <1>4, <1>5, SameKept
  <2>2. Alone(d, r)' /\ (Out(d, r)' <=> Out(d, r))
    BY <2>1, AloneKept DEF SingleOn
  <2>3. SameFor(notes[d], notes'[d], r)
    BY <1>1, <1>5, ActsPlaces
  <2>4. Out(d, r) => Blocked(notes'[d], r)
    BY <2>3 DEF SingleOn, Blocked, SameFor
  <2>5. QED
    BY <1>2, <1>3, <2>2, <2>4 DEF SingleOn
<1>6. CASE r = q
  <2>1. Sends(d, r) = {} /\ Runs(d, r) = {} /\ Answers(d, r) = {}
    BY <1>6, ActsOnlyWhenFree
  <2>2. Sends(d, r)' # {} /\ AtMostOne(Sends(d, r)') /\ Runs(d, r)' = {} /\ Answers(d, r)' = {}
    BY <1>4, <1>6, <2>1 DEF AddsTo
  <2>3. Alone(d, r)'
    BY <2>2 DEF Alone, AtMostOne
  <2>4. Of(seen[d], r) # {} /\ First(seen[d], r).status = "READY"
    BY <1>6 DEF Acts
  <2>5. Of(notes[d], r) # {}
    BY <2>4 DEF SingleOn, Held
  <2>6. PICK status \in {"APPROVING", "REJECTING"} :
          notes' = [notes EXCEPT ![d] = WithStatus(@, q, status)]
    BY DEF Acts
  <2> DEFINE list == notes[d]
  <2>7. list \in Seq(Note) /\ r \in Requests /\ notes'[d] = WithStatus(list, r, status)
        /\ status \in {"READY", "APPROVING", "REJECTING"} /\ status # "READY"
    BY <1>1, <1>6, <2>6 DEF TypeOK
  <2>8. Of(list, r) # {}
    BY <2>5
  <2> HIDE DEF list
  <2>9. Of(WithStatus(list, r, status), r) # {}
    BY <2>7, <2>8, WithStatusKeepsPlaces
  <2>10. First(WithStatus(list, r, status), r).status = status
    BY <2>7, <2>8, FirstWithStatus
  <2>11. Blocked(notes'[d], r)
    BY <2>7, <2>9, <2>10 DEF Blocked
  <2>12. QED
    BY <1>2, <1>3, <2>3, <2>11 DEF SingleOn
<1>7. QED
  BY <1>5, <1>6

LEMMA OperatorKeepsSingle ==
  ASSUME LinkedInv, NEW d \in Dashboards, OperatorStep(d), NEW c \in Dashboards,
         NEW r \in Requests \ ambiguous', SingleOn(c, r)
  PROVE  SingleOn(c, r)'
<1>1. TypeOK /\ LinkedInv'
  BY LinkedIsInductive DEF LinkedInv, Next
<1>2. /\ UNCHANGED <<server, playing, link, sock, fromServer, lost, raced>>
      /\ \/ UNCHANGED <<notes, toServer, ambiguous, seen, skipped, preview>>
         \/ /\ Rendered(d)
            /\ UNCHANGED <<notes, toServer, ambiguous>> \/ \E q, t : Acts(d, q, t)
  BY <1>1, OperatorActs
<1>3. UNCHANGED merges
  BY <1>2 DEF server
<1>4. CASE UNCHANGED <<notes, toServer, ambiguous, seen, skipped, preview>>
  <2>1. Keeps(c, r)
    BY <1>2, <1>3, <1>4, UntouchedKeepsOut, SameKept
  <2>2. QED
    BY <1>2, <1>4, <2>1, SingleStays
<1>5. CASE Rendered(d) /\ c # d
  <2>1. seen'[c] = seen[c]
    BY <1>1, <1>5 DEF Rendered, TypeOK
  <2>2. notes'[c] = notes[c] /\ toServer'[c] = toServer[c]
    <3>1. ASSUME NEW q, NEW t, Acts(d, q, t)
          PROVE  notes'[c] = notes[c] /\ toServer'[c] = toServer[c]
      BY <1>1, <1>5, <3>1 DEF Acts, TypeOK
    <3>2. QED
      BY <1>2, <1>4, <3>1
  <2>3. Keeps(c, r)
    BY <1>2, <1>3, <2>2, UntouchedKeepsOut, SameKept
  <2>4. QED
    BY <1>2, <2>1, <2>2, <2>3, SingleStays
<1>6. CASE Rendered(d) /\ c = d /\ UNCHANGED <<notes, toServer, ambiguous>>
  <2>1. seen'[c] = notes[c]
    BY <1>1, <1>6 DEF Rendered, TypeOK
  <2>2. Keeps(c, r)
    BY <1>2, <1>3, <1>6, UntouchedKeepsOut, SameKept
  <2>3. link[c] # "off" => Alone(c, r)' /\ (Out(c, r)' <=> Out(c, r))
    BY <2>2, AloneKept DEF SingleOn
  <2>4. Held(c, r)'
    BY <1>6, <2>1 DEF Held
  <2>5. QED
    BY <1>2, <1>6, <2>1, <2>3, <2>4 DEF SingleOn, Blocked
<1>7. ASSUME NEW q, NEW t, Acts(d, q, t), Rendered(d), c = d
      PROVE  SingleOn(c, r)'
  <2>1. CASE link[c] = "off"
    BY <1>2, <2>1 DEF SingleOn
  <2>2. CASE link[c] = "open"
    BY <1>2, <1>3, <1>7, <2>2, ActsKeepsSingle
  <2>3. CASE link[c] = "connecting"
    <3>1. Sends(c, r)' = Sends(c, r) /\ Runs(c, r)' = Runs(c, r) /\ Answers(c, r)' = Answers(c, r)
      BY <1>2, <1>3, <1>7, <2>3, ActsMoves
    <3>2. Keeps(c, r)
      BY <3>1, SameKept
    <3>3. Alone(c, r)' /\ (Out(c, r)' <=> Out(c, r))
      BY <2>3, <3>2, AloneKept DEF SingleOn
    <3>4. ~Out(c, r)
      BY <2>3, OnlyOpenAwait
    <3>5. seen'[c] = <<>>
      BY <1>1, <1>2, <2>3 DEF LinkedInv, LinksInv
    <3>6. Held(c, r)'
      BY <3>5 DEF Held, Of
    <3>7. QED
      BY <3>3, <3>4, <3>6 DEF SingleOn
  <2>4. QED
    BY <1>1, <2>1, <2>2, <2>3 DEF TypeOK
<1>8. QED
  BY <1>2, <1>4, <1>5, <1>6, <1>7

\* The inductive invariant of actions.
OneActionInv == LinkedInv /\ SocketsInv /\ SingleInv

LEMMA OneActionHoldsInitially == ASSUME Init PROVE OneActionInv
<1>1. LinkedInv
  BY TypesHoldInitially
<1>2. SocketsInv /\ SingleInv
  BY DEF Init, SocketsInv, SingleInv
<1>3. QED
  BY <1>1, <1>2 DEF OneActionInv

LEMMA AmbiguousGrows ==
  ASSUME TypeOK, [Next]_vars
  PROVE  ambiguous \subseteq ambiguous'
<1>1. CASE ServerStep
  BY <1>1 DEF ServerStep, Submit, Handle, MergeEnds, BuildReview, ghosts
<1>2. ASSUME NEW d \in Dashboards, SocketStep(d)
      PROVE  ambiguous \subseteq ambiguous'
  BY <1>2 DEF SocketStep, Start, Opens, Drops, Stop, Deliver, Render, ghosts
<1>3. ASSUME NEW d \in Dashboards, OperatorStep(d)
      PROVE  ambiguous \subseteq ambiguous'
  <2>1. UNCHANGED ambiguous \/ \E q, t : Acts(d, q, t)
    BY <1>3, OperatorActs
  <2>2. QED
    BY <2>1 DEF Acts
<1>4. QED
  BY <1>1, <1>2, <1>3 DEF Next, vars, ghosts

LEMMA OneActionIsInductive ==
  ASSUME OneActionInv, [Next]_vars
  PROVE  OneActionInv'
<1>1. LinkedInv /\ TypeOK /\ SocketsInv
  BY DEF OneActionInv, LinkedInv
<1>2. LinkedInv' /\ SocketsInv'
  BY <1>1, LinkedIsInductive, SocketsAreInductive
<1>3. \A c \in Dashboards, r \in Requests \ ambiguous : SingleOn(c, r)
  BY SingleByDashboard DEF OneActionInv
<1>4. ASSUME NEW c \in Dashboards, NEW r \in Requests \ ambiguous'
      PROVE  SingleOn(c, r)'
  <2>1. r \in Requests \ ambiguous /\ SingleOn(c, r)
    BY <1>1, <1>3, AmbiguousGrows
  <2>2. CASE ServerStep
    BY <1>1, <2>1, <2>2, ServerKeepsSingle
  <2>3. ASSUME NEW d \in Dashboards, SocketStep(d)
        PROVE  SingleOn(c, r)'
    BY <1>1, <2>1, <2>3, SocketKeepsSingle
  <2>4. ASSUME NEW d \in Dashboards, OperatorStep(d)
        PROVE  SingleOn(c, r)'
    BY <1>1, <2>1, <2>4, OperatorKeepsSingle
  <2>5. CASE UNCHANGED vars
    <3>1. Keeps(c, r)
      BY <2>5, UntouchedKeepsOut, SameKept DEF vars, server, client
    <3>2. QED
      BY <2>1, <2>5, <3>1, SingleStays DEF vars, client
  <2>6. QED
    BY <2>2, <2>3, <2>4, <2>5 DEF Next
<1>5. SingleInv'
  <2>1. \A c, r : (Sends(c, r) \cup Runs(c, r) \cup Answers(c, r) # {})' <=> Out(c, r)'
    BY DEF Out
  <2>2. QED
    BY <1>4, <2>1 DEF SingleInv, SingleOn, Alone, Blocked, Held
<1>6. QED
  BY <1>2, <1>5 DEF OneActionInv

\* Of the actions of one socket on one request at most one is on its way, in git or answered, and as
\* long as it is, the note that the next action would go to is pending, for React and the callbacks.
THEOREM OneActionInvariant == Spec => []OneActionInv
<1>1. Init => OneActionInv
  BY OneActionHoldsInitially
<1>2. OneActionInv /\ [Next]_vars => OneActionInv'
  BY OneActionIsInductive
<1>3. QED
  BY <1>1, <1>2, PTL DEF Spec

\* Only an operator's action makes a dashboard's queue longer.
LEMMA OnlyOperatorsSend ==
  ASSUME LinkedInv, Next, NEW d \in Dashboards, Len(toServer'[d]) > Len(toServer[d])
  PROVE  OperatorStep(d)
<1>1. toServer[d] \in Seq(Action) /\ Len(toServer[d]) \in Nat /\ TypeOK
  BY DEF LinkedInv, TypeOK
<1>2. toServer'[d] # toServer[d]
  BY <1>1
<1>3. ASSUME ServerStep
      PROVE  FALSE
  <2>1. \/ UNCHANGED toServer
        \/ \E c \in Dashboards : \E i \in DOMAIN toServer[c] : Handle(c, i)
    BY <1>3 DEF ServerStep, Submit, MergeEnds, BuildReview
  <2>2. ASSUME NEW c \in Dashboards, NEW i \in DOMAIN toServer[c], Handle(c, i)
        PROVE  FALSE
    <3>1. toServer' = [toServer EXCEPT ![c] = Dropping(@, i)]
      BY <2>2, <1>1, HandleTells
    <3>2. c = d /\ toServer'[d] = Dropping(toServer[d], i)
      BY <1>1, <1>2, <3>1 DEF TypeOK
    <3>3. Len(Dropping(toServer[d], i)) = Len(toServer[d]) - 1
      BY <1>1, <3>2, OthersStay
    <3>4. QED
      BY <1>1, <3>2, <3>3
  <2>3. QED
    BY <1>2, <2>1, <2>2
<1>4. ASSUME NEW c \in Dashboards, SocketStep(c)
      PROVE  FALSE
  <2>1. Drops(c)
    BY <1>2, <1>4 DEF SocketStep, Start, Opens, Stop, Deliver, Render
  <2>2. PICK k \in 0 .. Len(toServer[c]) : toServer' = [toServer EXCEPT ![c] = SubSeq(@, 1, k)]
    BY <2>1 DEF Drops
  <2>3. c = d /\ toServer'[d] = SubSeq(toServer[d], 1, k)
    BY <1>1, <1>2, <2>2 DEF TypeOK
  <2>4. Len(SubSeq(toServer[d], 1, k)) = k /\ k <= Len(toServer[d])
    BY <1>1, <2>3
  <2>5. QED
    BY <1>1, <2>3, <2>4
<1>5. ASSUME NEW c \in Dashboards, OperatorStep(c), c # d
      PROVE  FALSE
  <2>1. UNCHANGED toServer \/ \E q, t : Acts(c, q, t)
    BY <1>1, <1>5, OperatorActs
  <2>2. toServer'[d] = toServer[d]
    BY <1>1, <1>5, <2>1 DEF Acts, TypeOK
  <2>3. QED
    BY <1>2, <2>2
<1>6. QED
  BY <1>3, <1>4, <1>5 DEF Next

LEMMA SentWhenFree ==
  ASSUME OneActionInv, Next, NEW d \in Dashboards, NEW m \in Sent(d), m.request \notin ambiguous
  PROVE  Queued(d, m.request) \cup MergedFor(d, m.request) = {}
<1>1. /\ LinkedInv /\ TypeOK
      /\ Len(toServer'[d]) > Len(toServer[d]) /\ m = toServer'[d][Len(toServer'[d])]
  BY DEF OneActionInv, LinkedInv, Sent
<1>2. OperatorStep(d)
  BY <1>1, OnlyOperatorsSend
<1>3. toServer[d] \in Seq(Action) /\ Len(toServer[d]) \in Nat
  BY <1>1 DEF TypeOK
<1>4. toServer'[d] # toServer[d]
  BY <1>1, <1>3
<1>5. PICK q, t : Acts(d, q, t)
  BY <1>1, <1>2, <1>4, OperatorActs
<1>6. PICK a \in Action : /\ link[d] = "open" /\ a.request = q /\ a.sock = sock[d]
                          /\ toServer' = [toServer EXCEPT ![d] = Append(@, a)]
  BY <1>1, <1>4, <1>5, ActsSend
<1>7. m = a
  <2>1. toServer'[d] = Append(toServer[d], a)
    BY <1>1, <1>6 DEF TypeOK
  <2>2. Len(Append(toServer[d], a)) = Len(toServer[d]) + 1
        /\ Append(toServer[d], a)[Len(toServer[d]) + 1] = a
    BY <1>3, AllStay
  <2>3. QED
    BY <1>1, <2>1, <2>2
<1>8. q \in Requests \ ambiguous /\ m.request = q
  BY <1>5, <1>6, <1>7 DEF Acts
<1>9. SingleOn(d, q)
  BY <1>8, SingleByDashboard DEF OneActionInv
<1>10. Sends(d, q) = {} /\ Runs(d, q) = {}
  BY <1>1, <1>5, <1>6, <1>9, ActsOnlyWhenFree
<1>11. Queued(d, q) = {} /\ MergedFor(d, q) = {}
  BY <1>10 DEF Queued, Sends, MergedFor, Runs
<1>12. QED
  BY <1>8, <1>11

\* No dashboard sends a second action on a submission while the first on the same socket is on its
\* way or in git, whichever of the lane's keys, the reject sheet and the review sheet it comes from,
\* and whatever is resubmitted in between.
THEOREM NoActionIsDoubled == Spec => NoDoubleAction
<1> DEFINE Single == \A d \in Dashboards : \A m \in Sent(d) :
             m.request \notin ambiguous =>
               m.version \notin Queued(d, m.request) \cup MergedFor(d, m.request)
<1>1. OneActionInv /\ [Next]_vars => [Single]_vars
  <2>1. ASSUME OneActionInv, Next
        PROVE  Single
    BY <2>1, SentWhenFree
  <2>2. QED
    BY <2>1
<1>2. QED
  BY <1>1, OneActionInvariant, PTL DEF Spec, NoDoubleAction
=============================================================================
