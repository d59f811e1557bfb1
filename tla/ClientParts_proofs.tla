------------------------- MODULE ClientParts_proofs -------------------------
(***************************************************************************)
(* Invariants of the parts that ClientParts instantiates, each of a        *)
(* behaviour of that part alone. Parts_proofs uses them for the behaviours *)
(* of MCParts.                                                             *)
(***************************************************************************)
EXTENDS ClientParts, Ranks, FiniteSetTheorems, FunctionTheorems, SequenceTheorems,
        WellFoundedInduction, TLAPS

-----------------------------------------------------------------------------
(* Sets of numbers, and the members of a finite set in order *)

\* A set of numbers has a smallest one.
LEMMA SmallestNumber ==
  ASSUME NEW S \in SUBSET Nat, S # {}
  PROVE  \E m \in S : \A n \in S : m <= n
<1> DEFINE Below == OpToRel(<, Nat)
<1>1. IsWellFoundedOn(Below, Nat)
  BY NatLessThanWellFounded
<1>2. \A m, n \in Nat : n < m => <<n, m>> \in Below
  BY DEF OpToRel
<1> HIDE DEF Below
<1>3. PICK m \in S : \A n \in S : ~ (<<n, m>> \in Below)
  BY <1>1, WFMin
<1>4. \A n \in S : m <= n
  <2> TAKE n \in S
  <2>1. m \in Nat /\ n \in Nat /\ ~ (n < m)
    BY <1>2, <1>3
  <2>2. QED
    BY <2>1
<1>5. QED
  BY <1>4

\* A strict order of finitely many.
Ordered(S, R) ==
  /\ \A a \in S : <<a, a>> \notin R
  /\ \A a, b \in S : a = b \/ <<a, b>> \in R \/ <<b, a>> \in R
  /\ \A a, b, c \in S : <<a, b>> \in R /\ <<b, c>> \in R => <<a, c>> \in R

\* Each place has one member, and who comes before another has a place before.
Placed(place, S, R) ==
  /\ Cardinality(S) \in Nat /\ place \in [S -> 1..Cardinality(S)]
  /\ \A a, b \in S : <<a, b>> \in R => place[a] < place[b]
  /\ \A k \in 1..Cardinality(S) : \E m \in S : place[m] = k
  /\ \A a, b \in S : place[a] = place[b] => a = b

LEMMA PlacesInOrder ==
  ASSUME NEW S, NEW R, IsFiniteSet(S), Ordered(S, R), NEW place,
         place = [m \in S |-> 1 + Cardinality({b \in S : <<b, m>> \in R})]
  PROVE  Placed(place, S, R)
<1> DEFINE Below(m) == {b \in S : <<b, m>> \in R}
           n == Cardinality(S)
<1>1. n \in Nat
  BY FS_CardinalityType
<1>2. ASSUME NEW m \in S
      PROVE  /\ IsFiniteSet(Below(m)) /\ Cardinality(Below(m)) \in Nat /\ Cardinality(Below(m)) < n
             /\ place[m] = 1 + Cardinality(Below(m))
  <2>1. Below(m) \in SUBSET S /\ m \notin Below(m)
    BY DEF Ordered
  <2>2. IsFiniteSet(Below(m)) /\ Cardinality(Below(m)) <= n /\ (n = Cardinality(Below(m)) => S = Below(m))
    BY <2>1, FS_Subset
  <2>3. Cardinality(Below(m)) \in Nat
    BY <2>2, FS_CardinalityType
  <2>4. place[m] = 1 + Cardinality(Below(m))
    OBVIOUS
  <2> HIDE DEF Below, n
  <2>5. QED
    BY <1>1, <2>1, <2>2, <2>3, <2>4
<1>3. ASSUME NEW a \in S, NEW b \in S, <<a, b>> \in R
      PROVE  place[a] < place[b]
  <2>1. Below(a) \in SUBSET Below(b) /\ a \in Below(b) /\ a \notin Below(a)
    BY <1>3 DEF Ordered
  <2>2. Cardinality(Below(a)) <= Cardinality(Below(b))
        /\ (Cardinality(Below(b)) = Cardinality(Below(a)) => Below(b) = Below(a))
    BY <1>2, <2>1, FS_Subset
  <2>3. /\ Cardinality(Below(a)) \in Nat /\ Cardinality(Below(b)) \in Nat
        /\ place[a] = 1 + Cardinality(Below(a)) /\ place[b] = 1 + Cardinality(Below(b))
    BY <1>2
  <2> HIDE DEF Below
  <2>4. QED
    BY <2>1, <2>2, <2>3
<1>4. place \in [S -> 1..n]
  <2>1. \A m \in S : place[m] \in 1..n
    <3> HIDE DEF Below, n
    <3>1. QED
      BY <1>1, <1>2
  <2>2. QED
    BY <2>1
<1>5. ASSUME NEW a \in S, NEW b \in S, place[a] = place[b] PROVE a = b
  <2>1. place[a] \in Int /\ place[b] \in Int
    BY <1>4
  <2>2. a = b \/ <<a, b>> \in R \/ <<b, a>> \in R
    BY DEF Ordered
  <2>3. ~ (place[a] < place[b]) /\ ~ (place[b] < place[a])
    BY <1>5, <2>1
  <2>4. QED
    BY <1>3, <2>2, <2>3
<1>6. place \in Injection(S, 1..n)
  BY <1>4, <1>5 DEF Injection, IsInjective
<1>7. IsFiniteSet(1..n) /\ Cardinality(1..n) = n
  <2> HIDE DEF n
  <2>1. 0 \in Int /\ 1 \in Int /\ n \in Int
    BY <1>1
  <2>2. IsFiniteSet(1..n) /\ Cardinality(1..n) = IF 1 > n THEN 0 ELSE n - 1 + 1
    BY <2>1, FS_Interval
  <2>3. QED
    BY <1>1, <2>2
<1>8. place \in Surjection(S, 1..n)
  BY <1>6, <1>7, FS_Injection
<1>9. \A k \in 1..n : \E m \in S : place[m] = k
  BY <1>8 DEF Surjection
<1>10. QED
  BY <1>1, <1>3, <1>4, <1>5, <1>9 DEF Placed

\* The k-th member is the one of rank k, and later members are greater.
LEMMA NthOfRank ==
  ASSUME NEW S \in SUBSET Nat, IsFiniteSet(S)
  PROVE  /\ \A i \in S : Rank(S, i) \in 1 .. Cardinality(S) /\ Nth(S, Rank(S, i)) = i
         /\ \A k \in 1 .. Cardinality(S) : Nth(S, k) \in S /\ Rank(S, Nth(S, k)) = k
         /\ \A k, l \in 1 .. Cardinality(S) : k < l => Nth(S, k) < Nth(S, l)
<1> DEFINE less == {x \in S \X S : x[1] < x[2]}
           place == [m \in S |-> 1 + Cardinality({b \in S : <<b, m>> \in less})]
           n == Cardinality(S)
<1>0. \A a, b \in S : a \in Nat /\ b \in Nat /\ (<<a, b>> \in less <=> a < b)
  OBVIOUS
<1>1. Ordered(S, less)
  <2> HIDE DEF less
  <2>1. QED
    BY <1>0 DEF Ordered
<1> HIDE DEF less
<1>2. ASSUME NEW m \in S PROVE Rank(S, m) = place[m]
  <2> DEFINE below == {b \in S : <<b, m>> \in less}
  <2>1. below \in SUBSET S /\ m \notin below /\ {j \in S : j <= m} = below \cup {m}
    <3>1. \A b \in S : b \in below <=> b < m
      BY <1>0
    <3>2. below \in SUBSET S
      OBVIOUS
    <3> HIDE DEF below
    <3>3. \A b \in S : b <= m <=> b \in below \/ b = m
      BY <1>0, <3>1
    <3>4. {j \in S : j <= m} = below \cup {m}
      BY <3>2, <3>3
    <3>5. QED
      BY <1>0, <3>1, <3>2, <3>4
  <2> HIDE DEF place
  <2>2. IsFiniteSet(below)
    BY <2>1, FS_Subset
  <2>3. Cardinality(below \cup {m}) = Cardinality(below) + 1 /\ Cardinality(below) \in Nat
    BY <2>1, <2>2, FS_AddElement, FS_CardinalityType
  <2>4. Rank(S, m) = Cardinality(below \cup {m})
    BY <2>1 DEF Rank
  <2>5. place[m] = 1 + Cardinality(below)
    BY DEF below, place
  <2>6. QED
    BY <2>3, <2>4, <2>5
<1>3. place = [m \in S |-> 1 + Cardinality({b \in S : <<b, m>> \in less})]
  OBVIOUS
<1> HIDE DEF place
<1>4. /\ n \in Nat /\ place \in [S -> 1..n]
      /\ \A a, b \in S : <<a, b>> \in less => place[a] < place[b]
      /\ \A k \in 1..n : \E m \in S : place[m] = k
      /\ \A a, b \in S : place[a] = place[b] => a = b
  <2>1. Placed(place, S, less)
    BY <1>1, <1>3, PlacesInOrder
  <2>2. QED
    BY <2>1 DEF Placed
<1> HIDE DEF n
<1>5. \A k \in 1..n : Nth(S, k) \in S /\ Rank(S, Nth(S, k)) = k
  <2> TAKE k \in 1..n
  <2>1. \E i \in S : Rank(S, i) = k
    BY <1>2, <1>4
  <2>2. QED
    BY <2>1 DEF Nth
<1>6. ASSUME NEW i \in S PROVE Rank(S, i) \in 1..n /\ Nth(S, Rank(S, i)) = i
  <2>1. Rank(S, i) = place[i] /\ place[i] \in 1..n
    BY <1>2, <1>4
  <2>2. Nth(S, place[i]) \in S /\ Rank(S, Nth(S, place[i])) = place[i]
    BY <1>5, <2>1
  <2>3. place[Nth(S, place[i])] = place[i]
    BY <1>2, <2>2
  <2>4. Nth(S, place[i]) = i
    BY <1>4, <2>2, <2>3
  <2>5. QED
    BY <2>1, <2>4
<1>7. ASSUME NEW k \in 1..n, NEW l \in 1..n, k < l PROVE Nth(S, k) < Nth(S, l)
  <2>1. /\ Nth(S, k) \in S /\ Nth(S, l) \in S /\ place[Nth(S, k)] = k /\ place[Nth(S, l)] = l
        /\ Nth(S, k) \in Nat /\ Nth(S, l) \in Nat
    <3>1. Nth(S, k) \in S /\ Nth(S, l) \in S /\ Rank(S, Nth(S, k)) = k /\ Rank(S, Nth(S, l)) = l
      BY <1>5
    <3>2. place[Nth(S, k)] = k /\ place[Nth(S, l)] = l
      BY <1>2, <3>1
    <3>3. QED
      BY <3>1, <3>2
  <2>2. ~ (place[Nth(S, l)] < place[Nth(S, k)]) /\ Nth(S, k) # Nth(S, l)
    BY <1>7, <2>1
  <2>3. ~ (Nth(S, l) < Nth(S, k))
    <3>1. <<Nth(S, l), Nth(S, k)>> \in less => place[Nth(S, l)] < place[Nth(S, k)]
      BY <1>4, <2>1
    <3>2. QED
      BY <1>0, <2>1, <2>2, <3>1
  <2>4. QED
    BY <2>1, <2>2, <2>3
<1>8. QED
  BY <1>5, <1>6, <1>7 DEF n

\* f lists the members of S in order, each one once.
Orders(f, n, S) ==
  /\ f \in [1 .. n -> S] /\ \A i \in S : \E k \in 1 .. n : f[k] = i
  /\ \A k, l \in 1 .. n : k < l => f[k] < f[l]

\* There is one such list.
LEMMA OrderIsNth ==
  ASSUME NEW S \in SUBSET Nat, NEW n \in Nat, NEW f, Orders(f, n, S)
  PROVE  IsFiniteSet(S) /\ Cardinality(S) = n /\ \A k \in 1 .. n : Nth(S, k) = f[k]
<1> f \in [1 .. n -> S]
  BY DEF Orders
<1> \A i \in S : \E k \in 1 .. n : f[k] = i
  BY DEF Orders
<1> \A k, l \in 1 .. n : k < l => f[k] < f[l]
  BY DEF Orders
<1>1. \A k \in 0 .. n : IsFiniteSet(1 .. k) /\ Cardinality(1 .. k) = k
  <2> TAKE k \in 0 .. n
  <2>1. 1 \in Int /\ k \in Int
    OBVIOUS
  <2>2. IsFiniteSet(1 .. k) /\ Cardinality(1 .. k) = IF 1 > k THEN 0 ELSE k - 1 + 1
    BY <2>1, FS_Interval
  <2>3. QED
    BY <2>2
<1>2. \A k, l \in 1 .. n : f[k] = f[l] => k = l
  <2> TAKE k \in 1 .. n, l \in 1 .. n
  <2>1. k < l \/ l < k \/ k = l
    OBVIOUS
  <2>2. f[k] \in Nat /\ f[l] \in Nat
    OBVIOUS
  <2>3. (k < l => f[k] < f[l]) /\ (l < k => f[l] < f[k])
    OBVIOUS
  <2>4. QED
    BY <2>1, <2>2, <2>3
<1>3. IsFiniteSet(S) /\ Cardinality(S) = n
  <2>1. f \in Bijection(1 .. n, S)
    BY <1>2 DEF Bijection, Injection, Surjection, IsInjective
  <2>2. n \in 0 .. n
    OBVIOUS
  <2>3. QED
    BY <1>1, <2>1, <2>2, FS_Bijection DEF ExistsBijection
<1>4. ASSUME NEW k \in 1 .. n PROVE Rank(S, f[k]) = k
  <2> DEFINE upto == {j \in S : j <= f[k]}
             g == [l \in 1 .. k |-> f[l]]
  <2>1. \A l \in 1 .. n : f[l] \in Nat /\ (l \in 1 .. k <=> f[l] <= f[k])
    <3> TAKE l \in 1 .. n
    <3>1. f[l] \in Nat /\ f[k] \in Nat
      OBVIOUS
    <3>2. l < k \/ k < l \/ l = k
      OBVIOUS
    <3>3. (l < k => f[l] < f[k]) /\ (k < l => f[k] < f[l])
      OBVIOUS
    <3>4. QED
      BY <3>1, <3>2, <3>3
  <2>2. g \in Bijection(1 .. k, upto)
    <3>1. g \in [1 .. k -> upto]
      BY <2>1
    <3>2. \A j \in upto : \E l \in 1 .. k : g[l] = j
      BY <2>1
    <3>3. \A l, m \in 1 .. k : g[l] = g[m] => l = m
      BY <1>2
    <3>4. QED
      BY <3>1, <3>2, <3>3 DEF Bijection, Injection, Surjection, IsInjective
  <2>3. k \in 0 .. n /\ Rank(S, f[k]) = Cardinality(upto)
    BY DEF Rank
  <2> HIDE DEF upto, g
  <2>4. QED
    BY <1>1, <2>2, <2>3, FS_Bijection DEF ExistsBijection
<1>5. ASSUME NEW k \in 1 .. n PROVE Nth(S, k) = f[k]
  <2>1. Nth(S, k) \in S /\ Rank(S, Nth(S, k)) = k
    BY <1>3, NthOfRank
  <2>2. PICK l \in 1 .. n : f[l] = Nth(S, k)
    BY <2>1
  <2>3. l = k
    BY <1>4, <2>1, <2>2
  <2>4. QED
    BY <2>2, <2>3
<1>6. QED
  BY <1>3, <1>5

-----------------------------------------------------------------------------
(* Members of a sequence *)

LEMMA PlacesFinite ==
  ASSUME NEW T, NEW s \in Seq(T), NEW S \in SUBSET DOMAIN s
  PROVE  S \in SUBSET Nat /\ IsFiniteSet(S) /\ Cardinality(S) \in Nat
<1>1. Len(s) \in Nat /\ DOMAIN s = 1 .. Len(s)
  OBVIOUS
<1>2. IsFiniteSet(1 .. Len(s))
  <2>1. 1 \in Int /\ Len(s) \in Int
    BY <1>1
  <2>2. QED
    BY <2>1, FS_Interval
<1>3. IsFiniteSet(S)
  BY <1>1, <1>2, FS_Subset
<1>4. QED
  BY <1>1, <1>3, FS_CardinalityType

\* They are picked in order, each one once.
LEMMA PickedInOrder ==
  ASSUME NEW T, NEW s \in Seq(T), NEW S \in SUBSET DOMAIN s
  PROVE  /\ Cardinality(S) \in Nat /\ Picked(s, S) \in Seq(T)
         /\ Len(Picked(s, S)) = Cardinality(S)
         /\ \A k \in 1 .. Cardinality(S) : Nth(S, k) \in S /\ Picked(s, S)[k] = s[Nth(S, k)]
         /\ \A i \in S : \E k \in 1 .. Cardinality(S) : Nth(S, k) = i
         /\ \A k, l \in 1 .. Cardinality(S) : k < l => Nth(S, k) < Nth(S, l)
<1> DEFINE n == Cardinality(S)
<1>1. S \in SUBSET Nat /\ IsFiniteSet(S) /\ n \in Nat
  BY PlacesFinite
<1>2. /\ \A k \in 1 .. n : Nth(S, k) \in S
      /\ \A i \in S : Nth(S, Rank(S, i)) = i /\ Rank(S, i) \in 1 .. n
      /\ \A k, l \in 1 .. n : k < l => Nth(S, k) < Nth(S, l)
  BY <1>1, NthOfRank
<1>3. Picked(s, S) = [k \in 1 .. n |-> s[Nth(S, k)]]
  BY DEF Picked
<1> HIDE DEF n
<1>4. Picked(s, S) \in Seq(T) /\ Len(Picked(s, S)) = n
  BY <1>1, <1>2, <1>3
<1>5. \A k \in 1 .. n : Nth(S, k) \in S /\ Picked(s, S)[k] = s[Nth(S, k)]
  BY <1>2, <1>3
<1>6. \A i \in S : \E k \in 1 .. n : Nth(S, k) = i
  BY <1>2
<1>7. QED
  BY <1>1, <1>2, <1>4, <1>5, <1>6 DEF n

\* h takes the members of s at S to those of t at U, and keeps them and their order.
Carries(h, s, S, t, U) ==
  /\ h \in [S -> U] /\ \A j \in U : \E i \in S : h[i] = j
  /\ \A i, j \in S : i < j => h[i] < h[j]
  /\ \A i \in S : t[h[i]] = s[i]

\* What keeps the picked members, and their order, keeps what is picked.
LEMMA PickedSame ==
  ASSUME NEW T, NEW s \in Seq(T), NEW S \in SUBSET DOMAIN s,
         NEW t \in Seq(T), NEW U \in SUBSET DOMAIN t, NEW h, Carries(h, s, S, t, U)
  PROVE  Picked(t, U) = Picked(s, S)
<1> h \in [S -> U] /\ \A i \in S : t[h[i]] = s[i]
  BY DEF Carries
<1> \A j \in U : \E i \in S : h[i] = j
  BY DEF Carries
<1> \A i, j \in S : i < j => h[i] < h[j]
  BY DEF Carries
<1> DEFINE n == Cardinality(S)
           g == [k \in 1 .. n |-> h[Nth(S, k)]]
<1>1. /\ n \in Nat
      /\ \A k \in 1 .. n : Nth(S, k) \in S /\ Picked(s, S)[k] = s[Nth(S, k)]
      /\ \A i \in S : \E k \in 1 .. n : Nth(S, k) = i
      /\ \A k, l \in 1 .. n : k < l => Nth(S, k) < Nth(S, l)
  <2>1. S \in SUBSET Nat /\ IsFiniteSet(S) /\ n \in Nat
    <3>1. s \in Seq(T) /\ S \in SUBSET DOMAIN s
      OBVIOUS
    <3>2. QED
      BY ONLY <3>1, PlacesFinite
  <2>2. /\ \A k \in 1 .. n : Nth(S, k) \in S
        /\ \A i \in S : Nth(S, Rank(S, i)) = i /\ Rank(S, i) \in 1 .. n
        /\ \A k, l \in 1 .. n : k < l => Nth(S, k) < Nth(S, l)
    BY ONLY <2>1, NthOfRank
  <2>3. \A k \in 1 .. n : Picked(s, S)[k] = s[Nth(S, k)]
    BY DEF Picked
  <2>4. \A i \in S : \E k \in 1 .. n : Nth(S, k) = i
    BY <2>2
  <2> HIDE DEF n
  <2>5. QED
    BY <2>1, <2>2, <2>3, <2>4
<1>2. U \in SUBSET Nat
  OBVIOUS
<1>3. Picked(s, S) = [k \in 1 .. n |-> s[Nth(S, k)]]
  BY DEF Picked
<1> HIDE DEF n
<1>4. g \in [1 .. n -> U]
  BY <1>1
<1>5. \A j \in U : \E k \in 1 .. n : g[k] = j
  BY <1>1
<1>6. \A k, l \in 1 .. n : k < l => g[k] < g[l]
  BY <1>1
<1>7. \A k \in 1 .. n : t[g[k]] = s[Nth(S, k)]
  BY <1>1
<1> HIDE DEF g
<1>8. Cardinality(U) = n /\ \A k \in 1 .. n : Nth(U, k) = g[k]
  <2>1. Orders(g, n, U)
    BY <1>4, <1>5, <1>6 DEF Orders
  <2>2. QED
    BY ONLY <1>1, <1>2, <2>1, OrderIsNth
<1>9. Picked(t, U) = [k \in 1 .. n |-> t[Nth(U, k)]]
  BY <1>8 DEF Picked
<1>10. QED
  BY <1>3, <1>7, <1>8, <1>9

-----------------------------------------------------------------------------
(* The project registry and .env (maestro-server.js, scripts/projects.js,  *)
(* scripts/configure.js).                                                  *)

LEMMA RegistryCounts ==
  ASSUME NEW s PROVE P!Cardinality(s) = Cardinality(s) /\ (P!IsFiniteSet(s) <=> IsFiniteSet(s))
BY DEF P!Cardinality, P!IsFiniteSet, Cardinality, IsFiniteSet

\* The id a new project gets is one that no entry of the registry has, however many there are
\* (the loop of toProjectId, project-registry.mjs).
THEOREM NewIdIsNew ==
  ASSUME NEW S \in SUBSET P!Entry, IsFiniteSet(S)
  PROVE  P!NewId(S) \in Nat /\ P!NewId(S) \notin {e.id : e \in S}
<1> DEFINE taken == {e.id : e \in S}
           n == Cardinality(S) + 1
           free == {k \in 1..n : k \notin taken}
<1>1. IsFiniteSet(taken) /\ Cardinality(taken) <= Cardinality(S) /\ Cardinality(S) \in Nat
      /\ Cardinality(taken) \in Nat
  <2>1. IsFiniteSet(taken) /\ Cardinality(taken) <= Cardinality(S)
    <3> DEFINE f == [e \in S |-> e.id]
    <3>1. f \in Surjection(S, taken)
      BY DEF Surjection
    <3>2. QED
      BY <3>1, FS_Surjection
  <2>2. QED
    BY <2>1, FS_CardinalityType
<1> HIDE DEF taken
<1>2. n \in Nat /\ n = Cardinality(S) + 1
  BY <1>1
<1> HIDE DEF n
<1>9. IsFiniteSet(1..n) /\ Cardinality(1..n) = n
  <2>1. 1 \in Int /\ n \in Int /\ ~ (1 > n)
    BY <1>1, <1>2
  <2>2. QED
    BY <2>1, <1>2, FS_Interval
<1>3. free # {}
  <2>1. SUFFICES ASSUME 1..n \subseteq taken PROVE FALSE
    OBVIOUS
  <2>2. Cardinality(1..n) <= Cardinality(taken)
    BY <1>1, <2>1, FS_Subset
  <2>3. QED
    BY <1>1, <1>2, <1>9, <2>2
<1>4. PICK k \in free : \A m \in free : k <= m
  <2>1. free \in SUBSET Nat
    BY <1>2
  <2> HIDE DEF free
  <2>2. QED
    BY <2>1, <1>3, SmallestNumber
<1>5. k \in 1..n /\ k \notin taken /\ \A m \in 1..(k - 1) : m \in taken
  <2>1. k \in 1..n /\ k \notin taken
    OBVIOUS
  <2>2. ASSUME NEW m \in 1..(k - 1), m \notin taken PROVE FALSE
    <3>1. m \in 1..n /\ m < k
      BY <1>2, <2>1
    <3>2. m \in free
      BY <2>2, <3>1
    <3>3. QED
      BY <1>2, <1>4, <3>1, <3>2
  <2>3. QED
    BY <2>1, <2>2
<1>6. P!NewId(S) = CHOOSE j \in 1..n : j \notin taken /\ \A m \in 1..(j - 1) : m \in taken
  BY RegistryCounts DEF P!NewId, taken, n
<1>7. P!NewId(S) \in 1..n /\ P!NewId(S) \notin taken
  BY <1>5, <1>6
<1>8. QED
  BY <1>2, <1>7 DEF taken

(* Types. *)

LEMMA OpsOfFiles ==
  /\ \A op \in P!Op : op.do \in {"upsert", "env", "mark"}
  /\ \A op \in P!Op : op.do = "upsert" =>
       op.path \in Paths /\ op.lanes \in 1..8 /\ op.id \in P!Ids \cup {None}
  /\ \A op \in P!Op : op.do = "env" =>
       op.path \in Paths /\ op.lanes \in 1..8 /\ op.settings \in Nat \cup {None}
  /\ \A p \in Paths, i \in P!Ids \cup {None}, n \in 1..8 : P!Upsert(p, i, n) \in P!Op
  /\ \A p \in Paths, i \in Nat \cup {None}, n \in 1..8 : P!SetEnv(p, n, i) \in P!Op
  /\ P!Mark \in P!Op
BY DEF P!Op, P!Upsert, P!SetEnv, P!Mark

LEMMA LanesAreSane == \A n \in LaneInputs : P!Sanitize(n) \in 1..8
<1> TAKE n \in LaneInputs
<1>1. n \in Int
  BY FilesAreFew
<1>2. QED
  BY <1>1 DEF P!Sanitize

LEMMA ReadsTyped ==
  ASSUME P!TypeOK, P!OpsTyped
  PROVE  /\ P!ReadRegistry \subseteq P!Entry /\ IsFiniteSet(P!ReadRegistry)
         /\ P!ReadEnv \in P!Env /\ P!ReadEnv.path \in Paths /\ P!ReadEnv.lanes \in 1..8
         /\ P!Available(P!ReadRegistry) \subseteq P!Entry
<1>1. P!ReadRegistry \subseteq P!Entry /\ IsFiniteSet(P!ReadRegistry)
  BY RegistryCounts, FS_EmptySet DEF P!TypeOK, P!OpsTyped, P!ReadRegistry
<1>2. P!NoEnv \in P!Env
  BY FilesAreFew DEF P!NoEnv, P!Env, P!DefaultLanes
<1>3. P!ReadEnv \in P!Env
  BY <1>2 DEF P!TypeOK, P!ReadEnv
<1>4. runtime \in P!Entry
  BY DEF P!TypeOK
<1>5. P!Available(P!ReadRegistry) \subseteq P!Entry
  BY <1>1, <1>4 DEF P!Available
<1>6. P!ReadEnv.path \in Paths /\ P!ReadEnv.lanes \in 1..8
  BY <1>3 DEF P!Env
<1>7. QED
  BY <1>1, <1>3, <1>5, <1>6

LEMMA RuntimeIdsTyped ==
  ASSUME NEW S, S \subseteq P!Entry, NEW p \in Paths, NEW i \in P!RuntimeIdOf(p, S)
  PROVE  i \in P!Ids /\ (i = RuntimeId[p] \/ \E e \in S : e.path = p /\ e.id = i)
BY DEF P!RuntimeIdOf, P!Entry, P!Ids

\* A call or command begins with something to do.
LEMMA BeginsTyped ==
  ASSUME P!TypeOK, P!OpsTyped, NEW x \in P!Processes, NEW plan \in Seq(P!Op), NEW i,
         plan # <<>>, P!Begins(x, plan, i)
  PROVE  P!TypeOK' /\ P!OpsTyped'
<1>1. jobs' \in 0..MaxJobs
  BY ClientBounds DEF P!TypeOK, P!Begins
<1>2. P!TypeOK'
  BY <1>1 DEF P!TypeOK, P!Begins
<1>3. ops' = [ops EXCEPT ![x] = plan] /\ ops' \in [P!Processes -> Seq(P!Op)]
  BY DEF P!OpsTyped, P!Begins
<1>4. ASSUME NEW y \in P!Processes, phase'[y] # "reads"
      PROVE  /\ ops'[y] # <<>>
             /\ IF P!File(y)' = "env" THEN copy'[y] \in P!Env
                ELSE copy'[y] \subseteq P!Entry /\ P!IsFiniteSet(copy'[y])
  <2>1. phase[y] # "reads" /\ copy'[y] = copy[y]
    BY <1>4 DEF P!Begins
  <2>2. ops[y] # <<>>
    BY <2>1 DEF P!OpsTyped
  <2>3. y # x /\ ops'[y] = ops[y]
    BY <1>3, <2>2 DEF P!Begins, P!OpsTyped
  <2>4. P!File(y)' = P!File(y)
    BY <2>3 DEF P!File, P!First
  <2>5. QED
    BY <2>1, <2>2, <2>3, <2>4 DEF P!OpsTyped
<1>5. QED
  BY <1>2, <1>3, <1>4 DEF P!OpsTyped, P!Begins

LEMMA CallsTyped ==
  ASSUME P!TypeOK, P!OpsTyped,
         P!Select \/ P!Update \/ P!RegisterProject \/ P!Add \/ P!Use \/ P!Configure
  PROVE  P!TypeOK' /\ P!OpsTyped'
<1> USE OpsOfFiles
<1>0. "server" \in P!Processes /\ "cli" \in P!Processes
  BY DEF P!Processes
<1>1. /\ \A op1, op2 \in P!Op : <<op1, op2>> \in Seq(P!Op) /\ <<op1, op2>> # <<>>
      /\ \A op1 \in P!Op : <<op1>> \in Seq(P!Op) /\ <<op1>> # <<>>
      /\ \A op1, op2, op3 \in P!Op : <<op1, op2, op3>> \in Seq(P!Op) /\ <<op1, op2, op3>> # <<>>
  OBVIOUS
<1>2. /\ \A e \in P!Available(P!ReadRegistry) :
            e.path \in Paths /\ e.lanes \in 1..8 /\ e.id \in P!Ids \cup {None}
      /\ \A e \in P!ReadRegistry : e.path \in Paths /\ e.lanes \in 1..8
  BY ReadsTyped DEF P!Entry
<1>3. jobs + 1 \in Nat \cup {None} /\ None \in Nat \cup {None} /\ None \in P!Ids \cup {None}
  BY DEF P!TypeOK
<1>4. CASE P!Select
  <2>1. PICK t \in P!Available(P!ReadRegistry) :
          P!Begins("server", <<P!SetEnv(t.path, t.lanes, None), P!Mark>>, t.id)
    BY <1>4 DEF P!Select
  <2>2. QED
    BY <1>0, <1>1, <1>2, <1>3, <2>1, BeginsTyped
<1>5. CASE P!Update
  <2>1. PICK t \in P!Available(P!ReadRegistry), n \in LaneInputs :
          \/ P!Begins("server", <<P!Upsert(t.path, t.id, P!Sanitize(n)),
                                  P!SetEnv(t.path, P!Sanitize(n), None), P!Mark>>, None)
          \/ P!Begins("server", <<P!Upsert(t.path, t.id, P!Sanitize(n))>>, None)
    BY <1>5 DEF P!Update
  <2>2. P!Sanitize(n) \in 1..8
    BY LanesAreSane
  <2>3. QED
    BY <1>0, <1>1, <1>2, <1>3, <2>1, <2>2, BeginsTyped
<1>6. CASE P!RegisterProject
  <2>1. PICK p \in Paths, n \in LaneInputs :
          \/ P!Begins("server", <<P!Upsert(p, None, P!Sanitize(n)),
                                  P!SetEnv(p, P!Sanitize(n), None), P!Mark>>, None)
          \/ P!Begins("server", <<P!Upsert(p, None, P!Sanitize(n))>>, None)
    BY <1>6 DEF P!RegisterProject
  <2>2. P!Sanitize(n) \in 1..8
    BY LanesAreSane
  <2>3. QED
    BY <1>0, <1>1, <1>3, <2>1, <2>2, BeginsTyped
<1>7. CASE P!Add
  <2>1. PICK p \in Paths, n \in LaneInputs \cap 1..8 :
          \/ P!Begins("cli", <<P!Upsert(p, None, n), P!SetEnv(p, n, None), P!Mark>>, None)
          \/ P!Begins("cli", <<P!Upsert(p, None, n)>>, None)
    BY <1>7 DEF P!Add
  <2>2. QED
    BY <1>0, <1>1, <1>3, <2>1, BeginsTyped
<1>8. CASE P!Use
  <2>1. PICK e \in P!ReadRegistry :
          P!Begins("cli", <<P!SetEnv(e.path, e.lanes, None), P!Mark>>, e.id)
    BY <1>8 DEF P!Use
  <2>2. QED
    BY <1>0, <1>1, <1>2, <1>3, <2>1, BeginsTyped
<1>9. CASE P!Configure
  <2>1. CASE \E p \in Paths, n \in LaneInputs \cap 1..8 :
               \/ P!Begins("cli", <<P!Upsert(p, None, n), P!SetEnv(p, n, jobs + 1), P!Mark>>, None)
               \/ P!Begins("cli", <<P!SetEnv(p, n, jobs + 1)>>, None)
    BY <1>0, <1>1, <1>3, <2>1, BeginsTyped
  <2>2. CASE \E e \in P!ReadRegistry :
               P!Begins("cli", <<P!SetEnv(e.path, e.lanes, jobs + 1), P!Mark>>, e.id)
    BY <1>0, <1>1, <1>2, <1>3, <2>2, BeginsTyped
  <2>3. QED
    BY <1>9, <2>1, <2>2 DEF P!Configure
<1>10. QED
  BY <1>4, <1>5, <1>6, <1>7, <1>8, <1>9

LEMMA FirstTyped ==
  ASSUME P!TypeOK, P!OpsTyped, NEW x \in P!Processes, phase[x] # "reads"
  PROVE  /\ ops[x] \in Seq(P!Op) /\ ops[x] # <<>>
         /\ P!First(x) \in P!Op /\ Tail(ops[x]) \in Seq(P!Op)
         /\ P!First(x).do = "env" => P!File(x) = "env" /\ copy[x] \in P!Env
         /\ P!First(x).do # "env" =>
              P!File(x) = "registry" /\ copy[x] \subseteq P!Entry /\ IsFiniteSet(copy[x])
<1>1. ops[x] \in Seq(P!Op) /\ ops[x] # <<>>
  BY DEF P!OpsTyped
<1>2. P!First(x) \in P!Op /\ Tail(ops[x]) \in Seq(P!Op)
  BY <1>1 DEF P!First
<1>3. IF P!File(x) = "env" THEN copy[x] \in P!Env
                           ELSE copy[x] \subseteq P!Entry /\ IsFiniteSet(copy[x])
  BY RegistryCounts DEF P!OpsTyped
<1>4. QED
  BY <1>1, <1>2, <1>3 DEF P!File

\* A step of a process leaves what the others do alone.
LEMMA OthersStay ==
  ASSUME P!TypeOK, P!OpsTyped, NEW x \in P!Processes, NEW y \in P!Processes, x # y,
         P!Reads(x) \/ P!Truncates(x) \/ P!WritesEntry(x) \/ P!WritesMark(x) \/ P!SkipsMark(x)
         \/ P!WritesEnv(x)
  PROVE  /\ phase'[y] = phase[y] /\ ops'[y] = ops[y] /\ copy'[y] = copy[y]
         /\ P!First(y)' = P!First(y) /\ P!File(y)' = P!File(y)
<1>1. phase'[y] = phase[y] /\ ops'[y] = ops[y] /\ copy'[y] = copy[y]
  <2>1. DOMAIN phase = P!Processes /\ DOMAIN ops = P!Processes /\ DOMAIN copy = P!Processes
    BY DEF P!TypeOK, P!OpsTyped
  <2>2. CASE P!Reads(x)
    BY <2>1, <2>2 DEF P!Reads
  <2>3. CASE P!Truncates(x)
    BY <2>1, <2>3 DEF P!Truncates
  <2>4. CASE P!WritesEntry(x) \/ P!WritesMark(x) \/ P!SkipsMark(x) \/ P!WritesEnv(x)
    <3>1. P!Ends(x)
      BY <2>4 DEF P!WritesEntry, P!WritesMark, P!SkipsMark, P!WritesEnv, P!Writes
    <3>2. QED
      BY <2>1, <3>1 DEF P!Ends
  <2>5. QED
    BY <2>2, <2>3, <2>4
<1>2. QED
  BY <1>1 DEF P!First, P!File

LEMMA EndsTyped ==
  ASSUME P!TypeOK, P!OpsTyped, NEW x \in P!Processes, phase[x] # "reads", P!Ends(x)
  PROVE  /\ ops' \in [P!Processes -> Seq(P!Op)] /\ DOMAIN copy' = P!Processes
         /\ phase' \in [P!Processes -> {"reads", "changes", "writes"}]
         /\ phase'[x] = "reads"
         /\ jobs' = jobs /\ pCrashes' = pCrashes /\ pUp' = pUp
<1>1. Tail(ops[x]) \in Seq(P!Op)
  BY FirstTyped
<1>2. QED
  BY <1>1 DEF P!Ends, P!TypeOK, P!OpsTyped

\* What upsertProjectEntry makes of the entries.
LEMMA EntryWritten ==
  ASSUME P!TypeOK, P!OpsTyped, NEW x \in P!Processes, P!WritesEntry(x)
  PROVE  /\ phase[x] = "writes" /\ P!File(x) = "registry" /\ P!First(x).path \in Paths
         /\ P!First(x).do = "upsert" /\ P!First(x).id \in P!Ids \cup {None}
         /\ copy[x] \subseteq P!Entry /\ IsFiniteSet(copy[x])
         /\ pTorn' = pTorn \ {"registry"} /\ P!Ends(x)
         /\ raced' = (raced \/ "registry" \notin pTorn)
         /\ \E new \in P!Entry :
              /\ new.path = P!First(x).path
              /\ \/ /\ registry' = copy[x] \cup {new}
                    /\ \A e \in copy[x] : e.path # P!First(x).path /\ e.id # P!First(x).id
                    /\ IF P!First(x).id = None THEN new.id = P!NewId(copy[x])
                                               ELSE new.id = P!First(x).id
                 \/ \E e \in copy[x] :
                      /\ registry' = (copy[x] \ {e}) \cup {new} /\ new.id = e.id
                      /\ e.path = P!First(x).path \/ e.id = P!First(x).id
<1> DEFINE op == P!First(x)
<1>1. phase[x] = "writes" /\ op.do = "upsert" /\ P!Ends(x)
  BY DEF P!WritesEntry, P!Writes
<1>2. P!File(x) = "registry" /\ copy[x] \subseteq P!Entry /\ IsFiniteSet(copy[x]) /\ op \in P!Op
  BY <1>1, FirstTyped
<1>3. op.path \in Paths /\ op.lanes \in 1..8 /\ op.id \in P!Ids \cup {None}
  BY <1>1, <1>2, OpsOfFiles
<1>4. pTorn' = pTorn \ {"registry"} /\ raced' = (raced \/ "registry" \notin pTorn)
  BY <1>2 DEF P!WritesEntry, P!Writes
<1>5. P!NewId(copy[x]) \in P!Ids
  BY <1>2, NewIdIsNew DEF P!Ids
<1>6. P!Created(copy[x], op) \in P!Entry /\ \A e \in copy[x] : P!Saved(e, op) \in P!Entry
  BY <1>2, <1>3, <1>5 DEF P!Created, P!Saved, P!Entry
<1>7. CASE P!Matching(copy[x], op) = {}
  <2>1. registry' = copy[x] \cup {P!Created(copy[x], op)}
    BY <1>7 DEF P!WritesEntry
  <2>2. \A e \in copy[x] : e.path # op.path /\ e.id # op.id
    BY <1>7 DEF P!Matching
  <2>3. QED
    BY <1>1, <1>2, <1>3, <1>4, <1>6, <2>1, <2>2 DEF P!Created
<1>8. CASE P!Matching(copy[x], op) # {}
  <2>1. PICK e \in P!Matching(copy[x], op) : registry' = (copy[x] \ {e}) \cup {P!Saved(e, op)}
    BY <1>8 DEF P!WritesEntry
  <2>2. e \in copy[x] /\ (e.path = op.path \/ e.id = op.id)
    BY DEF P!Matching
  <2>3. QED
    BY <1>1, <1>2, <1>3, <1>4, <1>6, <2>1, <2>2 DEF P!Saved
<1>9. QED
  BY <1>7, <1>8

\* A file of entries stays one when an entry is replaced.
LEMMA EntryFiles ==
  ASSUME P!TypeOK, P!OpsTyped, NEW x \in P!Processes, P!WritesEntry(x)
  PROVE  registry' \subseteq P!Entry /\ IsFiniteSet(registry')
<1>1. copy[x] \subseteq P!Entry /\ IsFiniteSet(copy[x])
  BY EntryWritten
<1>2. PICK new \in P!Entry : registry' = copy[x] \cup {new}
                             \/ \E e \in copy[x] : registry' = (copy[x] \ {e}) \cup {new}
  BY EntryWritten
<1>3. registry' \subseteq P!Entry
  BY <1>1, <1>2
<1>4. IsFiniteSet(copy[x] \cup {new})
  BY <1>1, FS_AddElement
<1>5. registry' \subseteq copy[x] \cup {new}
  BY <1>2
<1>6. QED
  BY <1>3, <1>4, <1>5, FS_Subset

LEMMA EnvWritten ==
  ASSUME P!TypeOK, P!OpsTyped, NEW x \in P!Processes, P!WritesEnv(x)
  PROVE  /\ phase[x] = "writes" /\ P!File(x) = "env" /\ copy[x] \in P!Env /\ P!Ends(x)
         /\ pTorn' = pTorn \ {"env"} /\ raced' = (raced \/ "env" \notin pTorn)
         /\ env' \in P!Env /\ chosen' \in Nat
         /\ env'.path = P!First(x).path /\ env'.lanes = P!First(x).lanes
         /\ copy[x].settings = chosen => env'.settings = chosen'
         /\ IF x = "cli" THEN runtime' = runtime
            ELSE /\ runtime' \in P!Entry
                 /\ runtime'.path = env'.path /\ runtime'.lanes = env'.lanes
                 /\ \/ runtime'.id = RuntimeId[runtime'.path]
                    \/ \E e \in P!ReadRegistry : e.path = runtime'.path /\ e.id = runtime'.id
<1> DEFINE op == P!First(x)
<1>1. phase[x] = "writes" /\ op.do = "env" /\ P!Ends(x)
  BY DEF P!WritesEnv, P!Writes
<1>2. P!File(x) = "env" /\ copy[x] \in P!Env /\ op \in P!Op
  BY <1>1, FirstTyped
<1>3. op.path \in Paths /\ op.lanes \in 1..8 /\ op.settings \in Nat \cup {None}
  BY <1>1, <1>2, OpsOfFiles
<1>4. pTorn' = pTorn \ {"env"} /\ raced' = (raced \/ "env" \notin pTorn)
  BY <1>2 DEF P!WritesEnv, P!Writes
<1>5. /\ env' = [path |-> op.path, lanes |-> op.lanes, settings |-> P!Settings(copy[x], op)]
      /\ chosen' = IF op.settings = None THEN chosen ELSE op.settings
  BY DEF P!WritesEnv
<1>6. P!Settings(copy[x], op) \in Nat /\ chosen' \in Nat
      /\ (copy[x].settings = chosen => P!Settings(copy[x], op) = chosen')
  BY <1>2, <1>3, <1>5 DEF P!Settings, P!Env, P!TypeOK
<1>7. env' \in P!Env /\ env'.path = op.path /\ env'.lanes = op.lanes
      /\ (copy[x].settings = chosen => env'.settings = chosen')
  BY <1>3, <1>5, <1>6 DEF P!Env
<1>8. IF x = "cli" THEN runtime' = runtime
      ELSE /\ runtime' \in P!Entry
           /\ runtime'.path = op.path /\ runtime'.lanes = op.lanes
           /\ \/ runtime'.id = RuntimeId[runtime'.path]
              \/ \E e \in P!ReadRegistry : e.path = runtime'.path /\ e.id = runtime'.id
  <2>1. CASE x = "cli"
    BY <2>1 DEF P!WritesEnv
  <2>2. CASE x # "cli"
    <3>1. PICK i \in P!RuntimeIdOf(op.path, P!ReadRegistry) :
            runtime' = [path |-> op.path, id |-> i, lanes |-> op.lanes]
      BY <2>2 DEF P!WritesEnv
    <3>2. i \in P!Ids /\ (i = RuntimeId[op.path]
                          \/ \E e \in P!ReadRegistry : e.path = op.path /\ e.id = i)
      BY <1>3, ReadsTyped, RuntimeIdsTyped
    <3>3. QED
      BY <1>3, <2>2, <3>1, <3>2 DEF P!Entry
  <2>3. QED
    BY <2>1, <2>2
<1>9. QED
  BY <1>1, <1>2, <1>4, <1>6, <1>7, <1>8

\* A step of a process keeps the types.
LEMMA StepsTyped ==
  ASSUME P!TypeOK, P!OpsTyped, NEW x \in P!Processes,
         P!Reads(x) \/ P!Truncates(x) \/ P!WritesEntry(x) \/ P!WritesMark(x) \/ P!SkipsMark(x)
         \/ P!WritesEnv(x)
  PROVE  P!TypeOK' /\ P!OpsTyped'
<1> DEFINE Holds(y) ==
      phase'[y] # "reads" =>
        /\ ops'[y] # <<>>
        /\ IF P!File(y)' = "env" THEN copy'[y] \in P!Env
           ELSE copy'[y] \subseteq P!Entry /\ P!IsFiniteSet(copy'[y])
<1>1. \A y \in P!Processes : y # x => Holds(y)
  <2> TAKE y \in P!Processes
  <2> HAVE y # x
  <2>1. phase'[y] = phase[y] /\ ops'[y] = ops[y] /\ copy'[y] = copy[y] /\ P!File(y)' = P!File(y)
    BY OthersStay
  <2>2. QED
    BY <2>1 DEF P!OpsTyped
<1>2. Holds(x) /\ ops' \in [P!Processes -> Seq(P!Op)] /\ DOMAIN copy' = P!Processes
      /\ phase' \in [P!Processes -> {"reads", "changes", "writes"}]
      /\ jobs' = jobs /\ pCrashes' = pCrashes /\ pUp' = pUp
  <2>1. CASE P!Reads(x)
    <3>1. ops' = ops /\ copy'[x] = (IF P!File(x) = "env" THEN P!ReadEnv ELSE P!ReadRegistry)
          /\ ops[x] # <<>> /\ P!File(x)' = P!File(x)
      BY <2>1 DEF P!Reads, P!OpsTyped, P!File, P!First
    <3>2. Holds(x)
      BY <3>1, ReadsTyped, RegistryCounts
    <3>3. QED
      BY <2>1, <3>2 DEF P!Reads, P!OpsTyped, P!TypeOK
  <2>2. CASE P!Truncates(x)
    <3>1. ops' = ops /\ copy' = copy /\ phase[x] = "changes" /\ P!File(x)' = P!File(x)
      BY <2>2 DEF P!Truncates, P!File, P!First
    <3>2. Holds(x)
      BY <3>1 DEF P!OpsTyped
    <3>3. QED
      BY <2>2, <3>1, <3>2 DEF P!Truncates, P!OpsTyped, P!TypeOK
  <2>3. CASE P!WritesEntry(x) \/ P!WritesMark(x) \/ P!SkipsMark(x) \/ P!WritesEnv(x)
    <3>1. P!Ends(x) /\ phase[x] # "reads"
      BY <2>3 DEF P!WritesEntry, P!WritesMark, P!SkipsMark, P!WritesEnv, P!Writes
    <3>2. QED
      BY <3>1, EndsTyped
  <2>4. QED
    BY <2>1, <2>2, <2>3
<1>3. /\ registry' \subseteq P!Entry /\ IsFiniteSet(registry')
      /\ env' \in P!Env /\ pTorn' \subseteq {"registry", "env"}
      /\ runtime' \in P!Entry /\ pListed' \subseteq Paths /\ chosen' \in Nat
      /\ envBy' \in P!Processes /\ raced' \in BOOLEAN
  <2> USE RegistryCounts
  <2>1. CASE P!Reads(x)
    BY <2>1 DEF P!Reads, P!TypeOK, P!OpsTyped
  <2>2. CASE P!Truncates(x)
    <3>1. P!File(x) \in {"registry", "env"}
      BY DEF P!File
    <3>2. raced' \in BOOLEAN
      BY <2>2, Zenon DEF P!Truncates, P!TypeOK
    <3>3. QED
      BY <2>2, <3>1, <3>2 DEF P!Truncates, P!TypeOK, P!OpsTyped
  <2>3. CASE P!WritesEntry(x)
    <3>1. registry' \subseteq P!Entry /\ IsFiniteSet(registry')
      BY <2>3, EntryFiles
    <3>2. P!First(x).path \in Paths /\ pTorn' = pTorn \ {"registry"}
          /\ raced' = (raced \/ "registry" \notin pTorn)
      BY <2>3, EntryWritten
    <3>3. raced' \in BOOLEAN
      BY <3>2, Zenon
    <3>4. QED
      BY <2>3, <3>1, <3>2, <3>3 DEF P!WritesEntry, P!TypeOK
  <2>4. CASE P!WritesMark(x)
    <3>1. phase[x] # "reads" /\ P!First(x).do # "env"
      BY <2>4 DEF P!WritesMark, P!Writes
    <3>2. copy[x] \subseteq P!Entry /\ IsFiniteSet(copy[x])
      BY <3>1, FirstTyped
    <3>3. raced' \in BOOLEAN
      BY <2>4, Zenon DEF P!WritesMark, P!Writes
    <3>4. QED
      BY <2>4, <3>2, <3>3 DEF P!WritesMark, P!Writes, P!TypeOK
  <2>5. CASE P!SkipsMark(x)
    BY <2>5 DEF P!SkipsMark, P!TypeOK, P!OpsTyped
  <2>6. CASE P!WritesEnv(x)
    <3>1. raced' \in BOOLEAN
      BY <2>6, Zenon DEF P!WritesEnv, P!Writes
    <3>2. env' \in P!Env /\ chosen' \in Nat /\ pTorn' = pTorn \ {"env"} /\ runtime' \in P!Entry
      BY <2>6, EnvWritten DEF P!TypeOK
    <3>3. QED
      BY <2>6, <3>1, <3>2 DEF P!WritesEnv, P!TypeOK, P!OpsTyped
  <2>7. QED
    BY <2>1, <2>2, <2>3, <2>4, <2>5, <2>6
<1> HIDE DEF Holds
<1>4. \A y \in P!Processes : Holds(y)
  BY <1>1, <1>2
<1>5. P!TypeOK'
  BY <1>2, <1>3 DEF P!TypeOK
<1>6. QED
  BY <1>2, <1>3, <1>4, <1>5, RegistryCounts DEF P!OpsTyped, Holds

LEMMA FilesTyped ==
  ASSUME P!TypeOK, P!OpsTyped, [P!Next]_pVars
  PROVE  P!TypeOK' /\ P!OpsTyped'
<1>1. CASE P!Select \/ P!Update \/ P!RegisterProject \/ P!Add \/ P!Use \/ P!Configure
  BY <1>1, CallsTyped
<1>2. ASSUME NEW x \in P!Processes,
             P!Reads(x) \/ P!Truncates(x) \/ P!WritesEntry(x) \/ P!WritesMark(x) \/ P!SkipsMark(x)
             \/ P!WritesEnv(x)
      PROVE  P!TypeOK' /\ P!OpsTyped'
  BY <1>2, StepsTyped
<1>3. CASE P!Crash
  <2>1. pCrashes' \in 0..MaxCrashes
    BY <1>3, ClientBounds DEF P!Crash, P!TypeOK
  <2>2. raced' \in BOOLEAN
    BY <1>3, Zenon DEF P!Crash
  <2>3. P!TypeOK'
    BY <1>3, <2>1, <2>2 DEF P!Crash, P!TypeOK
  <2>4. ops' \in [P!Processes -> Seq(P!Op)] /\ DOMAIN copy' = P!Processes
        /\ registry' = registry /\ phase'["server"] = "reads"
    BY <1>3 DEF P!Crash, P!OpsTyped, P!TypeOK, P!Processes
  <2>5. ASSUME NEW y \in P!Processes, phase'[y] # "reads"
        PROVE  /\ ops'[y] # <<>>
               /\ IF P!File(y)' = "env" THEN copy'[y] \in P!Env
                  ELSE copy'[y] \subseteq P!Entry /\ P!IsFiniteSet(copy'[y])
    <3>1. y # "server"
      BY <2>4, <2>5
    <3>2. phase'[y] = phase[y] /\ ops'[y] = ops[y] /\ copy'[y] = copy[y]
      BY <1>3, <3>1 DEF P!Crash, P!OpsTyped, P!TypeOK
    <3>3. P!File(y)' = P!File(y)
      BY <3>2 DEF P!File, P!First
    <3>4. QED
      BY <2>5, <3>2, <3>3 DEF P!OpsTyped
  <2>6. QED
    BY <2>3, <2>4, <2>5 DEF P!OpsTyped
<1>4. CASE P!Start
  <2>1. runtime' \in P!Entry
    <3>1. PICK i \in P!RuntimeIdOf(P!ReadEnv.path, P!ReadRegistry) :
            runtime' = [path |-> P!ReadEnv.path, id |-> i, lanes |-> P!ReadEnv.lanes]
      BY <1>4 DEF P!Start
    <3>2. P!ReadEnv.path \in Paths /\ P!ReadEnv.lanes \in 1..8 /\ P!ReadRegistry \subseteq P!Entry
      BY ReadsTyped
    <3>3. i \in P!Ids
      BY <3>2, RuntimeIdsTyped
    <3>4. QED
      BY <3>1, <3>2, <3>3 DEF P!Entry
  <2>2. envBy' \in P!Processes
    BY <1>4 DEF P!Start, P!Processes
  <2>3. QED
    BY <1>4, <2>1, <2>2 DEF P!Start, P!TypeOK, P!OpsTyped, P!File, P!First
<1>5. CASE UNCHANGED pVars
  BY <1>5 DEF pVars, P!TypeOK, P!OpsTyped, P!File, P!First
<1>6. QED
  BY <1>1, <1>2, <1>3, <1>4, <1>5 DEF P!Next

(* What is in the files, while no change is made to a stale copy. *)

FilesSound == P!OneWriter /\ P!IdsHold /\ P!IdsAreKnown /\ P!FilesHold

\* What a call is going to save goes with the entries.
LEMMA BeginsSound ==
  ASSUME P!TypeOK, P!OpsTyped, FilesSound, NEW x \in P!Processes, NEW plan \in Seq(P!Op), NEW i,
         P!Begins(x, plan, i),
         \A k \in DOMAIN plan :
           plan[k].do = "upsert" /\ plan[k].id # None => P!IdOf(plan[k].path, plan[k].id)
  PROVE  FilesSound'
<1>1. ops[x] = <<>> /\ ops' = [ops EXCEPT ![x] = plan] /\ DOMAIN ops = P!Processes
      /\ UNCHANGED <<registry, env, pTorn, runtime, pUp, phase, copy, pListed, chosen, envBy>>
  BY DEF P!Begins, P!OpsTyped
<1>2. phase[x] = "reads"
  BY <1>1 DEF P!OpsTyped
<1>3. \A y \in P!Processes : y # x => P!File(y)' = P!File(y)
  BY <1>1 DEF P!File, P!First
<1>4. P!OneWriter'
  BY <1>1, <1>2, <1>3 DEF P!OneWriter, FilesSound
<1>5. P!IdsHold' /\ P!FilesHold'
  BY <1>1 DEF P!IdsHold, P!FilesHold, P!Alone, FilesSound
<1>6. P!IdsAreKnown'
  <2>1. P!IdOf(runtime.path, runtime.id)'
    BY <1>1 DEF P!IdOf, P!IdsAreKnown, FilesSound
  <2>2. ASSUME NEW y \in P!Processes, NEW k \in DOMAIN ops'[y],
               ops'[y][k].do = "upsert", ops'[y][k].id # None
        PROVE  P!IdOf(ops[y][k].path, ops[y][k].id)'
    <3>1. CASE y = x
      BY <1>1, <2>2, <3>1 DEF P!IdOf
    <3>2. CASE y # x
      BY <1>1, <2>2, <3>2 DEF P!IdOf, P!IdsAreKnown, FilesSound
    <3>3. QED
      BY <3>1, <3>2
  <2>3. QED
    BY <2>1, <2>2 DEF P!IdsAreKnown
<1>7. QED
  BY <1>4, <1>5, <1>6 DEF FilesSound

LEMMA CallsSound ==
  ASSUME P!TypeOK, P!OpsTyped, FilesSound,
         P!Select \/ P!Update \/ P!RegisterProject \/ P!Add \/ P!Use \/ P!Configure
  PROVE  FilesSound'
<1> DEFINE Known(op) == op.do = "upsert" /\ op.id # None => P!IdOf(op.path, op.id)
<1> USE OpsOfFiles
<1>0. "server" \in P!Processes /\ "cli" \in P!Processes
  BY DEF P!Processes
<1>1. /\ \A op1, op2 \in P!Op : <<op1, op2>> \in Seq(P!Op)
      /\ \A op1 \in P!Op : <<op1>> \in Seq(P!Op)
      /\ \A op1, op2, op3 \in P!Op : <<op1, op2, op3>> \in Seq(P!Op)
  OBVIOUS
<1>2. /\ \A op1, op2 \in P!Op : Known(op1) /\ Known(op2) =>
            \A k \in DOMAIN <<op1, op2>> : Known(<<op1, op2>>[k])
      /\ \A op1 \in P!Op : Known(op1) => \A k \in DOMAIN <<op1>> : Known(<<op1>>[k])
      /\ \A op1, op2, op3 \in P!Op : Known(op1) /\ Known(op2) /\ Known(op3) =>
            \A k \in DOMAIN <<op1, op2, op3>> : Known(<<op1, op2, op3>>[k])
  <2> HIDE DEF Known
  <2> QED
    OBVIOUS
<1>3. /\ \A e \in P!Available(P!ReadRegistry) :
            e.path \in Paths /\ e.lanes \in 1..8 /\ e.id \in P!Ids \cup {None}
      /\ \A e \in P!ReadRegistry : e.path \in Paths /\ e.lanes \in 1..8
  BY ReadsTyped DEF P!Entry
<1>4. jobs + 1 \in Nat \cup {None} /\ None \in Nat \cup {None} /\ None \in P!Ids \cup {None}
  BY DEF P!TypeOK
<1>5. /\ Known(P!Mark)
      /\ \A p \in Paths, n \in 1..8, i \in Nat \cup {None} : Known(P!SetEnv(p, n, i))
      /\ \A p \in Paths, n \in 1..8 : Known(P!Upsert(p, None, n))
  BY DEF P!Mark, P!SetEnv, P!Upsert
<1>6. \A e \in P!Available(P!ReadRegistry), n \in 1..8 : Known(P!Upsert(e.path, e.id, n))
  <2>1. \A e \in P!Available(P!ReadRegistry) : P!IdOf(e.path, e.id)
    <3>1. \A e \in registry : P!IdOf(e.path, e.id)
      BY DEF P!IdsHold, P!IdOf, FilesSound
    <3>2. P!IdOf(runtime.path, runtime.id)
      BY DEF P!IdsAreKnown, FilesSound
    <3>3. P!Available(P!ReadRegistry) \subseteq registry \cup {runtime}
      BY DEF P!Available, P!ReadRegistry
    <3>4. QED
      BY <3>1, <3>2, <3>3
  <2>2. QED
    BY <2>1 DEF P!Upsert
<1>7. ASSUME NEW x \in P!Processes, NEW plan \in Seq(P!Op), NEW i, P!Begins(x, plan, i),
             \A k \in DOMAIN plan : Known(plan[k])
      PROVE  FilesSound'
  BY <1>7, BeginsSound
<1> HIDE DEF Known
<1>8. CASE P!Select
  <2>1. PICK t \in P!Available(P!ReadRegistry) :
          P!Begins("server", <<P!SetEnv(t.path, t.lanes, None), P!Mark>>, t.id)
    BY <1>8 DEF P!Select
  <2>2. QED
    BY <1>0, <1>1, <1>2, <1>3, <1>4, <1>5, <1>7, <2>1
<1>9. CASE P!Update
  <2>1. PICK t \in P!Available(P!ReadRegistry), n \in LaneInputs :
          \/ P!Begins("server", <<P!Upsert(t.path, t.id, P!Sanitize(n)),
                                  P!SetEnv(t.path, P!Sanitize(n), None), P!Mark>>, None)
          \/ P!Begins("server", <<P!Upsert(t.path, t.id, P!Sanitize(n))>>, None)
    BY <1>9 DEF P!Update
  <2>2. P!Sanitize(n) \in 1..8
    BY LanesAreSane
  <2>3. /\ P!Upsert(t.path, t.id, P!Sanitize(n)) \in P!Op
        /\ P!SetEnv(t.path, P!Sanitize(n), None) \in P!Op /\ P!Mark \in P!Op
        /\ Known(P!Upsert(t.path, t.id, P!Sanitize(n)))
        /\ Known(P!SetEnv(t.path, P!Sanitize(n), None)) /\ Known(P!Mark)
    BY <1>3, <1>4, <1>5, <1>6, <2>2
  <2>4. QED
    BY <1>0, <1>1, <1>2, <1>7, <2>1, <2>3
<1>10. CASE P!RegisterProject
  <2>1. PICK p \in Paths, n \in LaneInputs :
          \/ P!Begins("server", <<P!Upsert(p, None, P!Sanitize(n)),
                                  P!SetEnv(p, P!Sanitize(n), None), P!Mark>>, None)
          \/ P!Begins("server", <<P!Upsert(p, None, P!Sanitize(n))>>, None)
    BY <1>10 DEF P!RegisterProject
  <2>2. P!Sanitize(n) \in 1..8
    BY LanesAreSane
  <2>3. QED
    BY <1>0, <1>1, <1>2, <1>4, <1>5, <1>7, <2>1, <2>2
<1>11. CASE P!Add
  <2>1. PICK p \in Paths, n \in LaneInputs \cap 1..8 :
          \/ P!Begins("cli", <<P!Upsert(p, None, n), P!SetEnv(p, n, None), P!Mark>>, None)
          \/ P!Begins("cli", <<P!Upsert(p, None, n)>>, None)
    BY <1>11 DEF P!Add
  <2>2. QED
    BY <1>0, <1>1, <1>2, <1>4, <1>5, <1>7, <2>1
<1>12. CASE P!Use
  <2>1. PICK e \in P!ReadRegistry :
          P!Begins("cli", <<P!SetEnv(e.path, e.lanes, None), P!Mark>>, e.id)
    BY <1>12 DEF P!Use
  <2>2. QED
    BY <1>0, <1>1, <1>2, <1>3, <1>4, <1>5, <1>7, <2>1
<1>13. CASE P!Configure
  <2>1. CASE \E p \in Paths, n \in LaneInputs \cap 1..8 :
               \/ P!Begins("cli", <<P!Upsert(p, None, n), P!SetEnv(p, n, jobs + 1), P!Mark>>, None)
               \/ P!Begins("cli", <<P!SetEnv(p, n, jobs + 1)>>, None)
    BY <1>0, <1>1, <1>2, <1>4, <1>5, <1>7, <2>1
  <2>2. CASE \E e \in P!ReadRegistry :
               P!Begins("cli", <<P!SetEnv(e.path, e.lanes, jobs + 1), P!Mark>>, e.id)
    BY <1>0, <1>1, <1>2, <1>3, <1>4, <1>5, <1>7, <2>2
  <2>3. QED
    BY <1>13, <2>1, <2>2 DEF P!Configure
<1>14. QED
  BY <1>8, <1>9, <1>10, <1>11, <1>12, <1>13

\* A process that writes holds what the file held, and is alone in writing it.
LEMMA WriterHolds ==
  ASSUME P!TypeOK, P!OpsTyped, FilesSound, NEW x \in P!Processes, phase[x] = "writes"
  PROVE  /\ P!File(x) \in pTorn /\ P!First(x) \in P!Op
         /\ P!File(x) = "env" => copy[x] = env
         /\ P!File(x) # "env" => P!File(x) = "registry" /\ copy[x] = registry
         /\ \A y \in P!Processes : phase[y] = "writes" /\ P!File(y) = P!File(x) => y = x
BY FirstTyped DEF P!OneWriter, FilesSound, P!File

\* So what it writes is no concern of the other writer.
LEMMA WritersStay ==
  ASSUME P!TypeOK, P!OpsTyped, FilesSound, NEW x \in P!Processes,
         P!WritesEntry(x) \/ P!WritesMark(x) \/ P!WritesEnv(x)
  PROVE  P!OneWriter'
<1>1. phase[x] = "writes" /\ P!Ends(x) /\ pTorn' = pTorn \ {P!File(x)}
  BY DEF P!WritesEntry, P!WritesMark, P!WritesEnv, P!Writes
<1>2. phase'[x] = "reads"
  BY <1>1, EndsTyped
<1>3. (P!File(x) = "env" => registry' = registry) /\ (P!File(x) # "env" => env' = env)
  BY DEF P!WritesEntry, P!WritesMark, P!WritesEnv, P!Writes, P!File
<1>4. ASSUME NEW y \in P!Processes, phase'[y] = "writes"
      PROVE  /\ phase[y] = "writes" /\ P!File(y)' = P!File(y)
             /\ P!File(y)' \in pTorn' /\ copy'[y] = IF P!File(y)' = "env" THEN env' ELSE registry'
  <2>1. y # x
    BY <1>2, <1>4
  <2>2. phase'[y] = phase[y] /\ copy'[y] = copy[y] /\ P!File(y)' = P!File(y)
    BY <2>1, OthersStay
  <2>3. P!File(y) # P!File(x)
    BY <1>1, <1>4, <2>1, <2>2, WriterHolds
  <2>4. P!File(y) \in pTorn /\ (P!File(y) = "env" => copy[y] = env)
        /\ (P!File(y) # "env" => P!File(y) = "registry" /\ copy[y] = registry)
    BY <1>4, <2>2, WriterHolds
  <2>5. P!File(x) \in {"registry", "env"}
    BY DEF P!File
  <2>6. QED
    BY <1>1, <1>3, <1>4, <2>2, <2>3, <2>4, <2>5
<1>5. ASSUME NEW y \in P!Processes, NEW z \in P!Processes, phase'[y] = "writes",
             phase'[z] = "writes", P!File(y)' = P!File(z)'
      PROVE  y = z
  BY <1>4, <1>5 DEF P!OneWriter, FilesSound
<1>6. QED
  BY <1>4, <1>5 DEF P!OneWriter

\* What a process has still to do is what it had, or less.
LEMMA OpsShrink ==
  ASSUME P!TypeOK, P!OpsTyped, NEW x \in P!Processes, phase[x] # "reads", P!Ends(x),
         NEW y \in P!Processes, NEW k \in DOMAIN ops'[y]
  PROVE  \E j \in DOMAIN ops[y] : ops'[y][k] = ops[y][j]
<1>1. ops[x] \in Seq(P!Op) /\ ops[x] # <<>> /\ DOMAIN ops = P!Processes
      /\ ops' = [ops EXCEPT ![x] = Tail(@)]
  BY FirstTyped DEF P!Ends, P!OpsTyped
<1>2. CASE y # x
  BY <1>1, <1>2
<1>3. CASE y = x
  <2>1. ops'[y] = Tail(ops[x])
    BY <1>1, <1>3
  <2>2. k \in 1..(Len(ops[x]) - 1) /\ Tail(ops[x])[k] = ops[x][k + 1]
        /\ k + 1 \in DOMAIN ops[x]
    BY <1>1, <2>1
  <2>3. QED
    BY <1>3, <2>1, <2>2
<1>4. QED
  BY <1>2, <1>3

\* An entry with a number keeps its number and its path.
LEMMA NumbersStay ==
  ASSUME P!TypeOK, P!OpsTyped, FilesSound, NEW x \in P!Processes, P!WritesEntry(x)
  PROVE  \A e \in registry : e.id \in Nat =>
           \E f \in registry' : f.id = e.id /\ f.path = e.path
<1>1. phase[x] = "writes" /\ P!File(x) = "registry" /\ copy[x] = registry
  BY EntryWritten, WriterHolds
<1>2. PICK new \in P!Entry :
        /\ new.path = P!First(x).path
        /\ \/ registry' = registry \cup {new}
           \/ \E e \in registry :
                /\ registry' = (registry \ {e}) \cup {new} /\ new.id = e.id
                /\ e.path = P!First(x).path \/ e.id = P!First(x).id
  BY <1>1, EntryWritten
<1>3. CASE registry' = registry \cup {new}
  BY <1>3
<1>4. ASSUME NEW e \in registry, registry' = (registry \ {e}) \cup {new}, new.id = e.id,
             e.path = P!First(x).path \/ e.id = P!First(x).id, e.id \in Nat
      PROVE  e.path = new.path
  <2>1. CASE e.path = P!First(x).path
    BY <1>2, <2>1
  <2>2. CASE e.id = P!First(x).id
    <3>1. ops[x] \in Seq(P!Op) /\ ops[x] # <<>> /\ P!First(x) = ops[x][1] /\ 1 \in DOMAIN ops[x]
      BY <1>1, FirstTyped DEF P!First
    <3>2. P!First(x).do = "upsert" /\ P!First(x).id # None
      BY <1>4, <2>2, EntryWritten, IdsDiffer
    <3>3. P!IdOf(P!First(x).path, P!First(x).id)
      BY <3>1, <3>2 DEF P!IdsAreKnown, FilesSound
    <3>4. P!First(x).path \in Paths
      BY EntryWritten
    <3>5. PICK f \in registry : f.path = P!First(x).path /\ f.id = e.id
      BY <1>4, <2>2, <3>3, <3>4, IdsDiffer DEF P!IdOf
    <3>6. f = e
      BY <1>4, <3>5 DEF P!IdsHold, FilesSound
    <3>7. QED
      BY <1>2, <3>5, <3>6
  <2>3. QED
    BY <1>4, <2>1, <2>2
<1>5. QED
  BY <1>2, <1>3, <1>4

\* The entry an upsert writes has a number of its own, the number of the entry it replaces, which
\* is of the same path, or the runtime id of its path.
LEMMA NewEntry ==
  ASSUME P!TypeOK, P!OpsTyped, FilesSound, NEW x \in P!Processes, P!WritesEntry(x)
  PROVE  \E new \in P!Entry :
           /\ new.path = P!First(x).path
           /\ new.id \in Nat \/ new.id = RuntimeId[new.path]
           /\ \/ /\ registry' = registry \cup {new}
                 /\ \A e \in registry : e.path # new.path /\ e.id # new.id
              \/ \E e \in registry :
                   /\ registry' = (registry \ {e}) \cup {new} /\ new.id = e.id
                   /\ \/ e.path = new.path
                      \/ e.id \notin Nat /\ RuntimeId[e.path] = RuntimeId[new.path]
<1>1. /\ phase[x] = "writes" /\ P!File(x) = "registry" /\ copy[x] = registry
      /\ registry \subseteq P!Entry /\ IsFiniteSet(registry)
  BY EntryWritten, WriterHolds
<1>2. PICK new \in P!Entry :
        /\ new.path = P!First(x).path
        /\ \/ /\ registry' = registry \cup {new}
              /\ \A e \in registry : e.path # P!First(x).path /\ e.id # P!First(x).id
              /\ IF P!First(x).id = None THEN new.id = P!NewId(registry)
                                         ELSE new.id = P!First(x).id
           \/ \E e \in registry :
                /\ registry' = (registry \ {e}) \cup {new} /\ new.id = e.id
                /\ e.path = P!First(x).path \/ e.id = P!First(x).id
  BY <1>1, EntryWritten
<1>3. P!First(x).id # None => P!IdOf(P!First(x).path, P!First(x).id)
  <2>1. ops[x] \in Seq(P!Op) /\ ops[x] # <<>> /\ P!First(x) = ops[x][1] /\ 1 \in DOMAIN ops[x]
    BY <1>1, FirstTyped DEF P!First
  <2>2. P!First(x).do = "upsert"
    BY EntryWritten
  <2>3. QED
    BY <2>1, <2>2 DEF P!IdsAreKnown, FilesSound
<1>4. \A e \in registry : e.id \in Nat \/ e.id = RuntimeId[e.path]
  BY DEF P!IdsHold, FilesSound
<1>5. \A e \in registry : e.path \in Paths
  BY <1>1 DEF P!Entry
<1>6. new.path \in Paths
  BY DEF P!Entry
<1>7. CASE /\ registry' = registry \cup {new}
           /\ \A e \in registry : e.path # P!First(x).path /\ e.id # P!First(x).id
           /\ IF P!First(x).id = None THEN new.id = P!NewId(registry)
                                      ELSE new.id = P!First(x).id
  <2>1. CASE P!First(x).id = None
    <3>1. P!NewId(registry) \in Nat /\ P!NewId(registry) \notin {e.id : e \in registry}
      BY <1>1, NewIdIsNew
    <3>2. QED
      BY <1>2, <1>7, <2>1, <3>1
  <2>2. CASE P!First(x).id # None
    <3>1. new.id = RuntimeId[new.path]
      BY <1>2, <1>3, <1>7, <2>2 DEF P!IdOf
    <3>2. QED
      BY <1>2, <1>7, <2>2, <3>1
  <2>3. QED
    BY <2>1, <2>2
<1>8. ASSUME NEW e \in registry, registry' = (registry \ {e}) \cup {new}, new.id = e.id,
             e.path = P!First(x).path \/ e.id = P!First(x).id
      PROVE  /\ new.id \in Nat \/ new.id = RuntimeId[new.path]
             /\ \/ e.path = new.path
                \/ e.id \notin Nat /\ RuntimeId[e.path] = RuntimeId[new.path]
  <2>1. CASE e.path = P!First(x).path
    BY <1>2, <1>4, <1>8, <2>1
  <2>2. CASE e.id = P!First(x).id /\ e.path # P!First(x).path
    <3>1. e.id # None
      BY <1>4, <1>5, IdsDiffer
    <3>2. e.id \notin Nat
      <4>1. SUFFICES ASSUME e.id \in Nat PROVE FALSE
        OBVIOUS
      <4>2. PICK f \in registry : f.path = P!First(x).path /\ f.id = e.id
        BY <1>2, <1>3, <1>6, <2>2, <3>1, <4>1, IdsDiffer DEF P!IdOf
      <4>3. f = e
        BY <4>1, <4>2 DEF P!IdsHold, FilesSound
      <4>4. QED
        BY <2>2, <4>2, <4>3
    <3>3. e.id = RuntimeId[e.path] /\ e.id = RuntimeId[new.path]
      BY <1>2, <1>3, <1>4, <2>2, <3>1, <3>2 DEF P!IdOf
    <3>4. QED
      BY <1>8, <3>2, <3>3
  <2>3. QED
    BY <1>8, <2>1, <2>2
<1>9. QED
  BY <1>2, <1>7, <1>8

LEMMA EntryKeepsIds ==
  ASSUME P!TypeOK, P!OpsTyped, FilesSound, NEW x \in P!Processes, P!WritesEntry(x)
  PROVE  P!IdsHold'
<1>1. PICK new \in P!Entry :
           /\ new.path = P!First(x).path
           /\ new.id \in Nat \/ new.id = RuntimeId[new.path]
           /\ \/ /\ registry' = registry \cup {new}
                 /\ \A e \in registry : e.path # new.path /\ e.id # new.id
              \/ \E e \in registry :
                   /\ registry' = (registry \ {e}) \cup {new} /\ new.id = e.id
                   /\ \/ e.path = new.path
                      \/ e.id \notin Nat /\ RuntimeId[e.path] = RuntimeId[new.path]
  BY NewEntry
<1>2. /\ \A e \in registry : e.id \in Nat \/ e.id = RuntimeId[e.path]
      /\ \A e, f \in registry :
           e.id \in Nat /\ f.id \in Nat /\ (e.id = f.id \/ e.path = f.path) => e = f
  BY DEF P!IdsHold, FilesSound
<1>3. \A e \in registry' : e.id \in Nat \/ e.id = RuntimeId[e.path]
  BY <1>1, <1>2
<1>4. ASSUME NEW e \in registry', NEW f \in registry', e.id \in Nat, f.id \in Nat,
             e.id = f.id \/ e.path = f.path
      PROVE  e = f
  <2>1. CASE e # new /\ f # new
    BY <1>1, <1>2, <1>4, <2>1
  <2>2. ASSUME NEW g \in registry', g # new, g.id \in Nat, new.id \in Nat,
               g.id = new.id \/ g.path = new.path
        PROVE  FALSE
    <3>1. g \in registry
      BY <1>1, <2>2
    <3>2. PICK h \in registry :
            registry' = (registry \ {h}) \cup {new} /\ new.id = h.id
            /\ \/ h.path = new.path
               \/ h.id \notin Nat /\ RuntimeId[h.path] = RuntimeId[new.path]
      BY <1>1, <2>2, <3>1
    <3>3. h.path = new.path /\ h.id \in Nat
      BY <2>2, <3>2
    <3>4. g = h
      BY <1>2, <2>2, <3>1, <3>2, <3>3
    <3>5. QED
      BY <2>2, <3>2, <3>4
  <2>3. QED
    BY <1>4, <2>1, <2>2
<1>5. QED
  BY <1>3, <1>4 DEF P!IdsHold

LEMMA EntryKeepsEntries ==
  ASSUME P!TypeOK, P!OpsTyped, FilesSound, NEW x \in P!Processes, P!WritesEntry(x)
  PROVE  P!FilesHold'
<1>1. PICK new \in P!Entry :
           /\ new.path = P!First(x).path
           /\ new.id \in Nat \/ new.id = RuntimeId[new.path]
           /\ \/ /\ registry' = registry \cup {new}
                 /\ \A e \in registry : e.path # new.path /\ e.id # new.id
              \/ \E e \in registry :
                   /\ registry' = (registry \ {e}) \cup {new} /\ new.id = e.id
                   /\ \/ e.path = new.path
                      \/ e.id \notin Nat /\ RuntimeId[e.path] = RuntimeId[new.path]
  BY NewEntry
<1>2. /\ \A p \in pListed : P!Alone(p) => \E e \in registry : e.path = p
      /\ \A e, f \in registry : P!Alone(e.path) /\ (e.path = f.path \/ e.id = f.id) => e = f
  BY DEF P!FilesHold, FilesSound
<1>3. registry \subseteq P!Entry /\ \A e \in P!Entry : e.path \in Paths
  BY DEF P!TypeOK, P!Entry
<1>4. \A p, q \in Paths : RuntimeId[p] = RuntimeId[q] /\ p # q => ~ P!Alone(p) /\ ~ P!Alone(q)
  BY DEF P!Alone
<1>5. pListed' = pListed \cup {new.path}
  BY <1>1 DEF P!WritesEntry
<1>6. ASSUME NEW p \in pListed', P!Alone(p)
      PROVE  \E e \in registry' : e.path = p
  <2>1. CASE p = new.path
    BY <1>1, <2>1
  <2>2. CASE p # new.path
    <3>1. PICK e \in registry : e.path = p
      BY <1>2, <1>5, <1>6, <2>2
    <3>2. CASE e \in registry'
      BY <3>1, <3>2
    <3>3. CASE e \notin registry'
      <4>1. RuntimeId[e.path] = RuntimeId[new.path]
        BY <1>1, <2>2, <3>1, <3>3
      <4>2. QED
        BY <1>3, <1>4, <1>6, <2>2, <3>1, <4>1
    <3>4. QED
      BY <3>2, <3>3
  <2>3. QED
    BY <2>1, <2>2
<1>7. ASSUME NEW e \in registry', NEW f \in registry', P!Alone(e.path) \/ P!Alone(f.path), e # f
      PROVE  e.path # f.path /\ e.id # f.id
  <2>1. ASSUME NEW g \in registry, NEW h \in registry, P!Alone(g.path) \/ P!Alone(h.path), g # h
        PROVE  g.path # h.path /\ g.id # h.id
    BY <1>2, <2>1
  <2>2. ASSUME NEW g \in registry', g # new, P!Alone(g.path) \/ P!Alone(new.path)
        PROVE  g.path # new.path /\ g.id # new.id
    <3>1. g \in registry
      BY <1>1, <2>2
    <3>2. CASE \A d \in registry : d.path # new.path /\ d.id # new.id
      BY <3>1, <3>2
    <3>3. ASSUME NEW h \in registry, registry' = (registry \ {h}) \cup {new}, new.id = h.id,
                 h.path = new.path
          PROVE  g.path # new.path /\ g.id # new.id
      BY <2>1, <2>2, <3>1, <3>3
    <3>4. ASSUME NEW h \in registry, registry' = (registry \ {h}) \cup {new}, new.id = h.id,
                 h.path # new.path, h.id \notin Nat, RuntimeId[h.path] = RuntimeId[new.path]
          PROVE  g.path # new.path /\ g.id # new.id
      <4>1. ~ P!Alone(new.path) /\ ~ P!Alone(h.path)
        BY <1>3, <1>4, <3>4
      <4>2. P!Alone(g.path)
        BY <2>2, <4>1
      <4>3. QED
        BY <2>1, <2>2, <3>1, <3>4, <4>1, <4>2
    <3>5. QED
      BY <1>1, <3>2, <3>3, <3>4
  <2>3. CASE e # new /\ f # new
    BY <1>1, <1>7, <2>1, <2>3
  <2>4. QED
    BY <1>7, <2>2, <2>3
<1>8. UNCHANGED <<env, runtime, chosen, envBy, pUp>>
  BY EntryWritten DEF P!WritesEntry, P!Ends
<1>9. QED
  BY <1>6, <1>7, <1>8 DEF P!FilesHold, FilesSound, P!Alone

\* An id that went with a path goes with it still.
LEMMA IdsStayKnown ==
  ASSUME P!TypeOK, P!OpsTyped, FilesSound, NEW x \in P!Processes,
         P!WritesEntry(x) \/ registry' = registry, phase[x] # "reads", P!Ends(x),
         runtime' = runtime \/ runtime'.id = RuntimeId[runtime'.path]
           \/ \E e \in registry : e.path = runtime'.path /\ e.id = runtime'.id
  PROVE  P!IdsAreKnown'
<1>1. \A e \in registry : e.id \in Nat => \E f \in registry' : f.id = e.id /\ f.path = e.path
  BY NumbersStay
<1>2. \A p, i : P!IdOf(p, i) =>
        i = RuntimeId[p] \/ \E e \in registry' : e.path = p /\ e.id = i /\ i \in Nat
  BY <1>1 DEF P!IdOf
<1>3. \A e \in registry : P!IdOf(e.path, e.id)
  BY DEF P!IdsHold, P!IdOf, FilesSound
<1>4. LET p == runtime'.path
          i == runtime'.id
      IN  i = RuntimeId[p] \/ \E e \in registry' : e.path = p /\ e.id = i /\ i \in Nat
  <2>1. CASE runtime' = runtime
    <3>1. P!IdOf(runtime.path, runtime.id)
      BY DEF P!IdsAreKnown, FilesSound
    <3>2. QED
      BY <1>2, <2>1, <3>1
  <2>2. CASE runtime'.id = RuntimeId[runtime'.path]
    BY <2>2
  <2>3. CASE \E e \in registry : e.path = runtime'.path /\ e.id = runtime'.id
    BY <1>2, <1>3, <2>3
  <2>4. QED
    BY <2>1, <2>2, <2>3
<1>5. ASSUME NEW y \in P!Processes, NEW k \in DOMAIN ops'[y],
             ops'[y][k].do = "upsert", ops'[y][k].id # None
      PROVE  LET p == ops'[y][k].path
                 i == ops'[y][k].id
             IN  i = RuntimeId[p] \/ \E e \in registry' : e.path = p /\ e.id = i /\ i \in Nat
  <2>1. PICK j \in DOMAIN ops[y] : ops'[y][k] = ops[y][j]
    BY OpsShrink
  <2>2. P!IdOf(ops[y][j].path, ops[y][j].id)
    BY <1>5, <2>1 DEF P!IdsAreKnown, FilesSound
  <2>3. QED
    BY <1>2, <2>1, <2>2
<1>6. QED
  BY <1>4, <1>5 DEF P!IdsAreKnown, P!IdOf

LEMMA StepsSound ==
  ASSUME P!TypeOK, P!OpsTyped, FilesSound, ~raced', NEW x \in P!Processes,
         P!Reads(x) \/ P!Truncates(x) \/ P!WritesEntry(x) \/ P!WritesMark(x) \/ P!SkipsMark(x)
         \/ P!WritesEnv(x)
  PROVE  FilesSound'
<1>1. \A y \in P!Processes : y # x =>
        phase'[y] = phase[y] /\ copy'[y] = copy[y] /\ P!File(y)' = P!File(y)
  BY OthersStay
<1>2. P!File(x) \in {"registry", "env"} /\ DOMAIN phase = P!Processes /\ DOMAIN ops = P!Processes
  BY DEF P!File, P!TypeOK, P!OpsTyped
<1>3. CASE P!Reads(x)
  <2>1. UNCHANGED <<registry, env, pTorn, runtime, pUp, ops, pListed, chosen, envBy>>
        /\ phase'[x] = "changes"
    BY <1>2, <1>3 DEF P!Reads
  <2>2. P!OneWriter'
    BY <1>1, <2>1 DEF P!OneWriter, FilesSound
  <2>3. P!IdsHold' /\ P!IdsAreKnown' /\ P!FilesHold'
    BY <2>1 DEF P!IdsHold, P!IdsAreKnown, P!IdOf, P!FilesHold, P!Alone, FilesSound
  <2>4. QED
    BY <2>2, <2>3 DEF FilesSound
<1>4. CASE P!Truncates(x)
  <2>1. /\ UNCHANGED <<registry, env, runtime, pUp, ops, copy, pListed, chosen, envBy>>
        /\ pTorn' = pTorn \cup {P!File(x)} /\ P!File(x) \notin pTorn
        /\ copy[x] = IF P!File(x) = "env" THEN env ELSE registry
    BY <1>4 DEF P!Truncates
  <2>2. P!File(x)' = P!File(x)
    BY <2>1 DEF P!File, P!First
  <2>3. \A y \in P!Processes : phase[y] = "writes" => P!File(y) # P!File(x)
    BY <2>1 DEF P!OneWriter, FilesSound
  <2>4. P!OneWriter'
    <3>1. ASSUME NEW y \in P!Processes, phase'[y] = "writes"
          PROVE  P!File(y)' \in pTorn'
                 /\ copy'[y] = IF P!File(y)' = "env" THEN env' ELSE registry'
      <4>1. CASE y = x
        BY <2>1, <2>2, <4>1
      <4>2. CASE y # x
        <5>1. phase[y] = "writes" /\ P!File(y)' = P!File(y)
          BY <1>1, <3>1, <4>2
        <5>2. P!File(y) \in pTorn /\ copy[y] = IF P!File(y) = "env" THEN env ELSE registry
          BY <5>1 DEF P!OneWriter, FilesSound
        <5>3. QED
          BY <2>1, <5>1, <5>2
      <4>3. QED
        BY <4>1, <4>2
    <3>2. ASSUME NEW y \in P!Processes, NEW z \in P!Processes, phase'[y] = "writes",
                 phase'[z] = "writes", P!File(y)' = P!File(z)'
          PROVE  y = z
      <4>1. CASE y # x /\ z # x
        BY <1>1, <3>2, <4>1 DEF P!OneWriter, FilesSound
      <4>2. CASE y = x /\ z # x
        BY <1>1, <2>2, <2>3, <3>2, <4>2
      <4>3. CASE y # x /\ z = x
        BY <1>1, <2>2, <2>3, <3>2, <4>3
      <4>4. QED
        BY <4>1, <4>2, <4>3
    <3>3. QED
      BY <3>1, <3>2 DEF P!OneWriter
  <2>5. P!IdsHold' /\ P!IdsAreKnown' /\ P!FilesHold'
    BY <2>1 DEF P!IdsHold, P!IdsAreKnown, P!IdOf, P!FilesHold, P!Alone, FilesSound
  <2>6. QED
    BY <2>4, <2>5 DEF FilesSound
<1>5. CASE P!WritesEntry(x)
  <2>1. phase[x] # "reads" /\ P!Ends(x) /\ runtime' = runtime
    BY <1>5, EntryWritten DEF P!WritesEntry
  <2>2. P!OneWriter' /\ P!IdsHold' /\ P!FilesHold'
    BY <1>5, WritersStay, EntryKeepsIds, EntryKeepsEntries
  <2>3. P!IdsAreKnown'
    BY <1>5, <2>1, IdsStayKnown
  <2>4. QED
    BY <2>2, <2>3 DEF FilesSound
<1>6. CASE P!WritesMark(x)
  <2>1. phase[x] = "writes" /\ P!Ends(x) /\ P!First(x).do = "mark"
    BY <1>6 DEF P!WritesMark, P!Writes
  <2>2. P!File(x) = "registry" /\ registry' = registry
    BY <1>6, <2>1, WriterHolds DEF P!WritesMark, P!File
  <2>3. UNCHANGED <<env, runtime, pListed, chosen, envBy, pUp>>
    BY <1>6, <2>1 DEF P!WritesMark, P!Ends
  <2>4. P!OneWriter'
    BY <1>6, WritersStay
  <2>5. P!IdsAreKnown'
    BY <2>1, <2>2, <2>3, IdsStayKnown
  <2>6. P!IdsHold' /\ P!FilesHold'
    BY <2>2, <2>3 DEF P!IdsHold, P!FilesHold, P!Alone, FilesSound
  <2>7. QED
    BY <2>4, <2>5, <2>6 DEF FilesSound
<1>7. CASE P!SkipsMark(x)
  <2>1. phase[x] # "reads" /\ P!Ends(x)
        /\ UNCHANGED <<registry, env, pTorn, runtime, pListed, chosen, envBy, pUp>>
    BY <1>7 DEF P!SkipsMark, P!Ends
  <2>2. P!IdsAreKnown'
    BY <2>1, IdsStayKnown
  <2>3. P!IdsHold' /\ P!FilesHold'
    BY <2>1 DEF P!IdsHold, P!FilesHold, P!Alone, FilesSound
  <2>4. phase'[x] = "reads"
    BY <2>1, EndsTyped
  <2>5. P!OneWriter'
    BY <1>1, <2>1, <2>4 DEF P!OneWriter, FilesSound
  <2>6. QED
    BY <2>2, <2>3, <2>5 DEF FilesSound
<1>8. CASE P!WritesEnv(x)
  <2>1. /\ phase[x] = "writes" /\ P!File(x) = "env" /\ P!Ends(x) /\ registry' = registry
        /\ pListed' = pListed /\ pUp' = pUp /\ envBy' = x
    BY <1>8, EnvWritten DEF P!WritesEnv, P!Ends
  <2>2. copy[x] = env /\ env.settings = chosen
    BY <2>1, WriterHolds DEF P!FilesHold, FilesSound
  <2>3. /\ env'.settings = chosen'
        /\ IF x = "cli" THEN runtime' = runtime
           ELSE /\ runtime'.path = env'.path /\ runtime'.lanes = env'.lanes
                /\ \/ runtime'.id = RuntimeId[runtime'.path]
                   \/ \E e \in P!ReadRegistry : e.path = runtime'.path /\ e.id = runtime'.id
    BY <1>8, <2>2, EnvWritten
  <2>4. P!OneWriter'
    BY <1>8, WritersStay
  <2>5. P!IdsAreKnown'
    <3>1. P!ReadRegistry \subseteq registry
      BY DEF P!ReadRegistry
    <3>2. QED
      BY <2>1, <2>3, <3>1, IdsStayKnown
  <2>6. P!IdsHold'
    BY <2>1 DEF P!IdsHold, FilesSound
  <2>7. P!FilesHold'
    BY <2>1, <2>3 DEF P!FilesHold, P!Alone, FilesSound
  <2>8. QED
    BY <2>4, <2>5, <2>6, <2>7 DEF FilesSound
<1>9. QED
  BY <1>3, <1>4, <1>5, <1>6, <1>7, <1>8

LEMMA FilesStaySound ==
  ASSUME P!TypeOK, P!OpsTyped, ~raced => FilesSound, [P!Next]_pVars, ~raced'
  PROVE  FilesSound'
<1>1. ~raced
  BY Zenon DEF P!Next, P!Select, P!Update, P!RegisterProject, P!Add, P!Use, P!Configure, P!Begins,
       P!Reads, P!Truncates, P!WritesEntry, P!WritesMark, P!SkipsMark, P!WritesEnv, P!Writes,
       P!Crash, P!Start, pVars
<1>2. FilesSound
  BY <1>1
<1>3. CASE P!Select \/ P!Update \/ P!RegisterProject \/ P!Add \/ P!Use \/ P!Configure
  BY <1>2, <1>3, CallsSound
<1>4. ASSUME NEW x \in P!Processes,
             P!Reads(x) \/ P!Truncates(x) \/ P!WritesEntry(x) \/ P!WritesMark(x) \/ P!SkipsMark(x)
             \/ P!WritesEnv(x)
      PROVE  FilesSound'
  BY <1>2, <1>4, StepsSound
<1>5. CASE P!Crash
  <2>1. /\ UNCHANGED <<registry, env, pTorn, runtime, pListed, chosen, envBy>> /\ ~ pUp'
        /\ ops' = [ops EXCEPT !["server"] = <<>>] /\ phase["server"] # "writes"
        /\ phase' = [phase EXCEPT !["server"] = "reads"]
        /\ copy' = [copy EXCEPT !["server"] = None]
        /\ DOMAIN ops = P!Processes /\ DOMAIN phase = P!Processes /\ DOMAIN copy = P!Processes
    BY <1>5 DEF P!Crash, P!TypeOK, P!OpsTyped
  <2>2. \A y \in P!Processes : y # "server" =>
          phase'[y] = phase[y] /\ copy'[y] = copy[y] /\ ops'[y] = ops[y] /\ P!File(y)' = P!File(y)
    BY <2>1 DEF P!File, P!First
  <2>3. phase'["server"] # "writes" /\ ops'["server"] = <<>>
    BY <2>1 DEF P!Processes
  <2>4. P!OneWriter'
    BY <1>2, <2>1, <2>2, <2>3 DEF P!OneWriter, FilesSound
  <2>5. P!IdsAreKnown'
    BY <1>2, <2>1, <2>2, <2>3 DEF P!IdsAreKnown, P!IdOf, FilesSound
  <2>6. P!IdsHold' /\ P!FilesHold'
    BY <1>2, <2>1 DEF P!IdsHold, P!FilesHold, P!Alone, FilesSound
  <2>7. QED
    BY <2>4, <2>5, <2>6 DEF FilesSound
<1>6. CASE P!Start
  <2>1. UNCHANGED <<registry, env, pTorn, ops, phase, copy, pListed, chosen>>
        /\ envBy' = IF "env" \in pTorn THEN "cli" ELSE "server"
    BY <1>6 DEF P!Start
  <2>2. PICK i \in P!RuntimeIdOf(P!ReadEnv.path, P!ReadRegistry) :
          runtime' = [path |-> P!ReadEnv.path, id |-> i, lanes |-> P!ReadEnv.lanes]
    BY <1>6 DEF P!Start
  <2>3. i = RuntimeId[P!ReadEnv.path] \/ \E e \in registry : e.path = P!ReadEnv.path /\ e.id = i
    <3>1. P!ReadRegistry \subseteq registry
      BY DEF P!ReadRegistry
    <3>2. QED
      BY <3>1, ReadsTyped, RuntimeIdsTyped
  <2>4. P!OneWriter' /\ P!IdsHold'
    BY <1>2, <2>1 DEF P!OneWriter, P!IdsHold, P!File, P!First, FilesSound
  <2>5. P!IdsAreKnown'
    <3>1. P!IdOf(P!ReadEnv.path, i)
      BY <1>2, <2>3 DEF P!IdOf, P!IdsHold, FilesSound
    <3>2. P!IdOf(runtime.path, runtime.id)'
      BY <2>1, <2>2, <3>1 DEF P!IdOf
    <3>3. QED
      BY <1>2, <2>1, <3>2 DEF P!IdsAreKnown, P!IdOf, FilesSound
  <2>6. P!FilesHold'
    <3>1. envBy' = "server" => env.path = runtime'.path /\ env.lanes = runtime'.lanes
      BY <2>1, <2>2 DEF P!ReadEnv
    <3>2. QED
      BY <1>2, <2>1, <3>1 DEF P!FilesHold, P!Alone, FilesSound
  <2>7. QED
    BY <2>4, <2>5, <2>6 DEF FilesSound
<1>7. CASE UNCHANGED pVars
  BY <1>2, <1>7 DEF pVars, FilesSound, P!OneWriter, P!IdsHold, P!IdsAreKnown, P!IdOf, P!FilesHold,
       P!Alone, P!File, P!First
<1>8. QED
  BY <1>3, <1>4, <1>5, <1>6, <1>7 DEF P!Next

LEMMA FilesBegin ==
  ASSUME P!Init
  PROVE  P!FilesInvariant
<1>1. P!NoEnv \in P!Env
  BY FilesAreFew DEF P!NoEnv, P!Env, P!DefaultLanes
<1>2. runtime \in P!Entry /\ runtime.path = Home /\ runtime.id = RuntimeId[Home]
  BY FilesAreFew DEF P!Init, P!Entry, P!Ids, P!DefaultLanes
<1>3. 0 \in 0..MaxJobs /\ 0 \in 0..MaxCrashes
  BY ClientBounds
<1>4. P!TypeOK
  BY <1>1, <1>2, <1>3 DEF P!Init, P!TypeOK, P!Processes
<1>5. P!OpsTyped
  BY RegistryCounts, FS_EmptySet DEF P!Init, P!OpsTyped
<1>6. P!OneWriter /\ P!IdsHold
  BY DEF P!Init, P!OneWriter, P!IdsHold
<1>7. P!IdsAreKnown
  BY <1>2 DEF P!Init, P!IdsAreKnown, P!IdOf
<1>8. P!FilesHold
  BY DEF P!Init, P!FilesHold, P!NoEnv, P!DefaultLanes
<1>9. QED
  BY <1>4, <1>5, <1>6, <1>7, <1>8 DEF P!FilesInvariant

LEMMA FilesStay ==
  ASSUME P!FilesInvariant, [P!Next]_pVars
  PROVE  P!FilesInvariant'
<1>1. P!TypeOK /\ P!OpsTyped /\ (~raced => FilesSound)
  BY DEF P!FilesInvariant, FilesSound
<1>2. P!TypeOK' /\ P!OpsTyped'
  BY <1>1, FilesTyped
<1>3. ~raced' => FilesSound'
  BY <1>1, FilesStaySound
<1>4. QED
  BY <1>2, <1>3 DEF P!FilesInvariant, FilesSound

LEMMA FilesSuffice ==
  ASSUME P!FilesInvariant
  PROVE  P!ProjectsStay /\ P!RegistrySound /\ P!EnvIsKept
<1>1. CASE raced
  BY <1>1 DEF P!ProjectsStay, P!RegistrySound, P!EnvIsKept
<1>2. CASE ~raced
  <2>1. P!FilesHold
    BY <1>2 DEF P!FilesInvariant
  <2>2. P!ReadRegistry \subseteq registry
    BY DEF P!ReadRegistry
  <2>3. QED
    BY <2>1, <2>2 DEF P!FilesHold, P!ProjectsStay, P!RegistrySound, P!EnvIsKept
<1>3. QED
  BY <1>1, <1>2

-----------------------------------------------------------------------------
(* The hooks (scripts/install-maestro-hook.mjs).                           *)

HookTexts == {"shebang", "start", "notify", "end"} \cup Lines

LEMMA HooksCount ==
  ASSUME NEW s PROVE H!Cardinality(s) = Cardinality(s) /\ (H!IsFiniteSet(s) <=> IsFiniteSet(s))
BY DEF H!Cardinality, H!IsFiniteSet, Cardinality, IsFiniteSet

LEMMA HooksPick ==
  ASSUME NEW s, NEW S PROVE H!Picked(s, S) = Picked(s, S)
<1>1. \A i : H!Rank(S, i) = Rank(S, i)
  BY HooksCount DEF H!Rank, Rank
<1>2. \A k : H!Nth(S, k) = Nth(S, k)
  BY <1>1 DEF H!Nth, Nth
<1>3. QED
  BY <1>2, HooksCount DEF H!Picked, Picked

\* The user's lines of a hook.
LEMMA MineIsPicked ==
  ASSUME NEW s \in Seq(HookTexts)
  PROVE  /\ H!Users(s) \in SUBSET DOMAIN s /\ H!Mine(s) = Picked(s, H!Users(s))
         /\ H!Mine(s) \in Seq(Lines)
<1> DEFINE S == H!Users(s)
           n == Cardinality(S)
<1>1. S \in SUBSET DOMAIN s /\ H!Mine(s) = Picked(s, S)
  BY HooksPick DEF H!Users, H!Mine
<1>2. \A i \in S : s[i] \in Lines
  BY DEF H!Users
<1> HIDE DEF S
<1>3. /\ n \in Nat /\ Picked(s, S) \in Seq(HookTexts) /\ Len(Picked(s, S)) = n
      /\ \A k \in 1..n : Nth(S, k) \in S /\ Picked(s, S)[k] = s[Nth(S, k)]
  BY <1>1, PickedInOrder
<1>4. Picked(s, S) \in Seq(Lines)
  <2> DEFINE t == Picked(s, S)
  <2>1. t \in Seq(HookTexts) /\ Len(t) = n /\ \A k \in 1..n : t[k] \in Lines
    BY <1>2, <1>3
  <2> HIDE DEF t, n
  <2>2. QED
    BY <2>1 DEF t
<1>5. QED
  BY <1>1, <1>4 DEF S

LEMMA SameLines ==
  ASSUME NEW s \in Seq(HookTexts), NEW t \in Seq(HookTexts), NEW h,
         Carries(h, s, H!Users(s), t, H!Users(t))
  PROVE  H!Mine(t) = H!Mine(s)
<1>1. /\ H!Users(s) \in SUBSET DOMAIN s /\ H!Mine(s) = Picked(s, H!Users(s))
      /\ H!Users(t) \in SUBSET DOMAIN t /\ H!Mine(t) = Picked(t, H!Users(t))
  BY MineIsPicked
<1> DEFINE S == H!Users(s)
           U == H!Users(t)
<1>2. S \in SUBSET DOMAIN s /\ U \in SUBSET DOMAIN t /\ Carries(h, s, S, t, U)
  BY <1>1
<1> HIDE DEF S, U
<1>3. Picked(t, U) = Picked(s, S)
  BY <1>2, PickedSame
<1>4. QED
  BY <1>1, <1>3 DEF S, U

\* Where the installer's lines are in a hook, and which places they enclose.
NoneIn(s) == H!At(s, "start") = {} /\ H!At(s, "end") = {} /\ H!At(s, "notify") = {}
OpenIn(s, k, e) ==
  /\ H!At(s, "start") = {k} /\ H!At(s, "end") = {e} /\ k < e
  /\ H!At(s, "notify") \subseteq (k + 1)..(e - 1)
WholeIn(s, k) ==
  H!At(s, "start") = {k} /\ H!At(s, "end") = {k + 2} /\ H!At(s, "notify") = {k + 1}
Shaped(s) == NoneIn(s) \/ \E k, e \in DOMAIN s : OpenIn(s, k, e)

LEMMA NothingBetween ==
  ASSUME NEW s \in Seq(HookTexts), NoneIn(s)
  PROVE  \A i : i \in H!Users(s) <=> i \in DOMAIN s /\ s[i] \in Lines
<1>1. H!Between(s) = {}
  BY DEF NoneIn, H!Between
<1>2. QED
  BY <1>1 DEF H!Users

LEMMA BetweenMarkers ==
  ASSUME NEW s \in Seq(HookTexts), NEW k \in Nat, NEW e \in Nat,
         H!At(s, "start") = {k}, H!At(s, "end") = {e}
  PROVE  /\ H!Between(s) \in SUBSET DOMAIN s /\ H!Users(s) \in SUBSET DOMAIN s
         /\ \A i \in DOMAIN s : i \in H!Between(s) <=> k < i /\ i < e
         /\ \A i \in DOMAIN s : i \in H!Users(s) <=> s[i] \in Lines /\ ~(k < i /\ i < e)
<1>1. H!Between(s) \in SUBSET DOMAIN s /\ \A i \in DOMAIN s : i \in H!Between(s) <=> k < i /\ i < e
  BY DEF H!Between
<1>2. QED
  BY <1>1 DEF H!Users

LEMMA WholeIsOpen ==
  ASSUME NEW s \in Seq(HookTexts), NEW k \in DOMAIN s, WholeIn(s, k)
  PROVE  Shaped(s)
<1>1. k \in Nat /\ k + 2 \in DOMAIN s /\ k + 1 \in (k + 1)..((k + 2) - 1) /\ k < k + 2
  <2>1. k \in Nat /\ k + 2 \in H!At(s, "end")
    BY DEF WholeIn
  <2>2. QED
    BY <2>1 DEF H!At
<1>2. OpenIn(s, k, k + 2)
  BY <1>1 DEF WholeIn, OpenIn
<1>3. QED
  BY <1>1, <1>2 DEF Shaped

\* The first of some lines.
LEMMA FirstLine ==
  ASSUME NEW S \in SUBSET Nat, S # {}
  PROVE  H!First(S) \in S /\ \A j \in S : H!First(S) <= j
BY SmallestNumber DEF H!First

\* An installation leaves the block whole and keeps the user's lines outside it.
LEMMA BlockAppended ==
  ASSUME NEW s \in Seq(HookTexts)
  PROVE  LET t == s \o H!Block IN
         /\ t \in Seq(HookTexts) /\ Len(t) = Len(s) + 3 /\ Len(s) \in Nat
         /\ \A i \in 1..Len(s) : t[i] = s[i]
         /\ t[Len(s) + 1] = "start" /\ t[Len(s) + 2] = "notify" /\ t[Len(s) + 3] = "end"
BY DEF H!Block, HookTexts

LEMMA FirstPlaces ==
  ASSUME NEW Any, NEW s \in Seq(Any), NEW n \in Nat, n <= Len(s)
  PROVE  /\ SubSeq(s, 1, n) \in Seq(Any) /\ Len(SubSeq(s, 1, n)) = n
         /\ \A i \in 1..n : SubSeq(s, 1, n)[i] = s[i]
<1>1. Len(s) \in Nat /\ 1 \in Int /\ n \in Int /\ \A i \in 1..n : s[i] \in Any
  OBVIOUS
<1>2. /\ SubSeq(s, 1, n) \in Seq(Any) /\ Len(SubSeq(s, 1, n)) = IF 1 <= n THEN n - 1 + 1 ELSE 0
      /\ \A i \in 1..(n - 1 + 1) : SubSeq(s, 1, n)[i] = s[1 + i - 1]
  BY ONLY <1>1, SubSeqProperties
<1>3. (IF 1 <= n THEN n - 1 + 1 ELSE 0) = n /\ \A i \in 1..n : i \in 1..(n - 1 + 1) /\ 1 + i - 1 = i
  OBVIOUS
<1>4. QED
  BY <1>2, <1>3

LEMMA LastPlaces ==
  ASSUME NEW Any, NEW s \in Seq(Any), NEW n \in Nat, n <= Len(s)
  PROVE  /\ H!After(s, n) \in Seq(Any) /\ Len(H!After(s, n)) = Len(s) - n
         /\ \A i \in 1..(Len(s) - n) : H!After(s, n)[i] = s[n + i]
<1> DEFINE m == Len(s)
           a == n + 1
<1>1. m \in Int /\ m \in Nat /\ a \in Int /\ \A i \in a..m : s[i] \in Any
  OBVIOUS
<1>a. a = n + 1 /\ H!After(s, n) = SubSeq(s, a, m) /\ n <= m
  BY DEF H!After
<1> HIDE DEF m, a
<1>2. /\ SubSeq(s, a, m) \in Seq(Any) /\ Len(SubSeq(s, a, m)) = IF a <= m THEN m - a + 1 ELSE 0
      /\ \A i \in 1..(m - a + 1) : SubSeq(s, a, m)[i] = s[a + i - 1]
  BY ONLY <1>1, SubSeqProperties
<1>3. /\ (IF a <= m THEN m - a + 1 ELSE 0) = m - n
      /\ \A i \in 1..(m - n) : i \in 1..(m - a + 1) /\ a + i - 1 = n + i
  BY <1>1, <1>a
<1>4. QED
  BY <1>a, <1>2, <1>3 DEF m

LEMMA ThreePieces ==
  ASSUME NEW p \in Seq(HookTexts), NEW k \in Seq(HookTexts), NEW a \in Seq(HookTexts), Len(k) = 3
  PROVE  /\ p \o k \o a \in Seq(HookTexts) /\ Len(p \o k \o a) = Len(p) + 3 + Len(a)
         /\ \A i \in 1..Len(p) : (p \o k \o a)[i] = p[i]
         /\ (p \o k \o a)[Len(p) + 1] = k[1] /\ (p \o k \o a)[Len(p) + 2] = k[2]
         /\ (p \o k \o a)[Len(p) + 3] = k[3]
         /\ \A i \in (Len(p) + 4)..(Len(p) + 3 + Len(a)) : (p \o k \o a)[i] = a[i - (Len(p) + 3)]
<1> DEFINE q == p \o k
           m == Len(p)
           n == Len(a)
<1>1. m \in Nat /\ n \in Nat
  OBVIOUS
<1>2. /\ q \in Seq(HookTexts) /\ Len(q) = m + 3
      /\ \A i \in 1..(m + 3) : q[i] = IF i <= m THEN p[i] ELSE k[i - m]
  <2>1. /\ q \in Seq(HookTexts) /\ Len(q) = Len(p) + Len(k)
        /\ \A i \in 1..(Len(p) + Len(k)) : q[i] = IF i <= Len(p) THEN p[i] ELSE k[i - Len(p)]
    BY ConcatProperties
  <2>2. Len(p) + Len(k) = m + 3
    BY <1>1
  <2>3. QED
    BY <2>1, <2>2
<1> HIDE DEF q, n
<1>3. /\ q \o a \in Seq(HookTexts) /\ Len(q \o a) = m + 3 + n
      /\ \A i \in 1..(m + 3 + n) : (q \o a)[i] = IF i <= m + 3 THEN q[i] ELSE a[i - (m + 3)]
  <2>1. \A c \in Seq(HookTexts) : Len(c) = n =>
          /\ q \o c \in Seq(HookTexts) /\ Len(q \o c) = m + 3 + n
          /\ \A i \in 1..(m + 3 + n) : (q \o c)[i] = IF i <= m + 3 THEN q[i] ELSE c[i - (m + 3)]
    <3> TAKE c \in Seq(HookTexts)
    <3> HAVE Len(c) = n
    <3>1. Len(q) + Len(c) = m + 3 + n
      BY <1>2
    <3>2. q \in Seq(HookTexts)
      BY <1>2
    <3>3. /\ q \o c \in Seq(HookTexts) /\ Len(q \o c) = Len(q) + Len(c)
          /\ \A i \in 1..(Len(q) + Len(c)) : (q \o c)[i] = IF i <= Len(q) THEN q[i] ELSE c[i - Len(q)]
      BY <3>2, ConcatProperties
    <3>4. QED
      BY <1>2, <3>1, <3>3
  <2>2. QED
    BY <2>1 DEF n
<1> HIDE DEF m
<1>4. /\ \A i \in 1..m : i \in 1..(m + 3) /\ i <= m /\ i \in 1..(m + 3 + n) /\ i <= m + 3
      /\ \A j \in 1..3 : m + j \in 1..(m + 3) /\ ~(m + j <= m) /\ m + j \in 1..(m + 3 + n)
                         /\ m + j <= m + 3 /\ (m + j) - m = j
      /\ \A i \in (m + 4)..(m + 3 + n) : i \in 1..(m + 3 + n) /\ ~(i <= m + 3)
  BY <1>1
<1>5. /\ \A i \in 1..m : q[i] = p[i]
      /\ \A j \in 1..3 : q[m + j] = k[j]
  BY <1>2, <1>4
<1>6. /\ \A i \in 1..m : (q \o a)[i] = p[i]
      /\ \A j \in 1..3 : (q \o a)[m + j] = k[j]
      /\ \A i \in (m + 4)..(m + 3 + n) : (q \o a)[i] = a[i - (m + 3)]
  BY <1>3, <1>4, <1>5
<1>7. 1 \in 1..3 /\ 2 \in 1..3 /\ 3 \in 1..3
  OBVIOUS
<1>8. QED
  BY <1>3, <1>6, <1>7 DEF q, m, n

Replaces(s, t, b, e) ==
  /\ b \in 1..Len(s) /\ e \in 1..Len(s) /\ OpenIn(s, b, e)
  /\ t = SubSeq(s, 1, b - 1) \o H!Block \o H!After(s, e)

LEMMA BlockReplaced ==
  ASSUME NEW s \in Seq(HookTexts), NEW b, NEW e, NEW t, Replaces(s, t, b, e)
  PROVE  /\ t \in Seq(HookTexts) /\ Len(t) = Len(s) + (b + 2 - e)
         /\ \A i \in 1..(b - 1) : t[i] = s[i]
         /\ t[b] = "start" /\ t[b + 1] = "notify" /\ t[b + 2] = "end"
         /\ \A i \in (b + 3)..Len(t) : t[i] = s[i - (b + 2 - e)]
<1> DEFINE d == b + 2 - e
           m == Len(s)
<1>1. /\ Len(s) = m /\ m \in Nat /\ DOMAIN s = 1..m /\ b \in Nat /\ e \in Nat /\ 1 <= b /\ b < e
      /\ e <= m /\ d \in Int /\ e + d = b + 2
  <2>1. m \in Nat /\ DOMAIN s = 1..m
    OBVIOUS
  <2>2. b \in 1..m /\ e \in 1..m /\ b < e
    BY DEF Replaces, OpenIn
  <2>3. QED
    BY <2>1, <2>2
<1>2. t = SubSeq(s, 1, b - 1) \o H!Block \o H!After(s, e)
  BY DEF Replaces
<1> HIDE DEF d, m
<1>3. /\ t \in Seq(HookTexts) /\ Len(t) = m + d
      /\ \A i \in 1..(b - 1) : t[i] = s[i]
      /\ t[b] = "start" /\ t[b + 1] = "notify" /\ t[b + 2] = "end"
      /\ \A i \in (b + 3)..(m + d) : t[i] = s[i - d]
  <2> DEFINE p == SubSeq(s, 1, b - 1)
             a == H!After(s, e)
             k == H!Block
  <2>1. /\ p \in Seq(HookTexts) /\ Len(p) = b - 1 /\ \A i \in 1..(b - 1) : p[i] = s[i]
    <3>1. b - 1 \in Nat /\ b - 1 <= Len(s)
      BY <1>1
    <3>2. QED
      BY <3>1, FirstPlaces
  <2>2. a \in Seq(HookTexts) /\ Len(a) = m - e /\ \A i \in 1..(m - e) : a[i] = s[e + i]
    <3>1. e \in Nat /\ e <= Len(s) /\ Len(s) = m
      BY <1>1
    <3>2. QED
      BY <3>1, LastPlaces
  <2>3. k \in Seq(HookTexts) /\ Len(k) = 3 /\ k[1] = "start" /\ k[2] = "notify" /\ k[3] = "end"
    BY DEF H!Block, HookTexts
  <2>4. t = p \o k \o a
    BY <1>2
  <2> HIDE DEF p, a, k
  <2>5. /\ t \in Seq(HookTexts) /\ Len(t) = Len(p) + 3 + Len(a)
        /\ \A i \in 1..Len(p) : t[i] = p[i]
        /\ t[Len(p) + 1] = k[1] /\ t[Len(p) + 2] = k[2] /\ t[Len(p) + 3] = k[3]
        /\ \A i \in (Len(p) + 4)..(Len(p) + 3 + Len(a)) : t[i] = a[i - (Len(p) + 3)]
    <3>1. p \in Seq(HookTexts) /\ k \in Seq(HookTexts) /\ a \in Seq(HookTexts)
      BY <2>1, <2>2, <2>3
    <3>2. Len(k) = 3
      BY <2>3
    <3>3. /\ p \o k \o a \in Seq(HookTexts) /\ Len(p \o k \o a) = Len(p) + 3 + Len(a)
          /\ \A i \in 1..Len(p) : (p \o k \o a)[i] = p[i]
          /\ (p \o k \o a)[Len(p) + 1] = k[1] /\ (p \o k \o a)[Len(p) + 2] = k[2]
          /\ (p \o k \o a)[Len(p) + 3] = k[3]
          /\ \A i \in (Len(p) + 4)..(Len(p) + 3 + Len(a)) :
               (p \o k \o a)[i] = a[i - (Len(p) + 3)]
      BY <3>1, <3>2, ThreePieces
    <3>4. QED
      BY ONLY <2>4, <3>3
  <2>6. /\ Len(p) + 3 + Len(a) = m + d /\ Len(p) + 1 = b /\ Len(p) + 2 = b + 1
        /\ Len(p) + 3 = b + 2 /\ Len(p) + 4 = b + 3
    BY <1>1, <2>1, <2>2
  <2>7. \A i \in (b + 3)..(m + d) : i - (b + 2) \in 1..(m - e) /\ e + (i - (b + 2)) = i - d
    BY <1>1
  <2>8. \A i \in (b + 3)..(m + d) : t[i] = a[i - (b + 2)]
    BY <2>5, <2>6
  <2>9. \A i \in (b + 3)..(m + d) : t[i] = s[i - d]
    BY <2>2, <2>7, <2>8
  <2>10. \A i \in 1..(b - 1) : t[i] = s[i]
    BY <2>1, <2>5
  <2>11. QED
    BY <2>3, <2>5, <2>6, <2>9, <2>10
<1>4. QED
  BY <1>1, <1>3 DEF d, m

LEMMA AppendedIsWhole ==
  ASSUME NEW s \in Seq(HookTexts), NoneIn(s)
  PROVE  /\ \E k \in DOMAIN (s \o H!Block) : WholeIn(s \o H!Block, k)
         /\ H!Mine(s \o H!Block) = H!Mine(s)
<1> DEFINE t == s \o H!Block
           m == Len(s)
<1>1. /\ t \in Seq(HookTexts) /\ Len(t) = m + 3 /\ m \in Nat
      /\ \A i \in 1..m : t[i] = s[i]
      /\ t[m + 1] = "start" /\ t[m + 2] = "notify" /\ t[m + 3] = "end"
  BY BlockAppended
<1>2. \A i \in 1..m : s[i] \notin {"start", "end", "notify"}
  BY DEF NoneIn, H!At
<1> HIDE DEF t, m
<1>3. DOMAIN t = 1..(m + 3) /\ m + 1 \in 1..(m + 3) /\ m + 2 \in 1..(m + 3) /\ m + 3 \in 1..(m + 3)
  BY <1>1
<1>4. \A i \in 1..(m + 3) : i \in 1..m \/ i = m + 1 \/ i = m + 2 \/ i = m + 3
  BY <1>1
<1>5. H!At(t, "start") = {m + 1}
  BY <1>1, <1>2, <1>3, <1>4 DEF H!At
<1>6. H!At(t, "end") = {m + 3}
  BY <1>1, <1>2, <1>3, <1>4 DEF H!At
<1>7. H!At(t, "notify") = {m + 2}
  BY <1>1, <1>2, <1>3, <1>4 DEF H!At
<1>8. (m + 1) + 2 = m + 3 /\ (m + 1) + 1 = m + 2
  BY <1>1
<1>9. WholeIn(t, m + 1)
  BY <1>5, <1>6, <1>7, <1>8 DEF WholeIn
<1> DEFINE S == H!Users(s)
           U == H!Users(t)
           h == [i \in S |-> i]
<1>10. \A i : i \in S <=> i \in 1..m /\ s[i] \in Lines
  <2>1. DOMAIN s = 1..m
    BY DEF m
  <2>2. QED
    BY <2>1, NothingBetween
<1>11. /\ U \in SUBSET (1..(m + 3))
       /\ \A i \in 1..(m + 3) : i \in U <=> t[i] \in Lines /\ ~(m + 1 < i /\ i < m + 3)
  <2>1. m + 1 \in Nat /\ m + 3 \in Nat /\ t \in Seq(HookTexts) /\ DOMAIN t = 1..(m + 3)
    BY <1>1, <1>3
  <2>2. QED
    BY <2>1, <1>5, <1>6, BetweenMarkers
<1>12. U = S
  <2>1. "start" \notin Lines /\ "notify" \notin Lines /\ "end" \notin Lines
    BY LinesAreUsers
  <2>2. \A i \in 1..m : i \in 1..(m + 3) /\ ~(m + 1 < i /\ i < m + 3)
    BY <1>1
  <2>3. QED
    BY <1>1, <1>4, <1>10, <1>11, <2>1, <2>2
<1>13. \A i \in S : t[i] = s[i] /\ i \in Nat
  BY <1>1, <1>10
<1> HIDE DEF S, U
<1>14. /\ h \in [S -> U] /\ \A i \in S : t[h[i]] = s[i]
       /\ \A j \in U : \E i \in S : h[i] = j
       /\ \A i, j \in S : i < j => h[i] < h[j]
  BY <1>12, <1>13
<1> HIDE DEF h
<1>15. Carries(h, s, S, t, U)
  BY <1>14 DEF Carries
<1>16. H!Mine(t) = H!Mine(s)
  BY <1>1, <1>15, SameLines DEF S, U
<1>17. QED
  BY <1>3, <1>9, <1>16 DEF t

LEMMA ReplacedIsWhole ==
  ASSUME NEW s \in Seq(HookTexts), NEW b, NEW e, NEW t, Replaces(s, t, b, e)
  PROVE  b \in DOMAIN t /\ WholeIn(t, b) /\ H!Mine(t) = H!Mine(s)
<1> DEFINE d == b + 2 - e
           m == Len(s)
<1>1. /\ m \in Nat /\ DOMAIN s = 1..m /\ b \in Nat /\ e \in Nat /\ 1 <= b /\ b < e
      /\ e <= m /\ d \in Int /\ e + d = b + 2
  <2>1. m \in Nat /\ DOMAIN s = 1..m
    OBVIOUS
  <2>2. b \in 1..m /\ e \in 1..m /\ b < e
    BY DEF Replaces, OpenIn
  <2>3. QED
    BY <2>1, <2>2
<1>2. /\ t \in Seq(HookTexts) /\ Len(t) = m + d
      /\ \A i \in 1..(b - 1) : t[i] = s[i]
      /\ t[b] = "start" /\ t[b + 1] = "notify" /\ t[b + 2] = "end"
      /\ \A i \in (b + 3)..Len(t) : t[i] = s[i - d]
  BY BlockReplaced
<1>3. \A i \in DOMAIN s : s[i] \in {"start", "end", "notify"} => b <= i /\ i <= e
  <2> TAKE i \in DOMAIN s
  <2> HAVE s[i] \in {"start", "end", "notify"}
  <2>1. i = b \/ i = e \/ i \in (b + 1)..(e - 1)
    BY DEF Replaces, OpenIn, H!At
  <2>2. QED
    BY <1>1, <2>1
<1> HIDE DEF d, m
<1>4. DOMAIN t = 1..(m + d)
  BY <1>1, <1>2
<1>5. \A i \in 1..(m + d) : \/ i \in 1..(b - 1) \/ i \in (b + 3)..(m + d)
                            \/ i = b \/ i = b + 1 \/ i = b + 2
  BY <1>1
<1>6. \A i \in 1..(b - 1) : t[i] \notin {"start", "end", "notify"}
  <2> TAKE i \in 1..(b - 1)
  <2>1. i \in DOMAIN s /\ ~(b <= i)
    BY <1>1
  <2>2. QED
    BY <1>2, <1>3, <2>1
<1>7. \A i \in (b + 3)..(m + d) : t[i] \notin {"start", "end", "notify"}
  <2> TAKE i \in (b + 3)..(m + d)
  <2>1. i - d \in DOMAIN s /\ ~(i - d <= e)
    BY <1>1
  <2>2. t[i] = s[i - d]
    BY <1>2
  <2>3. QED
    BY <1>3, <2>1, <2>2
<1>8. b \in 1..(m + d) /\ b + 1 \in 1..(m + d) /\ b + 2 \in 1..(m + d)
  BY <1>1
<1>9. H!At(t, "start") = {b}
  BY <1>2, <1>4, <1>5, <1>6, <1>7, <1>8 DEF H!At
<1>10. H!At(t, "notify") = {b + 1}
  BY <1>2, <1>4, <1>5, <1>6, <1>7, <1>8 DEF H!At
<1>11. H!At(t, "end") = {b + 2}
  BY <1>2, <1>4, <1>5, <1>6, <1>7, <1>8 DEF H!At
<1>12. b \in DOMAIN t /\ WholeIn(t, b)
  BY <1>4, <1>8, <1>9, <1>10, <1>11 DEF WholeIn
<1> DEFINE S == H!Users(s)
           U == H!Users(t)
           h == [i \in S |-> IF i < b THEN i ELSE i + d]
<1>13. "start" \notin Lines /\ "notify" \notin Lines /\ "end" \notin Lines
  BY LinesAreUsers
<1>14. \A i \in 1..m : i \in S <=> s[i] \in Lines /\ (i < b \/ e < i)
  <2>1. H!At(s, "start") = {b} /\ H!At(s, "end") = {e}
    BY DEF Replaces, OpenIn
  <2>2. \A i \in 1..m : i \in S <=> s[i] \in Lines /\ ~(b < i /\ i < e)
    BY <1>1, <2>1, BetweenMarkers
  <2>3. s[b] = "start" /\ s[e] = "end"
    BY <2>1 DEF H!At
  <2>4. \A i \in 1..m : i < b \/ e < i \/ i = b \/ i = e \/ (b < i /\ i < e)
    BY <1>1
  <2>5. \A i \in 1..m : i < b \/ e < i => ~(b < i /\ i < e)
    BY <1>1
  <2> HIDE DEF S
  <2>6. QED
    BY <1>13, <2>2, <2>3, <2>4, <2>5
<1>15. S \in SUBSET (1..m) /\ U \in SUBSET (1..(m + d))
  BY <1>1, <1>2, <1>4 DEF H!Users
<1>16. \A j \in 1..(m + d) :
         j \in U <=> t[j] \in Lines /\ (j \in 1..(b - 1) \/ j \in (b + 3)..(m + d))
  <2>1. \A j \in 1..(m + d) : j \in U <=> t[j] \in Lines /\ ~(b < j /\ j < b + 2)
    <3> DEFINE c == b + 2
    <3>1. b \in Nat /\ c \in Nat /\ t \in Seq(HookTexts) /\ DOMAIN t = 1..(m + d)
      BY <1>1, <1>2, <1>4
    <3>2. H!At(t, "start") = {b} /\ H!At(t, "end") = {c}
      BY <1>9, <1>11
    <3> HIDE DEF c
    <3>3. \A j \in DOMAIN t : j \in H!Users(t) <=> t[j] \in Lines /\ ~(b < j /\ j < c)
      BY ONLY <3>1, <3>2, BetweenMarkers
    <3>4. QED
      BY ONLY <3>1, <3>3 DEF c
  <2>2. \A j \in 1..(m + d) : j \in 1..(b - 1) \/ j \in (b + 3)..(m + d) => ~(b < j /\ j < b + 2)
    BY <1>1
  <2> HIDE DEF U
  <2>3. QED
    BY <1>2, <1>5, <1>13, <2>1, <2>2
<1> HIDE DEF S, U
<1>17. \A i \in S : h[i] \in U /\ t[h[i]] = s[i]
  <2> TAKE i \in S
  <2>1. CASE i < b
    <3>1. h[i] = i /\ i \in 1..(m + d) /\ i \in 1..(b - 1) /\ s[i] \in Lines
      BY <1>1, <1>14, <1>15, <2>1
    <3>2. QED
      BY <1>2, <1>16, <3>1
  <2>2. CASE e < i
    <3>1. i \in 1..m /\ ~(i < b) /\ s[i] \in Lines
      BY <1>1, <1>14, <1>15, <2>2
    <3>2. h[i] = i + d
      BY <3>1
    <3>3. i + d \in (b + 3)..(m + d) /\ (i + d) - d = i /\ i + d \in 1..(m + d)
      BY <1>1, <2>2, <3>1
    <3>4. t[i + d] = s[i]
      BY <1>2, <3>3
    <3>5. QED
      BY <1>16, <3>1, <3>2, <3>3, <3>4
  <2>3. QED
    BY <1>14, <1>15, <2>1, <2>2
<1>18. h \in [S -> U]
  BY <1>17
<1>19. \A j \in U : \E i \in S : h[i] = j
  <2> TAKE j \in U
  <2>1. CASE j \in 1..(b - 1)
    <3>1. j \in 1..m /\ j < b
      BY <1>1, <2>1
    <3>2. j \in S
      BY <1>2, <1>14, <1>15, <1>16, <2>1, <3>1
    <3>3. h[j] = j
      BY <3>1, <3>2
    <3>4. QED
      BY <3>2, <3>3
  <2>2. CASE j \in (b + 3)..(m + d)
    <3>1. j - d \in 1..m /\ ~(j - d < b) /\ (j - d) + d = j /\ e < j - d
      BY <1>1, <2>2
    <3>2. s[j - d] = t[j]
      BY <1>2, <2>2
    <3>3. j - d \in S
      BY <1>14, <1>15, <1>16, <3>1, <3>2
    <3>4. h[j - d] = j
      BY <3>1, <3>3
    <3>5. QED
      BY <3>3, <3>4
  <2>3. QED
    BY <1>15, <1>16, <2>1, <2>2
<1>20. \A i, j \in S : i < j => h[i] < h[j]
  <2> TAKE i, j \in S
  <2> HAVE i < j
  <2>1. i \in 1..m /\ j \in 1..m /\ (i < b \/ e < i) /\ (j < b \/ e < j)
    BY <1>14, <1>15
  <2>2. h[i] = (IF i < b THEN i ELSE i + d) /\ h[j] = (IF j < b THEN j ELSE j + d)
    OBVIOUS
  <2> HIDE DEF h
  <2>3. QED
    BY <1>1, <2>1, <2>2
<1> HIDE DEF h
<1>21. Carries(h, s, S, t, U)
  BY <1>17, <1>18, <1>19, <1>20 DEF Carries
<1>22. H!Mine(t) = H!Mine(s)
  BY <1>2, <1>21, SameLines DEF S, U
<1>23. QED
  BY <1>12, <1>22

LEMMA NoUserLines ==
  ASSUME NEW s \in Seq(HookTexts), \A i \in DOMAIN s : s[i] \notin Lines
  PROVE  H!Mine(s) = <<>>
<1>1. H!Users(s) = {}
  BY DEF H!Users
<1>2. H!Mine(s) = Picked(s, {})
  BY <1>1, MineIsPicked
<1>3. Picked(s, {}) \in Seq(HookTexts) /\ Len(Picked(s, {})) = 0
  BY FS_EmptySet, PickedInOrder
<1>4. QED
  BY <1>2, <1>3

LEMMA InstalledBlock ==
  ASSUME NEW s \in Seq(HookTexts), Shaped(s)
  PROVE  /\ H!Upserted(s) \in Seq(HookTexts) /\ H!Mine(H!Upserted(s)) = H!Mine(s)
         /\ \E k \in DOMAIN H!Upserted(s) : WholeIn(H!Upserted(s), k)
<1>1. CASE NoneIn(s) /\ s # <<>>
  <2>1. H!Upserted(s) = s \o H!Block
    BY <1>1 DEF H!Upserted, NoneIn
  <2>2. s \o H!Block \in Seq(HookTexts)
    BY BlockAppended
  <2>3. QED
    BY <1>1, <2>1, <2>2, AppendedIsWhole
<1>2. CASE NoneIn(s) /\ s = <<>>
  <2> DEFINE r == <<"shebang">>
  <2>1. H!Upserted(s) = r \o H!Block
    BY <1>2 DEF H!Upserted, NoneIn
  <2>2. r \in Seq(HookTexts) /\ DOMAIN r = {1} /\ r[1] = "shebang"
    BY DEF HookTexts
  <2>3. NoneIn(r)
    BY <2>2 DEF NoneIn, H!At
  <2>4. H!Mine(r) = <<>> /\ H!Mine(s) = <<>>
    <3>1. \A i \in DOMAIN r : r[i] \notin Lines
      BY <2>2, LinesAreUsers
    <3>2. \A i \in DOMAIN s : s[i] \notin Lines
      BY <1>2
    <3> HIDE DEF r
    <3>3. QED
      BY <2>2, <3>1, <3>2, NoUserLines
  <2> HIDE DEF r
  <2>5. r \o H!Block \in Seq(HookTexts)
    BY <2>2, BlockAppended
  <2>6. QED
    BY <2>1, <2>2, <2>3, <2>4, <2>5, AppendedIsWhole
<1>3. ASSUME NEW k \in DOMAIN s, NEW e \in DOMAIN s, OpenIn(s, k, e)
      PROVE  /\ H!Upserted(s) \in Seq(HookTexts) /\ H!Mine(H!Upserted(s)) = H!Mine(s)
             /\ \E j \in DOMAIN H!Upserted(s) : WholeIn(H!Upserted(s), j)
  <2>1. H!At(s, "start") = {k} /\ H!At(s, "end") = {e} /\ k < e
    BY <1>3 DEF OpenIn
  <2>2. k \in Nat /\ e \in Nat /\ k \in 1..Len(s) /\ e \in 1..Len(s)
    OBVIOUS
  <2>3. H!First({k}) = k /\ H!First({e}) = e
    <3>1. H!First({k}) \in {k} /\ H!First({e}) \in {e}
      BY <2>2, FirstLine
    <3>2. QED
      BY <3>1
  <2> DEFINE t == SubSeq(s, 1, k - 1) \o H!Block \o H!After(s, e)
  <2>4. H!Upserted(s) = t
    <3>1. {i \in H!At(s, "end") : k < i} = {e}
      BY <2>1, <2>2
    <3>2. QED
      BY <2>1, <2>3, <3>1 DEF H!Upserted
  <2>5. Replaces(s, t, k, e)
    BY <1>3, <2>2 DEF Replaces
  <2> HIDE DEF t
  <2>6. t \in Seq(HookTexts)
    BY <2>5, BlockReplaced
  <2>7. k \in DOMAIN t /\ WholeIn(t, k) /\ H!Mine(t) = H!Mine(s)
    BY <2>5, ReplacedIsWhole
  <2>8. QED
    BY <2>4, <2>6, <2>7
<1>4. QED
  BY <1>1, <1>2, <1>3 DEF Shaped

LEMMA UpsertTyped ==
  ASSUME NEW s \in Seq(HookTexts)
  PROVE  H!Upserted(s) \in Seq(HookTexts)
<1>1. H!Block \in Seq(HookTexts) /\ <<"shebang">> \in Seq(HookTexts)
  BY DEF H!Block, HookTexts
<1>2. s \o H!Block \in Seq(HookTexts) /\ <<"shebang">> \o H!Block \in Seq(HookTexts)
  BY <1>1, ConcatProperties
<1>3. ASSUME H!At(s, "start") # {}, H!At(s, "end") # {}
      PROVE  H!Upserted(s) \in Seq(HookTexts)
  <2> DEFINE from == H!First(H!At(s, "start"))
             ends == {i \in H!At(s, "end") : from < i}
  <2>1. /\ H!At(s, "start") \in SUBSET Nat /\ H!At(s, "end") \in SUBSET Nat
        /\ H!At(s, "start") \in SUBSET (1..Len(s)) /\ H!At(s, "end") \in SUBSET (1..Len(s))
    BY DEF H!At
  <2>2. from \in 1..Len(s)
    BY <1>3, <2>1, FirstLine
  <2>3. CASE ends = {}
    BY <1>3, <2>3 DEF H!Upserted
  <2>4. CASE ends # {}
    <3>1. H!First(ends) \in 1..Len(s)
      <4>1. ends \in SUBSET Nat /\ ends \in SUBSET (1..Len(s))
        BY <2>1
      <4> HIDE DEF ends
      <4>2. QED
        BY <2>4, <4>1, FirstLine
    <3>2. H!Upserted(s) = SubSeq(s, 1, from - 1) \o H!Block \o H!After(s, H!First(ends))
      BY <1>3, <2>4 DEF H!Upserted
    <3> HIDE DEF from, ends
    <3>3. SubSeq(s, 1, from - 1) \in Seq(HookTexts)
      <4>1. from - 1 \in Nat /\ from - 1 <= Len(s)
        BY <2>2
      <4>2. QED
        BY <4>1, FirstPlaces
    <3>4. H!After(s, H!First(ends)) \in Seq(HookTexts)
      <4>1. H!First(ends) \in Nat /\ H!First(ends) <= Len(s)
        BY <3>1
      <4>2. QED
        BY <4>1, LastPlaces
    <3>5. SubSeq(s, 1, from - 1) \o H!Block \in Seq(HookTexts)
      BY <1>1, <3>3, ConcatProperties
    <3>6. QED
      BY <3>2, <3>4, <3>5, ConcatProperties
  <2>5. QED
    BY <2>3, <2>4
<1>4. CASE ~(H!At(s, "start") # {} /\ H!At(s, "end") # {})
  BY <1>2, <1>4 DEF H!Upserted
<1>5. QED
  BY <1>3, <1>4

\* A line that is removed,
LEMMA LineRemoved ==
  ASSUME NEW s \in Seq(HookTexts), NEW i \in DOMAIN s
  PROVE  /\ H!Without(s, i) \in Seq(HookTexts)
         /\ DOMAIN H!Without(s, i) = 1..(Len(s) - 1)
         /\ \A j \in 1..(Len(s) - 1) : H!Without(s, i)[j] = IF j < i THEN s[j] ELSE s[j + 1]
<1> DEFINE p == SubSeq(s, 1, i - 1)
           a == H!After(s, i)
           m == Len(s)
<1>1. m \in Nat /\ i \in 1..m /\ i \in Nat
  OBVIOUS
<1>2. p \in Seq(HookTexts) /\ Len(p) = i - 1 /\ \A j \in 1..(i - 1) : p[j] = s[j]
  <2>1. i - 1 \in Nat /\ i - 1 <= Len(s)
    BY <1>1
  <2>2. QED
    BY <2>1, FirstPlaces
<1>3. a \in Seq(HookTexts) /\ Len(a) = m - i /\ \A j \in 1..(m - i) : a[j] = s[i + j]
  <2>1. i \in Nat /\ i <= Len(s)
    BY <1>1
  <2>2. QED
    BY <2>1, LastPlaces
<1>4. H!Without(s, i) = p \o a
  BY DEF H!Without
<1> HIDE DEF p, a, m
<1>5. /\ p \o a \in Seq(HookTexts) /\ Len(p \o a) = Len(p) + Len(a)
      /\ \A j \in 1..(Len(p) + Len(a)) : (p \o a)[j] = IF j <= Len(p) THEN p[j] ELSE a[j - Len(p)]
  BY <1>2, <1>3, ConcatProperties
<1>6. Len(p) + Len(a) = m - 1
  BY <1>1, <1>2, <1>3
<1>7. \A j \in 1..(m - 1) : (p \o a)[j] = IF j < i THEN s[j] ELSE s[j + 1]
  <2> TAKE j \in 1..(m - 1)
  <2>1. (p \o a)[j] = IF j <= Len(p) THEN p[j] ELSE a[j - Len(p)]
    BY <1>5, <1>6
  <2>2. CASE j < i
    <3>1. j <= Len(p) /\ j \in 1..(i - 1)
      BY <1>1, <1>2, <2>2
    <3>2. QED
      BY <1>2, <2>1, <2>2, <3>1
  <2>3. CASE ~(j < i)
    <3>1. ~(j <= Len(p)) /\ j - Len(p) \in 1..(m - i) /\ i + (j - Len(p)) = j + 1
      BY <1>1, <1>2, <2>3
    <3>2. QED
      BY <1>3, <2>1, <2>3, <3>1
  <2>4. QED
    BY <2>2, <2>3
<1>8. DOMAIN (p \o a) = 1..(m - 1)
  BY <1>1, <1>5, <1>6
<1>9. QED
  BY <1>4, <1>5, <1>7, <1>8 DEF m

\* and where the others are then.
LEMMA PlacesMove ==
  ASSUME NEW s \in Seq(HookTexts), NEW i \in DOMAIN s, NEW x, NEW k \in Nat, k # i,
         H!At(s, x) = {k}
  PROVE  H!At(H!Without(s, i), x) = {IF k < i THEN k ELSE k - 1}
<1> DEFINE t == H!Without(s, i)
           m == Len(s)
<1>1. m \in Nat /\ DOMAIN s = 1..m /\ i \in 1..m
  OBVIOUS
<1>2. DOMAIN t = 1..(m - 1) /\ \A j \in 1..(m - 1) : t[j] = IF j < i THEN s[j] ELSE s[j + 1]
  BY LineRemoved
<1>3. k \in 1..m /\ s[k] = x /\ \A j \in 1..m : s[j] = x => j = k
  BY <1>1 DEF H!At
<1> HIDE DEF t, m
<1>4. CASE k < i
  <2>1. k \in 1..(m - 1) /\ t[k] = x
    <3>1. k \in 1..(m - 1)
      BY <1>1, <1>3, <1>4
    <3>2. QED
      BY <1>2, <1>3, <1>4, <3>1
  <2>2. ASSUME NEW j \in 1..(m - 1), t[j] = x PROVE j = k
    <3>1. CASE j < i
      <4>1. j \in 1..m /\ s[j] = x
        BY <1>1, <1>2, <2>2, <3>1
      <4>2. QED
        BY <1>3, <4>1
    <3>2. CASE ~(j < i)
      <4>1. j + 1 \in 1..m /\ s[j + 1] = x
        BY <1>1, <1>2, <2>2, <3>2
      <4>2. j + 1 = k
        BY <1>3, <4>1
      <4>3. QED
        BY <1>1, <1>4, <3>2, <4>2
    <3>3. QED
      BY <3>1, <3>2
  <2>3. H!At(t, x) = {k}
    BY <1>2, <2>1, <2>2 DEF H!At
  <2>4. QED
    BY <1>4, <2>3 DEF t
<1>5. CASE ~(k < i)
  <2>1. k - 1 \in 1..(m - 1) /\ ~(k - 1 < i) /\ (k - 1) + 1 = k
    BY <1>1, <1>3, <1>5
  <2>2. t[k - 1] = x
    <3>1. t[k - 1] = s[(k - 1) + 1]
      BY <1>2, <2>1
    <3>2. QED
      BY <1>3, <2>1, <3>1
  <2>3. ASSUME NEW j \in 1..(m - 1), t[j] = x PROVE j = k - 1
    <3>1. CASE j < i
      <4>1. j \in 1..m /\ s[j] = x
        BY <1>1, <1>2, <2>3, <3>1
      <4>2. j = k
        BY <1>3, <4>1
      <4>3. QED
        BY <1>5, <3>1, <4>2
    <3>2. CASE ~(j < i)
      <4>1. j + 1 \in 1..m /\ s[j + 1] = x
        BY <1>1, <1>2, <2>3, <3>2
      <4>2. j + 1 = k
        BY <1>3, <4>1
      <4>3. QED
        BY <4>2
    <3>3. QED
      BY <3>1, <3>2
  <2>4. H!At(t, x) = {k - 1}
    BY <1>2, <2>1, <2>2, <2>3 DEF H!At
  <2>5. QED
    BY <1>5, <2>4 DEF t
<1>6. QED
  BY <1>4, <1>5

LEMMA NoneThere ==
  ASSUME NEW s \in Seq(HookTexts), NEW i \in DOMAIN s, NEW x, H!At(s, x) \in SUBSET {i}
  PROVE  H!At(H!Without(s, i), x) = {}
<1> DEFINE t == H!Without(s, i)
           m == Len(s)
<1>1. m \in Nat /\ DOMAIN s = 1..m /\ i \in 1..m
  OBVIOUS
<1>2. DOMAIN t = 1..(m - 1) /\ \A j \in 1..(m - 1) : t[j] = IF j < i THEN s[j] ELSE s[j + 1]
  BY LineRemoved
<1>3. \A j \in 1..m : s[j] = x => j = i
  BY <1>1 DEF H!At
<1> HIDE DEF t, m
<1>4. ASSUME NEW j \in 1..(m - 1) PROVE t[j] # x
  <2>1. CASE j < i
    <3>1. j \in 1..m /\ j # i
      BY <1>1, <2>1
    <3>2. QED
      BY <1>2, <1>3, <2>1, <3>1
  <2>2. CASE ~(j < i)
    <3>1. j + 1 \in 1..m /\ j + 1 # i
      BY <1>1, <2>2
    <3>2. QED
      BY <1>2, <1>3, <2>2, <3>1
  <2>3. QED
    BY <2>1, <2>2
<1>5. QED
  BY <1>2, <1>4 DEF H!At, t

LEMMA RemovedBlock ==
  ASSUME NEW s \in Seq(HookTexts), NEW i \in DOMAIN s, s[i] \notin {"start", "end"}, Shaped(s)
  PROVE  Shaped(H!Without(s, i))
<1> DEFINE t == H!Without(s, i)
<1>1. CASE NoneIn(s)
  <2>1. NoneIn(t)
    BY <1>1, NoneThere DEF NoneIn
  <2>2. QED
    BY <2>1 DEF Shaped
<1>2. ASSUME NEW k \in DOMAIN s, NEW e \in DOMAIN s, OpenIn(s, k, e) PROVE Shaped(t)
  <2>1. /\ k \in Nat /\ i \in Nat /\ e \in Nat
        /\ H!At(s, "start") = {k} /\ H!At(s, "end") = {e} /\ k < e
        /\ \A j \in DOMAIN s : s[j] = "notify" => k < j /\ j < e
    <3>1. H!At(s, "notify") \subseteq (k + 1)..(e - 1)
      BY <1>2 DEF OpenIn
    <3>2. QED
      BY <1>2, <3>1 DEF OpenIn, H!At
  <2>2. k # i /\ e # i
    BY <2>1 DEF H!At
  <2> DEFINE l == IF k < i THEN k ELSE k - 1
             n == IF e < i THEN e ELSE e - 1
  <2>3. H!At(t, "start") = {l} /\ H!At(t, "end") = {n}
    BY <2>1, <2>2, PlacesMove
  <2>4. DOMAIN t = 1..(Len(s) - 1) /\ \A j \in 1..(Len(s) - 1) : t[j] = IF j < i THEN s[j] ELSE s[j + 1]
    BY LineRemoved
  <2>5. l \in DOMAIN t /\ n \in DOMAIN t /\ l < n /\ l \in Int /\ n \in Int
    <3>1. l \in Int /\ n \in Int /\ l < n
      BY <2>1, <2>2
    <3> HIDE DEF l, n, t
    <3>2. QED
      BY <2>3, <3>1 DEF H!At
  <2>6. \A j \in DOMAIN t : t[j] = "notify" => j \in (l + 1)..(n - 1)
    <3> TAKE j \in DOMAIN t
    <3> HAVE t[j] = "notify"
    <3>1. j \in 1..(Len(s) - 1) /\ Len(s) \in Nat /\ DOMAIN s = 1..Len(s)
      BY <2>4
    <3>2. CASE j < i
      <4>1. j \in DOMAIN s /\ s[j] = "notify"
        BY <2>4, <3>1, <3>2
      <4>2. k < j /\ j < e
        BY <2>1, <4>1
      <4>3. QED
        BY <2>1, <2>2, <3>1, <3>2, <4>2
    <3>3. CASE ~(j < i)
      <4>1. j + 1 \in DOMAIN s /\ s[j + 1] = "notify"
        BY <2>4, <3>1, <3>3
      <4>2. k < j + 1 /\ j + 1 < e
        BY <2>1, <4>1
      <4>3. QED
        BY <2>1, <2>2, <3>1, <3>3, <4>2
    <3>4. QED
      BY <3>2, <3>3
  <2> HIDE DEF l, n, t
  <2>7. OpenIn(t, l, n)
    BY <2>3, <2>5, <2>6 DEF OpenIn, H!At
  <2>8. QED
    BY <2>5, <2>7 DEF Shaped
<1>3. QED
  BY <1>1, <1>2 DEF Shaped

\* A line that is written,
LEMMA LineWritten ==
  ASSUME NEW s \in Seq(HookTexts), NEW i \in 0..Len(s), NEW x \in Lines
  PROVE  /\ H!With(s, i, x) \in Seq(HookTexts)
         /\ DOMAIN H!With(s, i, x) = 1..(Len(s) + 1)
         /\ \A j \in 1..(Len(s) + 1) :
              H!With(s, i, x)[j] = IF j <= i THEN s[j] ELSE IF j = i + 1 THEN x ELSE s[j - 1]
<1> DEFINE p == SubSeq(s, 1, i)
           a == H!After(s, i)
           r == <<x>>
           q == p \o r
           m == Len(s)
<1>1. m \in Nat /\ i \in Nat /\ i <= m
  OBVIOUS
<1>2. p \in Seq(HookTexts) /\ Len(p) = i /\ \A j \in 1..i : p[j] = s[j]
  BY <1>1, FirstPlaces
<1>3. a \in Seq(HookTexts) /\ Len(a) = m - i /\ \A j \in 1..(m - i) : a[j] = s[i + j]
  BY <1>1, LastPlaces
<1>4. r \in Seq(HookTexts) /\ Len(r) = 1 /\ r[1] = x
  BY DEF HookTexts
<1>5. H!With(s, i, x) = q \o a
  BY DEF H!With
<1> HIDE DEF p, a, r, m
<1>6. /\ q \in Seq(HookTexts) /\ Len(q) = i + 1
      /\ \A j \in 1..(i + 1) : q[j] = IF j <= i THEN p[j] ELSE r[j - i]
  <2>1. /\ q \in Seq(HookTexts) /\ Len(q) = Len(p) + Len(r)
        /\ \A j \in 1..(Len(p) + Len(r)) : q[j] = IF j <= Len(p) THEN p[j] ELSE r[j - Len(p)]
    BY <1>2, <1>4, ConcatProperties
  <2>2. Len(p) + Len(r) = i + 1
    BY <1>2, <1>4
  <2> HIDE DEF q
  <2>3. QED
    BY <1>2, <2>1, <2>2
<1> HIDE DEF q
<1>7. /\ q \o a \in Seq(HookTexts) /\ Len(q \o a) = Len(q) + Len(a)
      /\ \A j \in 1..(Len(q) + Len(a)) : (q \o a)[j] = IF j <= Len(q) THEN q[j] ELSE a[j - Len(q)]
  BY <1>3, <1>6, ConcatProperties
<1>8. Len(q) + Len(a) = m + 1
  BY <1>1, <1>3, <1>6
<1>9. \A j \in 1..(m + 1) :
        (q \o a)[j] = IF j <= i THEN s[j] ELSE IF j = i + 1 THEN x ELSE s[j - 1]
  <2> TAKE j \in 1..(m + 1)
  <2>1. (q \o a)[j] = IF j <= i + 1 THEN q[j] ELSE a[j - (i + 1)]
    BY <1>6, <1>7, <1>8
  <2>2. CASE j <= i
    <3>1. j \in 1..i /\ j \in 1..(i + 1) /\ j <= i + 1
      BY <1>1, <2>2
    <3>2. QED
      BY <1>2, <1>6, <2>1, <2>2, <3>1
  <2>3. CASE j = i + 1
    <3>1. j \in 1..(i + 1) /\ ~(j <= i) /\ j - i = 1 /\ j <= i + 1
      BY <1>1, <2>3
    <3>2. QED
      BY <1>4, <1>6, <2>1, <2>3, <3>1
  <2>4. CASE i + 1 < j
    <3>1. /\ j - (i + 1) \in 1..(m - i) /\ i + (j - (i + 1)) = j - 1
          /\ ~(j <= i) /\ j # i + 1 /\ ~(j <= i + 1)
      BY <1>1, <2>4
    <3>2. QED
      BY <1>3, <2>1, <3>1
  <2>5. j <= i \/ j = i + 1 \/ i + 1 < j
    BY <1>1
  <2>6. QED
    BY ONLY <2>2, <2>3, <2>4, <2>5
<1>10. DOMAIN (q \o a) = 1..(m + 1)
  BY <1>1, <1>7, <1>8
<1>11. QED
  BY <1>5, <1>7, <1>9, <1>10 DEF m

\* and where the others are then.
LEMMA PlacesShift ==
  ASSUME NEW s \in Seq(HookTexts), NEW i \in 0..Len(s), NEW x \in Lines, NEW y, y # x
  PROVE  H!At(H!With(s, i, x), y) = {IF k <= i THEN k ELSE k + 1 : k \in H!At(s, y)}
<1> DEFINE t == H!With(s, i, x)
           m == Len(s)
<1>1. m \in Nat /\ DOMAIN s = 1..m /\ i \in Nat /\ i <= m
  OBVIOUS
<1>2. /\ DOMAIN t = 1..(m + 1)
      /\ \A j \in 1..(m + 1) : t[j] = IF j <= i THEN s[j] ELSE IF j = i + 1 THEN x ELSE s[j - 1]
  BY LineWritten
<1> HIDE DEF t, m
<1>3. ASSUME NEW j \in 1..(m + 1), t[j] = y
      PROVE  \E k \in 1..m : s[k] = y /\ j = IF k <= i THEN k ELSE k + 1
  <2>1. CASE j <= i
    <3>1. j \in 1..m /\ s[j] = y
      BY <1>1, <1>2, <1>3, <2>1
    <3>2. QED
      BY <2>1, <3>1
  <2>2. CASE ~(j <= i)
    <3>1. j # i + 1
      BY <1>1, <1>2, <1>3, <2>2
    <3>2. j - 1 \in 1..m /\ ~(j - 1 <= i) /\ (j - 1) + 1 = j
      BY <1>1, <2>2, <3>1
    <3>3. s[j - 1] = y
      BY <1>2, <1>3, <2>2, <3>1
    <3>4. QED
      BY <3>2, <3>3
  <2>3. QED
    BY <2>1, <2>2
<1>4. ASSUME NEW k \in 1..m, s[k] = y
      PROVE  LET j == IF k <= i THEN k ELSE k + 1 IN j \in 1..(m + 1) /\ t[j] = y
  <2>1. CASE k <= i
    <3>1. k \in 1..(m + 1)
      BY <1>1
    <3>2. QED
      BY <1>2, <1>4, <2>1, <3>1
  <2>2. CASE ~(k <= i)
    <3>1. /\ k + 1 \in 1..(m + 1) /\ ~(k + 1 <= i) /\ k + 1 # i + 1 /\ (k + 1) - 1 = k
      BY <1>1, <2>2
    <3>2. t[k + 1] = s[(k + 1) - 1]
      BY <1>2, <3>1
    <3>3. QED
      BY <1>4, <2>2, <3>1, <3>2
  <2>3. QED
    BY <2>1, <2>2
<1> DEFINE A == H!At(t, y)
           shifted == {IF k <= i THEN k ELSE k + 1 : k \in H!At(s, y)}
<1>5. \A j \in A : j \in shifted
  BY <1>1, <1>2, <1>3 DEF H!At
<1>6. \A j \in shifted : j \in A
  BY <1>1, <1>2, <1>4 DEF H!At
<1> HIDE DEF A, shifted
<1>7. A = shifted
  BY <1>5, <1>6
<1>8. QED
  BY <1>7 DEF A, shifted, t

LEMMA WrittenBlock ==
  ASSUME NEW s \in Seq(HookTexts), NEW i \in 0..Len(s), NEW x \in Lines
  PROVE  LET t == H!With(s, i, x) IN
         /\ Shaped(s) => Shaped(t)
         /\ \A k \in DOMAIN s : WholeIn(s, k) /\ i + 1 \notin H!Between(t)
                                => \E l \in DOMAIN t : WholeIn(t, l)
<1> DEFINE t == H!With(s, i, x)
           Up(k) == IF k <= i THEN k ELSE k + 1
<1>1. t \in Seq(HookTexts) /\ DOMAIN t = 1..(Len(s) + 1) /\ i \in Nat /\ Len(s) \in Nat /\ i <= Len(s)
  BY LineWritten
<1>2. \A y \in {"start", "end", "notify"} : H!At(t, y) = {Up(k) : k \in H!At(s, y)}
  <2>1. \A y \in {"start", "end", "notify"} : y # x
    BY LinesAreUsers
  <2>2. QED
    BY <2>1, PlacesShift
<1> HIDE DEF t
<1>3. CASE NoneIn(s)
  <2>1. NoneIn(t)
    BY <1>2, <1>3 DEF NoneIn
  <2>2. QED
    <3>1. \A k : ~WholeIn(s, k)
      BY <1>3 DEF NoneIn, WholeIn
    <3>2. QED
      BY <2>1, <3>1 DEF Shaped, t
<1>4. ASSUME NEW k \in DOMAIN s, NEW e \in DOMAIN s, OpenIn(s, k, e)
      PROVE  /\ Up(k) \in DOMAIN t /\ Up(e) \in DOMAIN t /\ OpenIn(t, Up(k), Up(e))
  <2>1. /\ k \in Nat /\ e \in Nat /\ k < e /\ H!At(s, "start") = {k} /\ H!At(s, "end") = {e}
        /\ H!At(s, "notify") \subseteq (k + 1)..(e - 1)
    BY <1>4 DEF OpenIn
  <2>2. H!At(t, "start") = {Up(k)} /\ H!At(t, "end") = {Up(e)} /\ Up(k) < Up(e)
    BY <1>1, <1>2, <2>1
  <2>3. \A j \in (k + 1)..(e - 1) : Up(j) \in (Up(k) + 1)..(Up(e) - 1)
    BY <1>1, <2>1
  <2>4. H!At(t, "notify") \subseteq (Up(k) + 1)..(Up(e) - 1)
    BY <1>2, <2>1, <2>3
  <2>5. Up(k) \in DOMAIN t /\ Up(e) \in DOMAIN t
    <3>1. Up(k) \in H!At(t, "start") /\ Up(e) \in H!At(t, "end")
      BY <2>2
    <3> HIDE DEF Up
    <3>2. QED
      BY <3>1 DEF H!At
  <2>6. QED
    BY <2>2, <2>4, <2>5 DEF OpenIn
<1>5. ASSUME NEW k \in DOMAIN s, WholeIn(s, k), i + 1 \notin H!Between(t)
      PROVE  Up(k) \in DOMAIN t /\ WholeIn(t, Up(k))
  <2>1. k \in Nat /\ H!At(s, "start") = {k} /\ H!At(s, "end") = {k + 2} /\ H!At(s, "notify") = {k + 1}
    BY <1>5 DEF WholeIn
  <2>2. H!At(t, "start") = {Up(k)} /\ H!At(t, "end") = {Up(k + 2)} /\ H!At(t, "notify") = {Up(k + 1)}
    BY <1>2, <2>1
  <2>3. \A j \in DOMAIN t : j \in H!Between(t) <=> Up(k) < j /\ j < Up(k + 2)
    <3>1. Up(k) \in Nat /\ Up(k + 2) \in Nat
      BY <1>1, <2>1
    <3> HIDE DEF Up
    <3>2. QED
      BY <1>1, <2>2, <3>1, BetweenMarkers
  <2>4. i + 1 \in DOMAIN t
    BY <1>1
  <2>5. ~(Up(k) < i + 1 /\ i + 1 < Up(k + 2))
    BY <1>5, <2>3, <2>4
  <2>6. Up(k + 1) = Up(k) + 1 /\ Up(k + 2) = Up(k) + 2
    BY <1>1, <2>1, <2>5
  <2>7. Up(k) \in DOMAIN t
    <3>1. Up(k) \in H!At(t, "start")
      BY <2>2
    <3> HIDE DEF Up
    <3>2. QED
      BY <3>1 DEF H!At
  <2>8. QED
    BY <2>2, <2>6, <2>7 DEF WholeIn
<1> HIDE DEF Up
<1>6. CASE \E k, e \in DOMAIN s : OpenIn(s, k, e)
  <2>1. Shaped(t)
    BY <1>4, <1>6 DEF Shaped
  <2>2. QED
    BY <1>5, <2>1 DEF t
<1>7. CASE ~Shaped(s)
  <2>1. QED
    BY <1>5, <1>7 DEF t
<1>8. QED
  BY <1>3, <1>6, <1>7 DEF Shaped

LEMMA FirstLineWritten ==
  ASSUME NEW x \in Lines
  PROVE  <<"shebang", x>> \in Seq(HookTexts) /\ NoneIn(<<"shebang", x>>)
<1>1. <<"shebang", x>> \in Seq(HookTexts)
  BY DEF HookTexts
<1>2. NoneIn(<<"shebang", x>>)
  <2> DEFINE u == <<"shebang", x>>
  <2>1. DOMAIN u = {1, 2} /\ u[1] = "shebang" /\ u[2] = x
    OBVIOUS
  <2> HIDE DEF u
  <2>2. \A i \in DOMAIN u : u[i] \notin {"start", "end", "notify"}
    BY <2>1, LinesAreUsers
  <2>3. QED
    BY <2>2 DEF NoneIn, H!At, u
<1>3. QED
  BY <1>1, <1>2

HookShape == ~broken => Shaped(hook) /\ ("git" \in installed => \E k \in DOMAIN hook : WholeIn(hook, k))

LEMMA ShapeIsBlock == H!OneBlock <=> HookShape
<1>1. H!NoBlock <=> NoneIn(hook)
  BY DEF H!NoBlock, NoneIn
<1>2. /\ \A k, e : H!OpenBlock(k, e) <=> OpenIn(hook, k, e)
      /\ \A k : H!WholeBlock(k) <=> WholeIn(hook, k)
  BY DEF H!OpenBlock, OpenIn, H!WholeBlock, WholeIn
<1>3. QED
  BY <1>1, <1>2 DEF H!OneBlock, HookShape, Shaped

LEMMA ShapeIsBlockThen == H!OneBlock' <=> HookShape'
<1>1. H!NoBlock' <=> NoneIn(hook')
  BY DEF H!NoBlock, NoneIn
<1>2. /\ \A k, e : H!OpenBlock(k, e)' <=> OpenIn(hook', k, e)
      /\ \A k : H!WholeBlock(k)' <=> WholeIn(hook', k)
  BY DEF H!OpenBlock, OpenIn, H!WholeBlock, WholeIn
<1>3. QED
  BY <1>1, <1>2 DEF H!OneBlock, HookShape, Shaped

LEMMA RunsCounted ==
  ASSUME hRuns \in 0..MaxInstalls, hRuns < MaxInstalls /\ hRuns' = hRuns + 1
  PROVE  hRuns' \in 0..MaxInstalls
BY ClientBounds

LEMMA EditsCounted ==
  ASSUME edits \in 0..MaxEdits, H!Edit
  PROVE  edits' \in 0..MaxEdits /\ hRuns' = hRuns
<1>1. MaxEdits \in Nat
  BY ClientBounds
<1>2. edits < MaxEdits /\ edits' = edits + 1 /\ hRuns' = hRuns
  BY DEF H!Edit
<1>3. QED
  BY <1>1, <1>2

LEMMA HooksTyped ==
  ASSUME H!TypeOK, [H!Next]_hVars
  PROVE  H!TypeOK'
<1>1. /\ hook \in Seq(HookTexts) /\ stops \in Seq(SUBSET (Lines \cup {H!Notify}))
      /\ mine \in Seq(Lines) /\ others \in Seq(Lines)
      /\ installed \subseteq {"git", "claude"} /\ edits \in 0..MaxEdits /\ hRuns \in 0..MaxInstalls
  BY DEF H!TypeOK, HookTexts
<1>b. slip \in BOOLEAN /\ broken \in BOOLEAN
  BY DEF H!TypeOK
<1> DEFINE Goal == /\ hook' \in Seq(HookTexts) /\ stops' \in Seq(SUBSET (Lines \cup {H!Notify}))
                   /\ mine' \in Seq(Lines) /\ others' \in Seq(Lines)
                   /\ installed' \subseteq {"git", "claude"} /\ edits' \in 0..MaxEdits
                   /\ hRuns' \in 0..MaxInstalls
           Flags == slip' \in BOOLEAN /\ broken' \in BOOLEAN
<1>2. CASE H!InstallGit
  <2>1. Goal
    <3>1. hook' \in Seq(HookTexts)
      BY <1>1, <1>2, UpsertTyped DEF H!InstallGit
    <3>2. hRuns' \in 0..MaxInstalls
      BY <1>1, <1>2, RunsCounted DEF H!InstallGit
    <3>3. QED
      BY <1>1, <1>2, <3>1, <3>2 DEF H!InstallGit
  <2>2. Flags
    BY <1>b, <1>2, Zenon DEF H!InstallGit
  <2>3. QED
    BY <2>1, <2>2 DEF H!TypeOK, HookTexts
<1>3. CASE H!InstallClaude
  <2>1. Goal
    <3>1. hRuns' \in 0..MaxInstalls
      BY <1>1, <1>3, RunsCounted DEF H!InstallClaude
    <3>2. {H!Notify} \in SUBSET (Lines \cup {H!Notify})
      OBVIOUS
    <3>3. stops' \in Seq(SUBSET (Lines \cup {H!Notify}))
      BY <1>1, <1>3, <3>2, AppendProperties DEF H!InstallClaude
    <3>4. QED
      BY <1>1, <1>3, <3>1, <3>3 DEF H!InstallClaude
  <2>2. Flags
    BY <1>b, <1>3, Zenon DEF H!InstallClaude
  <2>3. QED
    BY <2>1, <2>2 DEF H!TypeOK, HookTexts
<1>4. ASSUME NEW line \in Lines, H!WriteLine(line) PROVE H!TypeOK'
  <2>1. Goal
    <3>1. installed' \subseteq {"git", "claude"}
      BY <1>1, <1>4 DEF H!WriteLine
    <3>2. hook' \in Seq(HookTexts)
      <4>1. ASSUME NEW i \in 0..Len(hook), hook' = H!With(hook, i, line)
            PROVE  hook' \in Seq(HookTexts)
        BY <1>1, <4>1, LineWritten
      <4>2. CASE hook' = <<"shebang", line>>
        BY <4>2, FirstLineWritten
      <4>3. QED
        BY <1>4, <4>1, <4>2 DEF H!WriteLine
    <3>3. mine' \in Seq(Lines)
      BY <1>4, <3>2, MineIsPicked DEF H!WriteLine
    <3>4. edits' \in 0..MaxEdits /\ hRuns' = hRuns
      BY <1>1, <1>4, EditsCounted DEF H!WriteLine
    <3>5. QED
      BY <1>1, <1>4, <3>1, <3>2, <3>3, <3>4 DEF H!WriteLine
  <2>2. Flags
    BY <1>b, <1>4, Zenon DEF H!WriteLine
  <2>3. QED
    BY <2>1, <2>2 DEF H!TypeOK, HookTexts
<1>5. ASSUME NEW line \in Lines, NEW beside \in BOOLEAN, H!AddStop(line, beside) PROVE H!TypeOK'
  <2>1. Goal
    <3>1. others' \in Seq(Lines)
      BY <1>1, <1>5, AppendProperties DEF H!AddStop
    <3>2. edits' \in 0..MaxEdits /\ hRuns' = hRuns
      BY <1>1, <1>5, EditsCounted DEF H!AddStop
    <3>3. stops' \in Seq(SUBSET (Lines \cup {H!Notify}))
      <4>1. CASE stops' = Append(stops, {line})
        <5>1. {line} \in SUBSET (Lines \cup {H!Notify})
          OBVIOUS
        <5>2. QED
          BY <1>1, <4>1, <5>1, AppendProperties
      <4>2. ASSUME NEW i \in DOMAIN stops, stops' = [stops EXCEPT ![i] = @ \cup {line}]
            PROVE  stops' \in Seq(SUBSET (Lines \cup {H!Notify}))
        <5>1. stops[i] \cup {line} \in SUBSET (Lines \cup {H!Notify})
          BY <1>1
        <5>2. QED
          BY <1>1, <4>2, <5>1
      <4>3. QED
        BY <1>5, <4>1, <4>2 DEF H!AddStop
    <3>4. QED
      BY <1>1, <1>5, <3>1, <3>2, <3>3 DEF H!AddStop
  <2>2. Flags
    BY <1>b, <1>5, Zenon DEF H!AddStop
  <2>3. QED
    BY <2>1, <2>2 DEF H!TypeOK, HookTexts
<1>6. ASSUME NEW i \in DOMAIN hook, H!RemoveLine(i) PROVE H!TypeOK'
  <2>1. Goal
    <3>1. hook' \in Seq(HookTexts)
      BY <1>1, <1>6, LineRemoved DEF H!RemoveLine
    <3>2. H!Mine(hook') \in Seq(Lines)
      BY <3>1, MineIsPicked
    <3>3. edits' \in 0..MaxEdits /\ hRuns' = hRuns
      BY <1>1, <1>6, EditsCounted DEF H!RemoveLine
    <3>4. QED
      BY <1>1, <1>6, <3>1, <3>2, <3>3 DEF H!RemoveLine
  <2>2. Flags
    BY <1>b, <1>6, Zenon DEF H!RemoveLine
  <2>3. QED
    BY <2>1, <2>2 DEF H!TypeOK, HookTexts
<1>7. ASSUME NEW i \in DOMAIN stops, H!RemoveStop(i) PROVE H!TypeOK'
  <2>1. Goal
    <3>1. edits' \in 0..MaxEdits /\ hRuns' = hRuns
      BY <1>1, <1>7, EditsCounted DEF H!RemoveStop
    <3>2. stops' \in Seq(SUBSET (Lines \cup {H!Notify}))
      <4>1. stops[i] \ {H!Notify} \in SUBSET (Lines \cup {H!Notify})
        BY <1>1
      <4>2. QED
        BY <1>1, <1>7, <4>1 DEF H!RemoveStop
    <3>3. QED
      BY <1>1, <1>7, <3>1, <3>2 DEF H!RemoveStop
  <2>2. Flags
    BY <1>b, <1>7, Zenon DEF H!RemoveStop
  <2>3. QED
    BY <2>1, <2>2 DEF H!TypeOK, HookTexts
<1>8. CASE H!BreakStops \/ H!MendStops
  <2>1. edits' \in 0..MaxEdits /\ hRuns' = hRuns
    BY <1>1, <1>8, EditsCounted DEF H!BreakStops, H!MendStops
  <2>2. Goal
    BY <1>1, <1>8, <2>1 DEF H!BreakStops, H!MendStops
  <2>3. Flags
    BY <1>b, <1>8, Zenon DEF H!BreakStops, H!MendStops
  <2>4. QED
    BY <2>2, <2>3 DEF H!TypeOK, HookTexts
<1>9. CASE UNCHANGED hVars
  BY <1>9 DEF hVars, H!TypeOK
<1>10. QED
  BY <1>2, <1>3, <1>4, <1>5, <1>6, <1>7, <1>8, <1>9 DEF H!Next

LEMMA HookStep ==
  ASSUME H!TypeOK, H!OneBlock, ~broken => H!Mine(hook) = mine, [H!Next]_hVars
  PROVE  H!OneBlock' /\ (~broken' => H!Mine(hook') = mine')
<1>1. hook \in Seq(HookTexts) /\ mine \in Seq(Lines)
  BY DEF H!TypeOK, HookTexts
<1>2. HookShape
  BY ShapeIsBlock
<1>3. SUFFICES HookShape' /\ (~broken' => H!Mine(hook') = mine')
  BY ShapeIsBlockThen
<1>4. CASE H!InstallGit
  <2>1. hook' = H!Upserted(hook) /\ mine' = mine /\ broken' = broken
    BY <1>4 DEF H!InstallGit
  <2>2. CASE broken
    BY <2>1, <2>2 DEF HookShape
  <2>3. CASE ~broken
    <3>1. Shaped(hook)
      BY <1>2, <2>3 DEF HookShape
    <3>2. H!Mine(hook') = H!Mine(hook) /\ \E k \in DOMAIN hook' : WholeIn(hook', k)
      BY <1>1, <2>1, <3>1, InstalledBlock
    <3>3. hook' \in Seq(HookTexts)
      BY <1>1, <2>1, <3>1, InstalledBlock
    <3>4. Shaped(hook')
      BY <3>2, <3>3, WholeIsOpen
    <3>5. QED
      BY <2>1, <2>3, <3>2, <3>4 DEF HookShape
  <2>4. QED
    BY <2>2, <2>3
<1>5. ASSUME NEW line \in Lines, H!WriteLine(line)
      PROVE  HookShape' /\ (~broken' => H!Mine(hook') = mine')
  <2>1. mine' = H!Mine(hook') /\ broken' = broken
    BY <1>5 DEF H!WriteLine
  <2>2. ASSUME NEW i \in 0..Len(hook), hook' = H!With(hook, i, line),
               installed' = IF i + 1 \in H!Between(hook') THEN installed \ {"git"} ELSE installed
        PROVE  HookShape'
    <3>1. CASE broken
      BY <2>1, <3>1 DEF HookShape
    <3>2. CASE ~broken
      <4>1. Shaped(hook')
        BY <1>1, <1>2, <2>2, <3>2, WrittenBlock DEF HookShape
      <4>2. ASSUME "git" \in installed' PROVE \E k \in DOMAIN hook' : WholeIn(hook', k)
        <5>1. i + 1 \notin H!Between(hook') /\ "git" \in installed
          BY <2>2, <4>2
        <5>2. PICK k \in DOMAIN hook : WholeIn(hook, k)
          BY <1>2, <3>2, <5>1 DEF HookShape
        <5>3. QED
          BY <1>1, <2>2, <5>1, <5>2, WrittenBlock
      <4>3. QED
        BY <4>1, <4>2 DEF HookShape
    <3>3. QED
      BY <3>1, <3>2
  <2>3. CASE hook = <<>> /\ hook' = <<"shebang", line>> /\ installed' = installed
    <3>1. Shaped(hook')
      BY <2>3, FirstLineWritten DEF Shaped
    <3>2. ~broken => "git" \notin installed
      <4>1. \A k \in DOMAIN hook : FALSE
        BY <2>3
      <4>2. QED
        BY <1>2, <4>1 DEF HookShape
    <3>3. QED
      BY <2>1, <2>3, <3>1, <3>2 DEF HookShape
  <2>4. QED
    BY <1>5, <2>1, <2>2, <2>3 DEF H!WriteLine
<1>6. ASSUME NEW i \in DOMAIN hook, H!RemoveLine(i)
      PROVE  HookShape' /\ (~broken' => H!Mine(hook') = mine')
  <2>1. /\ hook' = H!Without(hook, i) /\ mine' = H!Mine(hook')
        /\ installed' = installed \ {"git"}
    BY <1>6 DEF H!RemoveLine
  <2>2. ASSUME ~broken' PROVE Shaped(hook')
    <3>1. ~broken /\ hook[i] \notin {"start", "end"}
      BY <1>6, <2>2 DEF H!RemoveLine
    <3>2. Shaped(hook)
      BY <1>2, <3>1 DEF HookShape
    <3>3. QED
      BY <1>1, <2>1, <3>1, <3>2, RemovedBlock
  <2>3. QED
    BY <2>1, <2>2 DEF HookShape
<1>7. CASE UNCHANGED <<hook, mine, broken>> /\ ("git" \in installed' => "git" \in installed)
  BY <1>2, <1>7 DEF HookShape
<1>8. ASSUME H!InstallClaude \/ H!BreakStops \/ H!MendStops
             \/ (\E line \in Lines, beside \in BOOLEAN : H!AddStop(line, beside))
             \/ (\E i \in DOMAIN stops : H!RemoveStop(i))
      PROVE  HookShape' /\ (~broken' => H!Mine(hook') = mine')
  <2>1. UNCHANGED <<hook, mine, broken>> /\ ("git" \in installed' => "git" \in installed)
    BY <1>8 DEF H!InstallClaude, H!BreakStops, H!MendStops, H!AddStop, H!RemoveStop
  <2>2. QED
    BY <1>7, <2>1
<1>9. CASE UNCHANGED hVars
  BY <1>7, <1>9 DEF hVars
<1>10. QED
  <2>1. \/ H!InstallGit \/ UNCHANGED hVars
        \/ \E line \in Lines : H!WriteLine(line)
        \/ \E i \in DOMAIN hook : H!RemoveLine(i)
        \/ H!InstallClaude \/ H!BreakStops \/ H!MendStops
        \/ \E line \in Lines, beside \in BOOLEAN : H!AddStop(line, beside)
        \/ \E i \in DOMAIN stops : H!RemoveStop(i)
    BY DEF H!Next
  <2>2. QED
    <3>1. CASE \/ H!InstallClaude \/ H!BreakStops \/ H!MendStops
               \/ \E line \in Lines, beside \in BOOLEAN : H!AddStop(line, beside)
               \/ \E i \in DOMAIN stops : H!RemoveStop(i)
      BY ONLY <1>8, <3>1, Zenon
    <3>2. CASE \E line \in Lines : H!WriteLine(line)
      BY ONLY <1>5, <3>2, Zenon
    <3>3. CASE \E i \in DOMAIN hook : H!RemoveLine(i)
      BY ONLY <1>6, <3>3, Zenon
    <3>4. QED
      BY ONLY <1>4, <1>9, <2>1, <3>1, <3>2, <3>3, Zenon

\* The Stop hooks of a user, beside the installer's.
StopsStay ==
  \A line \in Lines : (\E i \in DOMAIN stops : line \in stops[i])
                        <=> \E i \in DOMAIN others : others[i] = line

LEMMA StopStep ==
  ASSUME H!TypeOK, H!OneStop, StopsStay, [H!Next]_hVars
  PROVE  H!OneStop' /\ StopsStay'
<1>1. stops \in Seq(SUBSET (Lines \cup {H!Notify})) /\ others \in Seq(Lines)
  BY DEF H!TypeOK
<1>2. H!Notify \notin Lines
  BY LinesAreUsers DEF H!Notify
<1> DEFINE m == Len(stops)
           n == Len(others)
<1>3. m \in Nat /\ DOMAIN stops = 1..m /\ n \in Nat /\ DOMAIN others = 1..n
  BY <1>1
<1>4. CASE H!InstallClaude
  <2>1. others' = others
    BY <1>4 DEF H!InstallClaude
  <2>2. CASE \E i \in DOMAIN stops : H!Notify \in stops[i]
    <3>1. stops' = stops
      BY <1>4, <2>2 DEF H!InstallClaude
    <3>2. QED
      BY <2>1, <2>2, <3>1 DEF H!OneStop, StopsStay
  <2>3. CASE ~\E i \in DOMAIN stops : H!Notify \in stops[i]
    <3>1. stops' = Append(stops, {H!Notify})
      BY <1>4, <2>3 DEF H!InstallClaude
    <3>2. {H!Notify} \in SUBSET (Lines \cup {H!Notify})
      OBVIOUS
    <3>3. /\ DOMAIN stops' = 1..(m + 1) /\ stops'[m + 1] = {H!Notify}
          /\ \A i \in 1..m : stops'[i] = stops[i]
      BY <1>1, <1>3, <3>1, <3>2, AppendProperties
    <3> HIDE DEF m, n
    <3>4. (\A i \in 1..(m + 1) : i \in 1..m \/ i = m + 1) /\ \A i \in 1..m : i \in 1..(m + 1)
      BY <1>3
    <3>5. m + 1 \in 1..(m + 1)
      BY <1>3
    <3>6. H!OneStop'
      BY <1>3, <2>3, <3>3, <3>4, <3>5 DEF H!OneStop
    <3>7. \A line \in Lines :
            (\E i \in DOMAIN stops' : line \in stops'[i]) <=> \E i \in DOMAIN stops : line \in stops[i]
      BY <1>2, <1>3, <3>3, <3>4
    <3>8. QED
      BY <2>1, <3>6, <3>7 DEF StopsStay
  <2>4. QED
    BY <2>2, <2>3
<1>5. ASSUME NEW line \in Lines, NEW beside \in BOOLEAN, H!AddStop(line, beside)
      PROVE  H!OneStop' /\ StopsStay'
  <2>1. others' = Append(others, line) /\ installed' = installed
    BY <1>5 DEF H!AddStop
  <2>2. /\ DOMAIN others' = 1..(n + 1) /\ others'[n + 1] = line
        /\ \A i \in 1..n : others'[i] = others[i]
    BY <1>1, <1>3, <2>1, AppendProperties
  <2>3. \A l \in Lines : (\E i \in DOMAIN others' : others'[i] = l)
                           <=> (l = line \/ \E i \in DOMAIN others : others[i] = l)
    <3> HIDE DEF n, m
    <3>1. (\A i \in 1..(n + 1) : i \in 1..n \/ i = n + 1) /\ (\A i \in 1..n : i \in 1..(n + 1))
          /\ n + 1 \in 1..(n + 1)
      BY <1>3
    <3>2. QED
      BY <1>3, <2>2, <3>1
  <2>4. CASE stops' = Append(stops, {line})
    <3>1. {line} \in SUBSET (Lines \cup {H!Notify})
      OBVIOUS
    <3>2. /\ DOMAIN stops' = 1..(m + 1) /\ stops'[m + 1] = {line}
          /\ \A i \in 1..m : stops'[i] = stops[i]
      BY <1>1, <1>3, <2>4, <3>1, AppendProperties
    <3> HIDE DEF m, n
    <3>3. (\A i \in 1..(m + 1) : i \in 1..m \/ i = m + 1) /\ (\A i \in 1..m : i \in 1..(m + 1))
          /\ m + 1 \in 1..(m + 1)
      BY <1>3
    <3>4. H!OneStop'
      BY <1>2, <1>3, <2>1, <3>2, <3>3 DEF H!OneStop
    <3>5. \A l \in Lines :
            (\E i \in DOMAIN stops' : l \in stops'[i])
              <=> (l = line \/ \E i \in DOMAIN stops : l \in stops[i])
      BY <1>3, <3>2, <3>3
    <3>6. QED
      BY <2>3, <3>4, <3>5 DEF StopsStay
  <2>5. ASSUME NEW i \in DOMAIN stops, H!Notify \in stops[i],
               stops' = [stops EXCEPT ![i] = @ \cup {line}]
        PROVE  H!OneStop' /\ StopsStay'
    <3>1. /\ DOMAIN stops' = DOMAIN stops /\ stops'[i] = stops[i] \cup {line}
          /\ \A j \in DOMAIN stops : j # i => stops'[j] = stops[j]
      BY <1>1, <2>5
    <3>2. \A j \in DOMAIN stops : H!Notify \in stops'[j] <=> H!Notify \in stops[j]
      BY <1>2, <3>1
    <3>3. H!OneStop'
      BY <2>1, <3>1, <3>2 DEF H!OneStop
    <3>4. \A l \in Lines :
            (\E j \in DOMAIN stops' : l \in stops'[j])
              <=> (l = line \/ \E j \in DOMAIN stops : l \in stops[j])
      BY <3>1
    <3>5. QED
      BY <2>3, <3>3, <3>4 DEF StopsStay
  <2>6. QED
    BY <1>5, <2>4, <2>5 DEF H!AddStop
<1>6. ASSUME NEW i \in DOMAIN stops, H!RemoveStop(i)
      PROVE  H!OneStop' /\ StopsStay'
  <2>1. /\ stops' = [stops EXCEPT ![i] = @ \ {H!Notify}] /\ others' = others
        /\ installed' = installed \ {"claude"}
    BY <1>6 DEF H!RemoveStop
  <2>2. /\ DOMAIN stops' = DOMAIN stops /\ stops'[i] = stops[i] \ {H!Notify}
        /\ \A j \in DOMAIN stops : j # i => stops'[j] = stops[j]
    BY <1>1, <2>1
  <2>3. H!OneStop'
    BY <2>1, <2>2 DEF H!OneStop
  <2>4. \A l \in Lines :
          (\E j \in DOMAIN stops' : l \in stops'[j]) <=> \E j \in DOMAIN stops : l \in stops[j]
    BY <1>2, <2>2
  <2>5. QED
    BY <2>1, <2>3, <2>4 DEF StopsStay
<1>7. CASE UNCHANGED <<stops, others>> /\ ("claude" \in installed' => "claude" \in installed)
  BY <1>7 DEF H!OneStop, StopsStay
<1>8. ASSUME H!InstallGit \/ H!BreakStops \/ H!MendStops
             \/ (\E line \in Lines : H!WriteLine(line)) \/ (\E i \in DOMAIN hook : H!RemoveLine(i))
      PROVE  H!OneStop' /\ StopsStay'
  <2>1. UNCHANGED <<stops, others>> /\ ("claude" \in installed' => "claude" \in installed)
    BY <1>8 DEF H!InstallGit, H!BreakStops, H!MendStops, H!WriteLine, H!RemoveLine
  <2>2. QED
    BY <1>7, <2>1
<1>9. CASE UNCHANGED hVars
  BY <1>7, <1>9 DEF hVars
<1>10. QED
  BY <1>4, <1>5, <1>6, <1>8, <1>9 DEF H!Next

LEMMA HooksBegin ==
  ASSUME H!Init
  PROVE  H!HooksInvariant
<1>2. hook \in Seq(HookTexts) /\ \A i \in DOMAIN hook : hook[i] = "shebang"
  <2>1. hook = <<>> \/ hook = <<"shebang">>
    BY DEF H!Init
  <2>2. <<>> \in Seq(HookTexts) /\ <<"shebang">> \in Seq(HookTexts)
    BY DEF HookTexts
  <2>3. \A i \in DOMAIN <<"shebang">> : <<"shebang">>[i] = "shebang"
    OBVIOUS
  <2>a. \A i \in DOMAIN <<>> : <<>>[i] = "shebang"
    OBVIOUS
  <2>4. QED
    <3>1. CASE hook = <<>>
      BY ONLY <3>1, <2>2, <2>a
    <3>2. CASE hook = <<"shebang">>
      BY ONLY <3>2, <2>2, <2>3
    <3>3. QED
      BY <2>1, <3>1, <3>2
<1>1. H!TypeOK
  <2>1. slip \in BOOLEAN /\ broken \in BOOLEAN
    BY Zenon DEF H!Init
  <2>2. 0 \in 0..MaxEdits /\ 0 \in 0..MaxInstalls
    BY ClientBounds
  <2>3. hook \in Seq({"shebang", "start", "notify", "end"} \cup Lines)
    BY <1>2 DEF HookTexts
  <2>4. QED
    BY <2>1, <2>2, <2>3 DEF H!Init, H!TypeOK
<1>3. H!Mine(hook) = mine
  <2>1. \A i \in DOMAIN hook : hook[i] \notin Lines
    BY <1>2, LinesAreUsers
  <2>2. H!Mine(hook) = <<>>
    BY <1>2, <2>1, NoUserLines
  <2>3. QED
    BY <2>2 DEF H!Init
<1>4. H!UsersLinesStay
  BY <1>3 DEF H!Init, H!UsersLinesStay
<1>5. H!OneBlock
  <2>1. NoneIn(hook)
    BY <1>2 DEF NoneIn, H!At
  <2>2. HookShape
    BY <2>1 DEF HookShape, Shaped, H!Init
  <2>3. QED
    BY <2>2, ShapeIsBlock
<1>6. H!OneStop
  BY DEF H!Init, H!OneStop
<1>7. QED
  BY <1>1, <1>4, <1>5, <1>6 DEF H!HooksInvariant

LEMMA HooksStay ==
  ASSUME H!HooksInvariant, [H!Next]_hVars
  PROVE  H!HooksInvariant'
<1>1. /\ H!TypeOK /\ H!OneBlock /\ H!OneStop /\ StopsStay
      /\ ~broken => H!Mine(hook) = mine
  BY DEF H!HooksInvariant, H!UsersLinesStay, StopsStay
<1>2. H!TypeOK'
  BY <1>1, HooksTyped
<1>3. H!OneBlock' /\ (~broken' => H!Mine(hook') = mine')
  BY <1>1, HookStep
<1>4. H!OneStop' /\ StopsStay'
  BY <1>1, StopStep
<1>5. QED
  BY <1>2, <1>3, <1>4 DEF H!HooksInvariant, H!UsersLinesStay, StopsStay

\* The user's lines outside a whole block are all the user's lines: those that post are counted
\* among them, and one that ends the hook is one of them.
LEMMA LinesCounted ==
  ASSUME NEW s \in Seq(HookTexts), NEW k \in DOMAIN s, WholeIn(s, k)
  PROVE  /\ k + 1 \in DOMAIN s /\ \A i \in DOMAIN s : s[i] = "notify" <=> i = k + 1
         /\ IsFiniteSet({i \in DOMAIN s : s[i] = Manual})
         /\ Cardinality({i \in DOMAIN s : s[i] = Manual})
              = H!Cardinality({i \in DOMAIN H!Mine(s) : H!Mine(s)[i] = Manual})
         /\ (\A i \in DOMAIN H!Mine(s) : H!Mine(s)[i] # Exit) => \A i \in DOMAIN s : s[i] # Exit
<1> DEFINE S == H!Users(s)
           p == Picked(s, S)
           J == {i \in DOMAIN p : p[i] = Manual}
           M == {i \in DOMAIN s : s[i] = Manual}
           f == [j \in J |-> Nth(S, j)]
<1>1. S \in SUBSET DOMAIN s /\ H!Mine(s) = p
  BY MineIsPicked
<1>2. M \in SUBSET S /\ \A i \in DOMAIN s : s[i] \in Lines => i \in S
  <2>1. k \in Nat /\ H!At(s, "start") = {k} /\ H!At(s, "end") = {k + 2} /\ s[k + 1] = "notify"
    BY DEF WholeIn, H!At
  <2>2. \A i \in DOMAIN s : i \in S <=> s[i] \in Lines /\ ~(k < i /\ i < k + 2)
    <3>1. k + 2 \in Nat
      BY <2>1
    <3>2. QED
      BY <2>1, <3>1, BetweenMarkers
  <2>3. \A i \in DOMAIN s : k < i /\ i < k + 2 => i = k + 1
    BY <2>1
  <2>4. "notify" \notin Lines /\ Manual \in Lines
    BY LinesAreUsers
  <2> HIDE DEF S
  <2>5. QED
    BY <2>1, <2>2, <2>3, <2>4
<1>3. k + 1 \in DOMAIN s /\ \A i \in DOMAIN s : s[i] = "notify" <=> i = k + 1
  BY DEF WholeIn, H!At
<1>5. M \in SUBSET DOMAIN s
  OBVIOUS
<1>6. \A i \in DOMAIN s : i \in M <=> s[i] = Manual
  OBVIOUS
<1> HIDE DEF S, M
<1>7. /\ Cardinality(S) \in Nat /\ p \in Seq(HookTexts) /\ Len(p) = Cardinality(S)
      /\ \A j \in 1..Cardinality(S) : Nth(S, j) \in S /\ p[j] = s[Nth(S, j)]
      /\ \A i \in S : \E j \in 1..Cardinality(S) : Nth(S, j) = i
      /\ \A j, l \in 1..Cardinality(S) : j < l => Nth(S, j) < Nth(S, l)
  BY <1>1, PickedInOrder
<1>8. J \in SUBSET (1..Cardinality(S)) /\ \A j \in 1..Cardinality(S) : j \in J <=> p[j] = Manual
  BY <1>7
<1> HIDE DEF p, J
<1>9. f \in [J -> M] /\ \A j \in J : f[j] = Nth(S, j)
  BY <1>1, <1>6, <1>7, <1>8
<1>10. \A i \in M : \E j \in J : f[j] = i
  <2> TAKE i \in M
  <2>1. PICK j \in 1..Cardinality(S) : Nth(S, j) = i
    BY <1>2, <1>7
  <2>2. p[j] = Manual
    BY <1>5, <1>6, <1>7, <2>1
  <2>3. QED
    BY <1>8, <1>9, <2>1, <2>2
<1>11. \A j, l \in J : f[j] = f[l] => j = l
  <2> TAKE j, l \in J
  <2> HAVE f[j] = f[l]
  <2>1. j \in 1..Cardinality(S) /\ l \in 1..Cardinality(S) /\ Nth(S, j) = Nth(S, l)
    BY <1>8, <1>9
  <2>2. Nth(S, j) \in Nat
    BY <1>1, <1>7, <2>1
  <2>3. ~(j < l) /\ ~(l < j)
    BY <1>7, <2>1, <2>2
  <2>4. QED
    BY <1>7, <2>1, <2>3
<1> HIDE DEF f
<1>12. IsFiniteSet(J)
  <2>1. J \in SUBSET DOMAIN p
    BY <1>7, <1>8
  <2>2. QED
    BY <1>7, <2>1, PlacesFinite
<1>13. IsFiniteSet(M) /\ Cardinality(M) = Cardinality(J)
  <2>1. f \in Bijection(J, M)
    BY <1>9, <1>10, <1>11, Fun_IsBij
  <2>2. ExistsBijection(J, M)
    BY <2>1 DEF ExistsBijection
  <2>3. QED
    BY <1>12, <2>2, FS_Bijection
<1>14. H!Cardinality({i \in DOMAIN H!Mine(s) : H!Mine(s)[i] = Manual}) = Cardinality(J)
  BY <1>1, HooksCount DEF J
<1>15. ASSUME \A i \in DOMAIN H!Mine(s) : H!Mine(s)[i] # Exit, NEW i \in DOMAIN s, s[i] = Exit
       PROVE  FALSE
  <2>1. i \in S
    BY <1>2, <1>15, LinesAreUsers
  <2>2. PICK j \in 1..Cardinality(S) : Nth(S, j) = i
    BY <1>7, <2>1
  <2>3. j \in DOMAIN p /\ p[j] = Exit
    BY <1>7, <1>15, <2>2
  <2>4. QED
    BY <1>1, <1>15, <2>3
<1>16. QED
  BY <1>3, <1>13, <1>14, <1>15 DEF M

LEMMA HooksSuffice ==
  ASSUME H!HooksInvariant
  PROVE  H!UsersLinesStay /\ H!NotifiesOnce
<1>1. /\ H!TypeOK /\ H!OneBlock /\ H!OneStop /\ H!UsersLinesStay
      /\ ~broken => H!Mine(hook) = mine
  BY DEF H!HooksInvariant, H!UsersLinesStay
<1>2. hook \in Seq(HookTexts)
  BY <1>1 DEF H!TypeOK, HookTexts
<1>3. ASSUME "git" \in installed, ~broken
      PROVE  LET cut == \E i, j \in DOMAIN hook : i < j /\ hook[i] = Exit /\ hook[j] = "notify"
                 wrote == H!Cardinality({i \in DOMAIN mine : mine[i] = Manual}) IN
             /\ H!Cardinality({i \in H!Posts(hook, FALSE) : hook[i] = "notify"}) = IF cut THEN 0 ELSE 1
             /\ (\A i \in DOMAIN mine : mine[i] # Exit)
                  => H!Cardinality(H!Posts(hook, FALSE)) = 1 + wrote
             /\ H!Cardinality(H!Posts(hook, TRUE)) <= wrote
  <2> DEFINE M == {i \in DOMAIN hook : hook[i] = Manual}
             N == {i \in H!Posts(hook, FALSE) : hook[i] = "notify"}
             cut == \E i, j \in DOMAIN hook : i < j /\ hook[i] = Exit /\ hook[j] = "notify"
             wrote == H!Cardinality({i \in DOMAIN mine : mine[i] = Manual})
             noExit == \A i \in DOMAIN mine : mine[i] # Exit
  <2>1. PICK k \in DOMAIN hook : WholeIn(hook, k)
    BY <1>1, <1>3, ShapeIsBlock DEF HookShape
  <2>2. H!Mine(hook) = mine
    BY <1>1, <1>3
  <2>3. /\ k + 1 \in DOMAIN hook /\ \A i \in DOMAIN hook : hook[i] = "notify" <=> i = k + 1
        /\ IsFiniteSet(M) /\ Cardinality(M) = wrote
        /\ noExit => \A i \in DOMAIN hook : hook[i] # Exit
    BY <1>2, <2>1, <2>2, LinesCounted
  <2>4. Manual # "notify"
    BY LinesAreUsers
  <2>5. N = IF cut THEN {} ELSE {k + 1}
    <3>1. \A i \in DOMAIN hook : i \in N <=> /\ i = k + 1
                                            /\ \A j \in DOMAIN hook : j < i => hook[j] # Exit
      BY <2>3 DEF H!Posts, H!Ends
    <3>2. N \in SUBSET DOMAIN hook
      BY DEF H!Posts
    <3> HIDE DEF N, M
    <3>3. QED
      BY <2>3, <3>1, <3>2
  <2>6. H!Cardinality(N) = IF cut THEN 0 ELSE 1
    <3> HIDE DEF N, cut
    <3>1. Cardinality({}) = 0 /\ Cardinality({k + 1}) = 1
      BY FS_EmptySet, FS_Singleton
    <3>2. QED
      BY <2>5, <3>1, HooksCount
  <2>7. wrote \in Nat
    BY <2>3, FS_CardinalityType
  <2>8. ASSUME noExit PROVE H!Cardinality(H!Posts(hook, FALSE)) = 1 + wrote
    <3>1. H!Posts(hook, FALSE) = M \cup {k + 1}
      BY <2>3, <2>8 DEF H!Posts, H!Ends
    <3>2. k + 1 \notin M
      BY <2>3, <2>4
    <3> HIDE DEF M, wrote
    <3>3. Cardinality(M \cup {k + 1}) = Cardinality(M) + 1
      BY <2>3, <3>2, FS_AddElement
    <3>4. Cardinality(M \cup {k + 1}) = 1 + wrote
      BY <2>3, <2>7, <3>3
    <3>5. QED
      BY <3>1, <3>4, HooksCount
  <2>9. H!Cardinality(H!Posts(hook, TRUE)) <= wrote
    <3>1. H!Posts(hook, TRUE) \subseteq M
      BY DEF H!Posts
    <3> HIDE DEF M, wrote
    <3>2. Cardinality(H!Posts(hook, TRUE)) <= Cardinality(M)
      BY <2>3, <3>1, FS_Subset
    <3>3. QED
      BY <2>3, <3>2, HooksCount
  <2>10. QED
    BY <2>6, <2>8, <2>9
<1>4. ASSUME "claude" \in installed
      PROVE  H!Cardinality({i \in DOMAIN stops : H!Notify \in stops[i]}) = 1
  <2>1. PICK i \in DOMAIN stops : H!Notify \in stops[i]
    BY <1>1, <1>4 DEF H!OneStop
  <2>2. {j \in DOMAIN stops : H!Notify \in stops[j]} = {i}
    BY <1>1, <2>1 DEF H!OneStop
  <2>3. QED
    BY <2>2, HooksCount, FS_Singleton
<1>5. QED
  BY <1>1, <1>3, <1>4 DEF H!NotifiesOnce

-----------------------------------------------------------------------------
(* The work console (src/hooks/useWorkSessions.js, useWorkRequests.js).    *)

\* What a sequence has in it, one member more or the first one less.
Members(q) == {q[k] : k \in DOMAIN q}

LEMMA OneMore ==
  ASSUME NEW S, NEW q \in Seq(S), NEW e \in S
  PROVE  Append(q, e) \in Seq(S) /\ Members(Append(q, e)) = Members(q) \cup {e}
<1>1. /\ Append(q, e) \in Seq(S) /\ Len(Append(q, e)) = Len(q) + 1 /\ Len(q) \in Nat
      /\ \A k \in 1..Len(q) : Append(q, e)[k] = q[k]
      /\ Append(q, e)[Len(q) + 1] = e
      /\ DOMAIN q = 1..Len(q) /\ DOMAIN Append(q, e) = 1..(Len(q) + 1)
  BY AppendProperties
<1>2. \A k \in 1..(Len(q) + 1) : k \in 1..Len(q) \/ k = Len(q) + 1
  BY <1>1
<1>3. 1..Len(q) \subseteq 1..(Len(q) + 1) /\ Len(q) + 1 \in 1..(Len(q) + 1)
  BY <1>1
<1>4. QED
  BY <1>1, <1>2, <1>3 DEF Members

LEMMA OneLess ==
  ASSUME NEW S, NEW q \in Seq(S), q # <<>>
  PROVE  /\ Tail(q) \in Seq(S) /\ Head(q) \in S
         /\ Members(q) = Members(Tail(q)) \cup {Head(q)}
<1>1. /\ Tail(q) \in Seq(S) /\ Head(q) \in S /\ Head(q) = q[1] /\ Len(q) \in Nat \ {0}
      /\ DOMAIN q = 1..Len(q) /\ DOMAIN Tail(q) = 1..(Len(q) - 1)
      /\ \A k \in 1..(Len(q) - 1) : Tail(q)[k] = q[k + 1]
  OBVIOUS
<1>2. \A k \in 1..Len(q) : k = 1 \/ (k - 1 \in 1..(Len(q) - 1) /\ (k - 1) + 1 = k)
  BY <1>1
<1>3. \A k \in 1..(Len(q) - 1) : k + 1 \in 1..Len(q)
  BY <1>1
<1>4. ASSUME NEW k \in DOMAIN q PROVE q[k] \in Members(Tail(q)) \cup {Head(q)}
  <2>1. CASE k = 1
    BY <1>1, <2>1
  <2>2. CASE k # 1
    <3>1. k - 1 \in DOMAIN Tail(q) /\ (k - 1) + 1 = k
      BY <1>1, <1>2, <2>2
    <3>2. Tail(q)[k - 1] = q[k]
      BY <1>1, <3>1
    <3>3. QED
      BY <3>1, <3>2 DEF Members
  <2>3. QED
    BY <2>1, <2>2
<1>5. ASSUME NEW k \in DOMAIN Tail(q) PROVE Tail(q)[k] \in Members(q)
  BY <1>1, <1>3 DEF Members
<1>6. Head(q) \in Members(q)
  BY <1>1 DEF Members
<1>7. Members(q) \subseteq Members(Tail(q)) \cup {Head(q)}
  BY <1>4 DEF Members
<1>8. Members(Tail(q)) \subseteq Members(q)
  BY <1>5 DEF Members
<1>9. QED
  BY <1>1, <1>6, <1>7, <1>8

LEMMA ToldIsMembers == K!Told = Members(kQueue) /\ K!Told' = Members(kQueue)'
BY DEF K!Told, Members

\* What the steps have in common: the server's versions grow, and what waits is told or cut.
LEMMA ConsoleChanges ==
  ASSUME K!TypeOK, K!AnswersAreOld, NEW i \in K!Items, K!Changes(i)
  PROVE  /\ server' \in [K!Items -> 0..MaxChanges] /\ server'[i] = server[i] + 1
         /\ \A j \in K!Items : server'[j] \in 0..used'.change /\ 0..server[j] \subseteq 0..server'[j]
         /\ \A j \in K!Items : server'[j] = IF j = i THEN server[j] + 1 ELSE server[j]
         /\ \A j \in K!Items : server'[j] \in Nat /\ server[j] <= server'[j] /\ server[j] \in Nat
         /\ used' = [used EXCEPT !.change = @ + 1]
         /\ used' \in [{"change", "post", "select", "socket"} -> Nat] /\ used'.change <= MaxChanges
         /\ used'.change = used.change + 1
         /\ kQueue' \in Seq(K!Items \X Nat) /\ K!Told' \subseteq K!Told \cup {<<i, server[i] + 1>>}
         /\ ~kCut' => K!Told' = K!Told \cup {<<i, server[i] + 1>>} /\ ~kCut
         /\ kCut' \in BOOLEAN
<1>1. server \in [K!Items -> 0..MaxChanges] /\ \A j \in K!Items : server[j] \in Nat
  <2>1. server \in [K!Items -> 0..MaxChanges]
    BY DEF K!TypeOK
  <2>2. QED
    BY <2>1, ClientBounds
<1>2. server' = [server EXCEPT ![i] = @ + 1]
  BY DEF K!Changes
<1>3. \A j \in K!Items : server'[j] = IF j = i THEN server[j] + 1 ELSE server[j]
  BY <1>1, <1>2
<1>4. used \in [{"change", "post", "select", "socket"} -> Nat] /\ used.change < MaxChanges
      /\ used' = [used EXCEPT !.change = @ + 1] /\ used.change \in Nat /\ MaxChanges \in Nat
  BY ClientBounds DEF K!AnswersAreOld, K!Changes
<1>5. used' \in [{"change", "post", "select", "socket"} -> Nat] /\ used'.change = used.change + 1
  BY <1>4
<1>0. \A j \in K!Items : server[j] \in 0..used.change
  BY DEF K!AnswersAreOld
<1>10. \A j \in K!Items : server'[j] \in 0..used'.change /\ 0..server[j] \subseteq 0..server'[j]
                          /\ server'[j] \in 0..MaxChanges
  BY <1>0, <1>1, <1>3, <1>4, <1>5
<1>11. server' \in [K!Items -> 0..MaxChanges] /\ server'[i] = server[i] + 1
  BY <1>1, <1>2, <1>3, <1>10
<1>6. kQueue \in Seq(K!Items \X Nat) /\ <<i, server[i] + 1>> \in K!Items \X Nat
  BY <1>1 DEF K!AnswersAreOld
<1>7. CASE kSocket
  <2>1. kQueue' = Append(kQueue, <<i, server[i] + 1>>) /\ kCut' = (kCut \/ FALSE)
    BY <1>7 DEF K!Changes
  <2>2. kQueue' \in Seq(K!Items \X Nat) /\ K!Told' = K!Told \cup {<<i, server[i] + 1>>}
    BY <1>6, <2>1, OneMore, ToldIsMembers
  <2>3. kCut' \in BOOLEAN /\ (~kCut' => ~kCut)
    BY <2>1
  <2>4. QED
    BY <1>1, <1>3, <1>4, <1>5, <1>10, <1>11, <2>2, <2>3
<1>8. CASE ~kSocket
  <2>1. kQueue' = kQueue /\ kCut' = (kCut \/ TRUE)
    BY <1>8 DEF K!Changes
  <2>2. kQueue' \in Seq(K!Items \X Nat) /\ K!Told' = K!Told
    BY <1>6, <2>1, ToldIsMembers
  <2>3. kCut' \in BOOLEAN /\ kCut'
    BY <2>1
  <2>4. QED
    BY <1>1, <1>3, <1>4, <1>5, <1>10, <1>11, <2>2, <2>3
<1>9. QED
  BY <1>7, <1>8

LEMMA ConsoleTold ==
  ASSUME K!AnswersAreOld, kQueue # <<>>, kQueue' = Tail(kQueue)
  PROVE  /\ kQueue' \in Seq(K!Items \X Nat) /\ K!Told = K!Told' \cup {Head(kQueue)}
         /\ Head(kQueue)[1] \in K!Items
         /\ Head(kQueue)[2] \in 1..server[Head(kQueue)[1]]
         /\ Head(kQueue) = <<Head(kQueue)[1], Head(kQueue)[2]>>
<1>1. kQueue \in Seq(K!Items \X Nat)
  BY DEF K!AnswersAreOld
<1>2. kQueue' \in Seq(K!Items \X Nat) /\ K!Told = K!Told' \cup {Head(kQueue)}
      /\ Head(kQueue) \in K!Items \X Nat
  BY <1>1, OneLess, ToldIsMembers
<1>3. \A e \in K!Told : e[2] \in 1..server[e[1]]
  BY DEF K!AnswersAreOld
<1>4. QED
  BY <1>2, <1>3

LEMMA ConsoleKnown ==
  ASSUME K!TypeOK, K!AnswersAreOld
  PROVE  /\ \A i \in K!Items : server[i] \in Nat /\ 0..server[i] \subseteq 0..MaxChanges
                                /\ 1..server[i] \subseteq 1..MaxChanges /\ kListed[i] \in Nat
                                /\ 1..server[i] \subseteq 0..server[i]
         /\ Sessions \subseteq K!Items
<1>1. \A i \in K!Items : server[i] \in 0..MaxChanges /\ kListed[i] \in 0..MaxChanges
  BY DEF K!TypeOK
<1>2. MaxChanges \in Nat
  BY ClientBounds
<1>3. QED
  BY <1>1, <1>2 DEF K!Items

LEMMA AppendedShows ==
  ASSUME NEW i, NEW n, NEW s \in Sessions
  PROVE  /\ s = i => K!Appended(i, n)[s] = kShown[s] \cup {n}
         /\ s # i => K!Appended(i, n)[s] = kShown[s]
BY DEF K!Appended

\* An event or an answer about a version there has been.
LEMMA ConsoleUpserts ==
  ASSUME K!TypeOK, K!AnswersAreOld, NEW i \in K!Items, NEW n \in 1..server[i],
         K!Upserted(i, n), kShown' = K!Appended(i, n)
  PROVE  /\ kListed' \in [K!Items -> 0..MaxChanges] /\ kListed'[i] = n
         /\ \A j \in K!Items : kListed'[j] \in 0..server[j] /\ (j # i => kListed'[j] = kListed[j])
         /\ stale \subseteq stale' /\ stale' \subseteq K!Items
         /\ \A j \in K!Items \ stale' : kListed[j] <= kListed'[j]
         /\ kShown' \in [Sessions -> SUBSET (1..MaxChanges)]
         /\ \A s \in Sessions : /\ kShown'[s] = K!Appended(i, n)[s]
                                 /\ kShown'[s] \subseteq 1..server[s]
<1>1. kListed \in [K!Items -> 0..MaxChanges] /\ kListed' = [kListed EXCEPT ![i] = n]
      /\ \A j \in K!Items : kListed[j] \in 0..server[j]
  BY DEF K!TypeOK, K!AnswersAreOld, K!Upserted
<1>2. n \in 0..MaxChanges /\ n \in 1..MaxChanges /\ n \in 0..server[i] /\ n \in Nat
  BY ConsoleKnown, ClientBounds
<1>3. /\ kListed' \in [K!Items -> 0..MaxChanges] /\ kListed'[i] = n
      /\ \A j \in K!Items : kListed'[j] \in 0..server[j] /\ (j # i => kListed'[j] = kListed[j])
  BY <1>1, <1>2
<1>4. stale' = (IF n < kListed[i] THEN stale \cup {i} ELSE stale) /\ stale \subseteq K!Items
  BY DEF K!TypeOK, K!Upserted
<1>5. ASSUME NEW j \in K!Items \ stale' PROVE kListed[j] <= kListed'[j]
  <2>1. kListed[j] \in Nat /\ (j # i => kListed'[j] = kListed[j])
    BY <1>3, ConsoleKnown
  <2>2. j = i => ~ (n < kListed[i])
    BY <1>4
  <2>3. QED
    BY <1>2, <1>3, <2>1, <2>2
<1>6. stale \subseteq stale' /\ stale' \subseteq K!Items
  BY <1>4
<1>7. kShown \in [Sessions -> SUBSET (1..MaxChanges)] /\ \A s \in Sessions : kShown[s] \subseteq 1..server[s]
  BY DEF K!TypeOK, K!AnswersAreOld
<1>8. ASSUME NEW s \in Sessions
      PROVE  K!Appended(i, n)[s] \in SUBSET (1..MaxChanges) /\ K!Appended(i, n)[s] \subseteq 1..server[s]
  BY <1>2, <1>7, AppendedShows
<1>9. DOMAIN K!Appended(i, n) = Sessions /\ K!Appended(i, n) = [s \in Sessions |-> K!Appended(i, n)[s]]
  BY DEF K!Appended
<1>10. /\ kShown' \in [Sessions -> SUBSET (1..MaxChanges)]
       /\ \A s \in Sessions : /\ kShown'[s] = K!Appended(i, n)[s]
                               /\ kShown'[s] \subseteq 1..server[s]
  BY <1>8, <1>9
<1>11. QED
  BY <1>3, <1>5, <1>6, <1>10

\* What each step leaves of the other parts of the type.
LEMMA ConsoleTyped ==
  ASSUME K!ConsoleInvariant, K!Next
  PROVE  K!TypeOK'
<1> DEFINE Data == /\ server' \in [K!Items -> 0..MaxChanges]
                   /\ kShown' \in [Sessions -> SUBSET (1..MaxChanges)]
                   /\ kListed' \in [K!Items -> 0..MaxChanges] /\ stale' \subseteq K!Items
           Choice == /\ selected' \in Sessions \cup {None} /\ own' \in Sessions \cup {None}
                     /\ kHandler' \in Sessions \cup {None}
           Rest == /\ enabled' \in BOOLEAN \cup {None} /\ early' \in BOOLEAN /\ kCut' \in BOOLEAN
                   /\ panels' \in {{}, {"console"}, {"requests"}}
<1>0. K!TypeOK /\ K!AnswersAreOld
  BY DEF K!ConsoleInvariant
<1>1. /\ server \in [K!Items -> 0..MaxChanges] /\ kShown \in [Sessions -> SUBSET (1..MaxChanges)]
      /\ kListed \in [K!Items -> 0..MaxChanges] /\ stale \subseteq K!Items
      /\ selected \in Sessions \cup {None} /\ own \in Sessions \cup {None}
      /\ kHandler \in Sessions \cup {None} /\ enabled \in BOOLEAN \cup {None} /\ early \in BOOLEAN
      /\ kCut \in BOOLEAN /\ panels \in {{}, {"console"}, {"requests"}}
  BY <1>0 DEF K!TypeOK
<1> DEFINE Cs == /\ UNCHANGED <<kShown, kListed, stale, selected, own, kHandler, early, enabled, panels>>
                 /\ \E i \in K!Items : K!Changes(i)
<1>2. Cs => Data /\ Choice /\ Rest
  BY <1>0, <1>1, ConsoleChanges
<1>3. ASSUME K!OnEvent PROVE Data /\ Choice /\ Rest
  <2> DEFINE i == Head(kQueue)[1]
             n == Head(kQueue)[2]
  <2>1. i \in K!Items /\ n \in 1..server[i] /\ K!Upserted(i, n) /\ kShown' = K!Appended(i, n)
    BY <1>0, <1>3, ConsoleTold DEF K!OnEvent
  <2>2. UNCHANGED <<server, kHandler, early, enabled, panels, kCut>>
    BY <1>3 DEF K!OnEvent, K!window
  <2>3. selected' \in Sessions \cup {None} /\ own' \in Sessions \cup {None}
    <3>1. CASE i \in Sessions /\ n = 1 /\ kHandler = None
      BY <1>1, <1>3, <3>1 DEF K!OnEvent
    <3>2. CASE ~ (i \in Sessions /\ n = 1 /\ kHandler = None)
      BY <1>1, <1>3, <3>2 DEF K!OnEvent, K!choice
    <3>3. QED
      BY <3>1, <3>2
  <2> HIDE DEF i, n
  <2>4. Data
    BY <1>0, <1>1, <2>1, <2>2, ConsoleUpserts
  <2>5. QED
    BY <1>1, <2>2, <2>3, <2>4
<1>4. ASSUME NEW p \in posts, K!Answered(p) PROVE Data /\ Choice /\ Rest
  <2>1. /\ p.item \in K!Items /\ p.answer \in 1..server[p.item]
        /\ K!Upserted(p.item, p.answer) /\ kShown' = K!Appended(p.item, p.answer)
    BY <1>0, <1>4 DEF K!Answered, K!AnswersAreOld
  <2>2. UNCHANGED <<server, kHandler, early, enabled, panels, kCut>>
    BY <1>4 DEF K!Answered, K!window, K!link
  <2>3. selected' \in Sessions \cup {None} /\ own' \in Sessions \cup {None}
    <3>1. CASE p.new /\ p.item \in Sessions
      BY <1>4, <3>1 DEF K!Answered, K!Selects
    <3>2. CASE ~ (p.new /\ p.item \in Sessions)
      BY <1>1, <1>4, <3>2 DEF K!Answered, K!choice
    <3>3. QED
      BY <3>1, <3>2
  <2>4. Data
    BY <1>0, <1>1, <2>1, <2>2, ConsoleUpserts
  <2>5. QED
    BY <1>1, <2>2, <2>3, <2>4
<1>5. ASSUME K!DetailArrives PROVE Data /\ Choice /\ Rest
  <2>1. /\ selected \in Sessions /\ detail \in 0..server[selected]
        /\ kListed' = [kListed EXCEPT ![selected] = detail]
        /\ kShown' = [kShown EXCEPT ![selected] = 1..detail]
        /\ stale' \in {stale, stale \cup {selected}}
    BY <1>0, <1>5 DEF K!DetailArrives, K!AnswersAreOld
  <2>2. UNCHANGED <<server, selected, own, kHandler, early, enabled, panels, kCut>>
    BY <1>5 DEF K!DetailArrives, K!window, K!link, K!choice
  <2>3. detail \in 0..MaxChanges /\ 1..detail \subseteq 1..MaxChanges /\ selected \in K!Items
    <3>1. selected \in K!Items /\ detail \in 0..MaxChanges
      BY <1>0, <2>1, ConsoleKnown
    <3>2. QED
      BY <3>1, ClientBounds
  <2>4. kListed' \in [K!Items -> 0..MaxChanges] /\ kShown' \in [Sessions -> SUBSET (1..MaxChanges)]
    BY <1>1, <2>1, <2>3
  <2>5. QED
    BY <1>1, <2>1, <2>2, <2>3, <2>4
<1>6. ASSUME NEW k \in {"sessions", "tasks"}, K!ListArrives(k) PROVE Data /\ Choice /\ Rest
  <2>1. /\ \A i \in K!Kinds[k] : lists[k][i] \in 0..server[i]
        /\ kListed' = [i \in K!Items |-> IF i \in K!Kinds[k] THEN lists[k][i] ELSE kListed[i]]
        /\ stale' = stale \cup {i \in K!Kinds[k] : lists[k][i] < kListed[i]}
    BY <1>0, <1>6 DEF K!ListArrives, K!AnswersAreOld
  <2>2. UNCHANGED <<server, kShown, selected, own, kHandler, early, enabled, panels, kCut>>
    BY <1>6 DEF K!ListArrives, K!window, K!link, K!choice
  <2>3. K!Kinds[k] \subseteq K!Items
    BY DEF K!Kinds, K!Items
  <2>4. \A i \in K!Kinds[k] : lists[k][i] \in 0..MaxChanges
    BY <1>0, <2>1, <2>3, ConsoleKnown
  <2>5. kListed' \in [K!Items -> 0..MaxChanges]
    BY <1>1, <2>1, <2>4
  <2>6. QED
    BY <1>1, <2>1, <2>2, <2>3, <2>5
<1>7. ASSUME NEW s \in Sessions, K!Select(s) \/ K!SelectsFirst(s) PROVE Data /\ Choice /\ Rest
  BY <1>1, <1>7 DEF K!Select, K!SelectsFirst, K!Selects, K!screen, K!link, K!window
<1>8. ASSUME K!Connects PROVE Data /\ Choice /\ Rest
  BY <1>1, <1>8 DEF K!Connects, K!screen, K!choice, K!window
<1>9. ASSUME NEW e \in BOOLEAN, K!Health(e) PROVE Data /\ Choice /\ Rest
  BY <1>1, <1>9 DEF K!Health, K!screen, K!choice, K!link
<1>10. ASSUME NEW p, K!Toggle(p), p \in {"console", "requests"} PROVE Data /\ Choice /\ Rest
  BY <1>1, <1>10 DEF K!Toggle, K!screen, K!choice, K!link
<1>11. ASSUME K!Closes PROVE Data /\ Choice /\ Rest
  <2>1. kCut' \in BOOLEAN /\ UNCHANGED <<server, kShown, kListed, stale, selected, own, kHandler, early, enabled, panels>>
    BY <1>1, <1>11 DEF K!Closes, K!screen, K!choice, K!window
  <2>2. QED
    BY <1>1, <2>1
<1>12. ASSUME K!Fails PROVE Data /\ Choice /\ Rest
  <2>1. UNCHANGED <<server, kShown, kListed, stale, selected, own, kHandler, early, panels>> /\ kCut' = TRUE
    BY <1>12 DEF K!Fails, K!screen, K!choice, K!link
  <2>2. enabled' \in {enabled, FALSE}
    BY <1>12 DEF K!Fails
  <2>3. QED
    BY <1>1, <2>1, <2>2
<1>13. ASSUME \/ K!ReadsDetail \/ \E k \in {"sessions", "tasks"} : K!ReadsList(k)
              \/ \E i \in K!Items : K!Post(i)
       PROVE  Data /\ Choice /\ Rest
  <2>1. UNCHANGED <<server, kShown, kListed, stale, selected, own, kHandler, early, enabled, panels, kCut>>
    BY <1>13 DEF K!ReadsDetail, K!ReadsList, K!Post, K!screen, K!choice, K!link, K!window
  <2>2. QED
    BY <1>1, <2>1
<1>14. ASSUME (\E i \in K!Items : K!Elsewhere(i)) \/ (\E p \in posts : K!Handled(p)) PROVE Cs
  <2>1. CASE \E i \in K!Items : K!Elsewhere(i)
    <3>1. PICK i \in K!Items : K!Elsewhere(i)
      BY <2>1
    <3>2. QED
      BY <3>1 DEF K!Elsewhere, K!screen, K!choice, K!window
  <2>2. CASE \E p \in posts : K!Handled(p)
    <3>1. PICK p \in posts : K!Handled(p)
      BY <2>2
    <3>2. p.item \in K!Items
      BY <1>0, <3>1 DEF K!AnswersAreOld
    <3>3. QED
      BY <3>1, <3>2 DEF K!Handled, K!screen, K!choice, K!window
  <2>3. QED
    BY <1>14, <2>1, <2>2
<1> HIDE DEF Data, Choice, Rest, Cs
<1>15. Data /\ Choice /\ Rest
  <2>1. CASE \E i \in K!Items : K!Elsewhere(i) \/ K!Post(i)
    <3>1. PICK i \in K!Items : K!Elsewhere(i) \/ K!Post(i)
      BY <2>1
    <3>2. CASE K!Elsewhere(i)
      BY <1>2, <1>14, <3>2
    <3>3. CASE K!Post(i)
      BY <1>13, <3>3
    <3>4. QED
      BY <3>1, <3>2, <3>3
  <2>2. CASE \E s \in Sessions : K!Select(s) \/ K!SelectsFirst(s)
    BY <1>7, <2>2
  <2>3. CASE \E k \in {"sessions", "tasks"} : K!ReadsList(k) \/ K!ListArrives(k)
    <3>1. PICK k \in {"sessions", "tasks"} : K!ReadsList(k) \/ K!ListArrives(k)
      BY <2>3
    <3>2. CASE K!ListArrives(k)
      BY <1>6, <3>2
    <3>3. CASE K!ReadsList(k)
      BY <1>13, <3>3
    <3>4. QED
      BY <3>1, <3>2, <3>3
  <2>4. CASE \E p \in posts : K!Handled(p) \/ K!Answered(p)
    <3>1. PICK p \in posts : K!Handled(p) \/ K!Answered(p)
      BY <2>4
    <3>2. CASE K!Answered(p)
      BY <1>4, <3>2
    <3>3. CASE K!Handled(p)
      BY <1>2, <1>14, <3>3
    <3>4. QED
      BY <3>1, <3>2, <3>3
  <2>5. CASE \E e \in BOOLEAN : K!Health(e)
    BY <1>9, <2>5
  <2>6. CASE \E p \in {"console", "requests"} : K!Toggle(p)
    BY <1>10, <2>6
  <2>7. CASE K!Connects \/ K!Closes \/ K!OnEvent \/ K!ReadsDetail \/ K!DetailArrives \/ K!Fails
    BY <1>3, <1>5, <1>8, <1>11, <1>12, <1>13, <2>7
  <2>8. QED
    BY <2>1, <2>2, <2>3, <2>4, <2>5, <2>6, <2>7 DEF K!Next
<1>16. QED
  BY <1>15 DEF Data, Choice, Rest, K!TypeOK

\* The actions, one by one.
ConsoleActions ==
  \/ \E i \in K!Items : K!Elsewhere(i)
  \/ \E i \in K!Items : K!Post(i)
  \/ \E s \in Sessions : K!Select(s)
  \/ \E s \in Sessions : K!SelectsFirst(s)
  \/ \E k \in {"sessions", "tasks"} : K!ReadsList(k)
  \/ \E k \in {"sessions", "tasks"} : K!ListArrives(k)
  \/ \E p \in posts : K!Handled(p)
  \/ \E p \in posts : K!Answered(p)
  \/ \E e \in BOOLEAN : K!Health(e)
  \/ \E p \in {"console", "requests"} : K!Toggle(p)
  \/ K!Connects \/ K!Closes \/ K!OnEvent \/ K!ReadsDetail \/ K!DetailArrives \/ K!Fails

LEMMA ConsoleActs == K!Next => ConsoleActions
BY DEF K!Next, ConsoleActions

\* Only a change changes what the server has, which grows.
LEMMA ConsoleServer ==
  ASSUME K!TypeOK, K!AnswersAreOld, K!Next
  PROVE  /\ used' \in [{"change", "post", "select", "socket"} -> Nat] /\ used'.change <= MaxChanges
         /\ \A i \in K!Items : /\ server'[i] \in 0..used'.change
                               /\ 0..server[i] \subseteq 0..server'[i]
                               /\ 1..server[i] \subseteq 1..server'[i]
<1>1. used \in [{"change", "post", "select", "socket"} -> Nat] /\ used.change <= MaxChanges
      /\ \A i \in K!Items : server[i] \in 0..used.change
  BY DEF K!AnswersAreOld
<1>2. ASSUME NEW i \in K!Items, K!Changes(i)
      PROVE  /\ used' \in [{"change", "post", "select", "socket"} -> Nat] /\ used'.change <= MaxChanges
             /\ \A j \in K!Items : /\ server'[j] \in 0..used'.change
                                   /\ 0..server[j] \subseteq 0..server'[j]
                                   /\ 1..server[j] \subseteq 1..server'[j]
  <2>1. \A j \in K!Items : server'[j] \in Nat /\ server[j] <= server'[j] /\ server[j] \in Nat
    BY <1>2, ConsoleChanges
  <2>2. \A j \in K!Items : 1..server[j] \subseteq 1..server'[j]
    BY <2>1
  <2>3. QED
    BY <1>2, <2>2, ConsoleChanges
<1>3. ASSUME server' = server,
             \/ used' = used
             \/ \E f \in {"post", "select", "socket"} : used' = [used EXCEPT ![f] = @ + 1]
      PROVE  /\ used' \in [{"change", "post", "select", "socket"} -> Nat] /\ used'.change <= MaxChanges
             /\ \A j \in K!Items : /\ server'[j] \in 0..used'.change
                                   /\ 0..server[j] \subseteq 0..server'[j]
                                   /\ 1..server[j] \subseteq 1..server'[j]
  <2>1. used' \in [{"change", "post", "select", "socket"} -> Nat] /\ used'.change = used.change
    BY <1>1, <1>3
  <2>2. QED
    BY <1>1, <1>3, <2>1
<1>4. \/ \E i \in K!Items : K!Changes(i)
      \/ /\ server' = server
         /\ \/ used' = used
            \/ \E f \in {"post", "select", "socket"} : used' = [used EXCEPT ![f] = @ + 1]
  <2> DEFINE Goal == \/ \E i \in K!Items : K!Changes(i)
                     \/ /\ server' = server
                        /\ \/ used' = used
                           \/ \E f \in {"post", "select", "socket"} : used' = [used EXCEPT ![f] = @ + 1]
  <2>1. ASSUME NEW i \in K!Items, K!Elsewhere(i) PROVE Goal
    BY <2>1 DEF K!Elsewhere
  <2>2. ASSUME NEW p \in posts, K!Handled(p) PROVE Goal
    BY <2>2 DEF K!Handled, K!AnswersAreOld
  <2>3. ASSUME \/ \E i \in K!Items : K!Post(i)
               \/ \E s \in Sessions : K!Select(s)
               \/ K!Connects
        PROVE  server' = server /\ \E f \in {"post", "select", "socket"} : used' = [used EXCEPT ![f] = @ + 1]
    <3>1. CASE \E i \in K!Items : K!Post(i)
      BY <3>1 DEF K!Post
    <3>2. CASE \E s \in Sessions : K!Select(s)
      BY <3>2 DEF K!Select
    <3>3. CASE K!Connects
      BY <3>3 DEF K!Connects
    <3>4. QED
      BY <2>3, <3>1, <3>2, <3>3
  <2>4. ASSUME \/ \E s \in Sessions : K!SelectsFirst(s)
               \/ \E k \in {"sessions", "tasks"} : K!ReadsList(k)
               \/ \E k \in {"sessions", "tasks"} : K!ListArrives(k)
               \/ \E p \in posts : K!Answered(p)
               \/ \E e \in BOOLEAN : K!Health(e)
               \/ \E p \in {"console", "requests"} : K!Toggle(p)
               \/ K!Closes \/ K!OnEvent \/ K!ReadsDetail \/ K!DetailArrives \/ K!Fails
        PROVE  server' = server /\ used' = used
    BY <2>4 DEF K!SelectsFirst, K!ReadsList, K!ListArrives, K!Answered, K!Health, K!Toggle, K!Closes,
                K!OnEvent, K!ReadsDetail, K!DetailArrives, K!Fails
  <2> HIDE DEF Goal
  <2>5. server' = server /\ used' = used => Goal
    BY DEF Goal
  <2>6. (server' = server /\ \E f \in {"post", "select", "socket"} : used' = [used EXCEPT ![f] = @ + 1]) => Goal
    BY DEF Goal
  <2>9. ConsoleActions
    BY ConsoleActs
  <2>7. Goal
    BY <2>9, <2>1, <2>2, <2>3, <2>4, <2>5, <2>6, Zenon DEF ConsoleActions
  <2>8. QED
    BY <2>7 DEF Goal
<1>5. QED
  BY <1>2, <1>3, <1>4

\* What is shown is of versions there have been, and what is not stale only grows.
ScreenKeeps ==
  /\ \A i \in K!Items : kListed'[i] \in 0..server'[i]
  /\ \A s \in Sessions : kShown'[s] \subseteq 1..server'[s]
  /\ stale \subseteq stale' /\ \A i \in K!Items \ stale' : kListed[i] <= kListed'[i]
  /\ \A s \in Sessions \ stale' :
       (\A n \in kShown[s] : n <= kListed[s]) =>
         kShown[s] \subseteq kShown'[s] /\ \A n \in kShown'[s] : n <= kListed'[s]

LEMMA UpsertsKeep ==
  ASSUME K!TypeOK, K!AnswersAreOld, server' = server, NEW i \in K!Items, NEW n \in 1..server[i],
         K!Upserted(i, n), kShown' = K!Appended(i, n)
  PROVE  ScreenKeeps /\ kListed'[i] = n /\ (i \in Sessions => n \in kShown'[i])
<1>1. /\ kListed' \in [K!Items -> 0..MaxChanges] /\ kListed'[i] = n
      /\ \A j \in K!Items : kListed'[j] \in 0..server[j] /\ (j # i => kListed'[j] = kListed[j])
      /\ stale \subseteq stale' /\ \A j \in K!Items \ stale' : kListed[j] <= kListed'[j]
      /\ \A s \in Sessions : kShown'[s] = K!Appended(i, n)[s] /\ kShown'[s] \subseteq 1..server[s]
  BY ConsoleUpserts
<1>2. i \in Sessions => n \in kShown'[i]
  BY <1>1, AppendedShows
<1>3. ASSUME NEW s \in Sessions \ stale', \A m \in kShown[s] : m <= kListed[s]
      PROVE  kShown[s] \subseteq kShown'[s] /\ \A m \in kShown'[s] : m <= kListed'[s]
  <2>1. s \in K!Items /\ kListed[s] \in Nat /\ kListed'[s] \in Nat /\ n \in Nat /\ kListed[s] <= kListed'[s]
    <3>1. s \in K!Items /\ kListed[s] \in Nat /\ n \in Nat /\ server[s] \in Nat
      BY ConsoleKnown
    <3>2. QED
      BY <1>1, <3>1
  <2>2. \A m \in kShown[s] : m \in Nat
    BY DEF K!AnswersAreOld
  <2>3. \A m \in kShown[s] : m <= kListed'[s]
    BY <1>3, <2>1, <2>2
  <2>4. CASE s = i
    <3>1. kShown'[s] = kShown[s] \cup {n} /\ kListed'[s] = n
      BY <1>1, <2>4, AppendedShows
    <3>2. QED
      BY <2>1, <2>3, <3>1
  <2>5. CASE s # i
    <3>1. kShown'[s] = kShown[s]
      BY <1>1, <2>5, AppendedShows
    <3>2. QED
      BY <2>3, <3>1
  <2>6. QED
    BY <2>4, <2>5
<1>4. QED
  BY <1>1, <1>2, <1>3 DEF ScreenKeeps

LEMMA ConsoleScreen ==
  ASSUME K!TypeOK, K!AnswersAreOld, K!Next
  PROVE  /\ ScreenKeeps
         /\ K!OnEvent => LET i == Head(kQueue)[1]
                             n == Head(kQueue)[2]
                         IN  kListed'[i] = n /\ (i \in Sessions => n \in kShown'[i])
<1>1. ASSUME UNCHANGED <<kListed, kShown, stale>> PROVE ScreenKeeps
  <2>1. \A i \in K!Items : kListed[i] \in 0..server[i] /\ kListed[i] \in Nat
    BY ConsoleKnown DEF K!AnswersAreOld
  <2>2. \A s \in Sessions : s \in K!Items /\ kShown[s] \subseteq 1..server[s]
    BY DEF K!AnswersAreOld, K!Items
  <2>3. \A i \in K!Items : 0..server[i] \subseteq 0..server'[i] /\ 1..server[i] \subseteq 1..server'[i]
    BY ConsoleServer
  <2>4. \A i \in K!Items : kListed'[i] \in 0..server'[i] /\ kListed[i] <= kListed'[i]
    BY <1>1, <2>1, <2>3
  <2>5. \A s \in Sessions : kShown'[s] \subseteq 1..server'[s]
    BY <1>1, <2>2, <2>3
  <2>6. QED
    BY <1>1, <2>4, <2>5 DEF ScreenKeeps
<1>2. ASSUME K!OnEvent
      PROVE  /\ ScreenKeeps
             /\ LET i == Head(kQueue)[1]
                    n == Head(kQueue)[2]
                IN  kListed'[i] = n /\ (i \in Sessions => n \in kShown'[i])
  <2> DEFINE i == Head(kQueue)[1]
             n == Head(kQueue)[2]
  <2>1. /\ i \in K!Items /\ n \in 1..server[i] /\ K!Upserted(i, n) /\ kShown' = K!Appended(i, n)
        /\ server' = server
    BY <1>2, ConsoleTold DEF K!OnEvent
  <2> HIDE DEF i, n
  <2>2. ScreenKeeps /\ kListed'[i] = n /\ (i \in Sessions => n \in kShown'[i])
    BY <2>1, UpsertsKeep
  <2>3. QED
    BY <2>2 DEF i, n
<1>3. ASSUME NEW p \in posts, K!Answered(p) PROVE ScreenKeeps
  <2>1. /\ p.item \in K!Items /\ p.answer \in 1..server[p.item]
        /\ K!Upserted(p.item, p.answer) /\ kShown' = K!Appended(p.item, p.answer) /\ server' = server
    BY <1>3 DEF K!Answered, K!AnswersAreOld
  <2>2. QED
    BY <2>1, UpsertsKeep
<1>4. ASSUME K!DetailArrives PROVE ScreenKeeps
  <2>1. /\ selected \in Sessions /\ detail \in 0..server[selected] /\ server' = server
        /\ kListed' = [kListed EXCEPT ![selected] = detail]
        /\ kShown' = [kShown EXCEPT ![selected] = 1..detail]
        /\ stale' = IF detail < kListed[selected] THEN stale \cup {selected} ELSE stale
    BY <1>4 DEF K!DetailArrives, K!AnswersAreOld
  <2>2. selected \in K!Items /\ server[selected] \in Nat /\ kListed[selected] \in Nat /\ detail \in Nat
    BY <2>1, ConsoleKnown
  <2>3. /\ kListed \in [K!Items -> 0..MaxChanges] /\ kShown \in [Sessions -> SUBSET (1..MaxChanges)]
    BY DEF K!TypeOK
  <2>4. kListed'[selected] = detail /\ kShown'[selected] = 1..detail
        /\ \A i \in K!Items : i # selected => kListed'[i] = kListed[i]
        /\ \A s \in Sessions : s # selected => kShown'[s] = kShown[s]
    BY <2>1, <2>2, <2>3
  <2>5. \A i \in K!Items : kListed'[i] \in 0..server'[i]
    BY <2>1, <2>4 DEF K!AnswersAreOld
  <2>6. \A s \in Sessions : kShown'[s] \subseteq 1..server'[s]
    <3> TAKE s \in Sessions
    <3>1. 1..detail \subseteq 1..server[selected]
      BY <2>1, <2>2
    <3>2. QED
      BY <2>1, <2>4, <3>1 DEF K!AnswersAreOld
  <2>7. stale \subseteq stale' /\ (selected \notin stale' => kListed[selected] <= detail)
    BY <2>1, <2>2
  <2>8. \A i \in K!Items \ stale' : kListed[i] <= kListed'[i]
    <3> TAKE i \in K!Items \ stale'
    <3>1. kListed[i] \in Nat
      BY ConsoleKnown
    <3>2. QED
      BY <2>4, <2>7, <3>1
  <2>9. ASSUME NEW s \in Sessions \ stale', \A n \in kShown[s] : n <= kListed[s]
        PROVE  kShown[s] \subseteq kShown'[s] /\ \A n \in kShown'[s] : n <= kListed'[s]
    <3>1. CASE s = selected
      <4>1. \A n \in kShown[s] : n \in 1..server[s] /\ n \in Nat
        BY DEF K!AnswersAreOld
      <4>2. \A n \in kShown[s] : n \in 1..detail
        BY <2>2, <2>7, <2>9, <3>1, <4>1
      <4>3. QED
        BY <2>2, <2>4, <3>1, <4>2
    <3>2. CASE s # selected
      <4>1. s \in K!Items
        BY DEF K!Items
      <4>2. QED
        BY <2>4, <2>9, <3>2, <4>1
    <3>3. QED
      BY <3>1, <3>2
  <2>10. QED
    BY <2>5, <2>6, <2>7, <2>8, <2>9 DEF ScreenKeeps
<1>5. ASSUME NEW k \in {"sessions", "tasks"}, K!ListArrives(k) PROVE ScreenKeeps
  <2>1. /\ \A i \in K!Kinds[k] : lists[k][i] \in 0..server[i]
        /\ kListed' = [i \in K!Items |-> IF i \in K!Kinds[k] THEN lists[k][i] ELSE kListed[i]]
        /\ stale' = stale \cup {i \in K!Kinds[k] : lists[k][i] < kListed[i]}
        /\ server' = server /\ kShown' = kShown
    BY <1>5 DEF K!ListArrives, K!AnswersAreOld
  <2>2. \A i \in K!Items : IF i \in K!Kinds[k] THEN kListed'[i] = lists[k][i] ELSE kListed'[i] = kListed[i]
    BY <2>1
  <2>3. \A i \in K!Items : kListed'[i] \in 0..server'[i]
    BY <2>1, <2>2 DEF K!AnswersAreOld
  <2>4. ASSUME NEW i \in K!Items \ stale' PROVE kListed[i] <= kListed'[i]
    <3>1. kListed[i] \in Nat /\ server[i] \in Nat
      BY ConsoleKnown
    <3>2. CASE i \in K!Kinds[k]
      <4>1. lists[k][i] \in Nat /\ ~ (lists[k][i] < kListed[i]) /\ kListed'[i] = lists[k][i]
        BY <2>1, <2>2, <2>4, <3>1, <3>2
      <4>2. QED
        BY <3>1, <4>1
    <3>3. CASE i \notin K!Kinds[k]
      BY <2>2, <3>1, <3>3
    <3>4. QED
      BY <3>2, <3>3
  <2>5. ASSUME NEW s \in Sessions \ stale', \A n \in kShown[s] : n <= kListed[s]
        PROVE  kShown[s] \subseteq kShown'[s] /\ \A n \in kShown'[s] : n <= kListed'[s]
    <3>1. s \in K!Items /\ kListed[s] \in Nat /\ \A n \in kShown[s] : n \in Nat
      BY ConsoleKnown DEF K!AnswersAreOld
    <3>2. kListed[s] <= kListed'[s] /\ kListed'[s] \in Nat
      <4>1. server'[s] \in Nat
        BY <2>1, <3>1, ConsoleKnown
      <4>2. QED
        BY <2>3, <2>4, <3>1, <4>1
    <3>3. QED
      BY <2>1, <2>5, <3>1, <3>2
  <2>6. stale \subseteq stale' /\ \A s \in Sessions : kShown'[s] \subseteq 1..server'[s]
    BY <2>1 DEF K!AnswersAreOld
  <2>7. QED
    BY <2>3, <2>4, <2>5, <2>6 DEF ScreenKeeps
<1>6. ASSUME \/ \E i \in K!Items : K!Elsewhere(i)
             \/ \E i \in K!Items : K!Post(i)
             \/ \E s \in Sessions : K!Select(s)
             \/ \E s \in Sessions : K!SelectsFirst(s)
             \/ \E k \in {"sessions", "tasks"} : K!ReadsList(k)
             \/ \E p \in posts : K!Handled(p)
             \/ \E e \in BOOLEAN : K!Health(e)
             \/ \E p \in {"console", "requests"} : K!Toggle(p)
             \/ K!Connects \/ K!Closes \/ K!ReadsDetail \/ K!Fails
      PROVE  UNCHANGED <<kListed, kShown, stale>>
  BY <1>6 DEF K!Elsewhere, K!Post, K!Select, K!SelectsFirst, K!ReadsList, K!Handled, K!Health, K!Toggle,
              K!Connects, K!Closes, K!ReadsDetail, K!Fails, K!screen
<1>7. ConsoleActions
  BY ConsoleActs
<1>8. ScreenKeeps
  BY <1>1, <1>2, <1>3, <1>4, <1>5, <1>6, <1>7 DEF ConsoleActions
<1>9. QED
  BY <1>2, <1>8

\* What is told is of versions there have been, and each new version is told, or something is cut.
LEMMA ConsoleQueue ==
  ASSUME K!TypeOK, K!AnswersAreOld, K!Next
  PROVE  /\ kQueue' \in Seq(K!Items \X Nat) /\ \A e \in K!Told' : e[2] \in 1..server'[e[1]]
         /\ ~kCut' => /\ ~kCut /\ \A i \in K!Items : \A n \in 1..server'[i] : n \in 1..server[i] \/ <<i, n>> \in K!Told'
                      /\ \A e \in K!Told : e \in K!Told' \/ (K!OnEvent /\ e = Head(kQueue))
<1> DEFINE Goal == /\ kQueue' \in Seq(K!Items \X Nat) /\ \A e \in K!Told' : e[2] \in 1..server'[e[1]]
                   /\ ~kCut' => /\ ~kCut /\ \A i \in K!Items : \A n \in 1..server'[i] : n \in 1..server[i] \/ <<i, n>> \in K!Told'
                                /\ \A e \in K!Told : e \in K!Told' \/ (K!OnEvent /\ e = Head(kQueue))
<1>0. kQueue \in Seq(K!Items \X Nat) /\ \A e \in K!Told : e[2] \in 1..server[e[1]]
  BY DEF K!AnswersAreOld
<1>10. \A e \in K!Told : e[1] \in K!Items
  BY <1>0 DEF K!Told
<1>1. ASSUME NEW i \in K!Items, K!Changes(i) PROVE Goal
  <2>1. /\ \A j \in K!Items : server'[j] = IF j = i THEN server[j] + 1 ELSE server[j]
        /\ \A j \in K!Items : server[j] \in Nat
        /\ kQueue' \in Seq(K!Items \X Nat) /\ K!Told' \subseteq K!Told \cup {<<i, server[i] + 1>>}
        /\ ~kCut' => K!Told' = K!Told \cup {<<i, server[i] + 1>>} /\ ~kCut
    BY <1>1, ConsoleChanges
  <2>2. ASSUME NEW e \in K!Told' PROVE e[2] \in 1..server'[e[1]]
    <3>1. CASE e \in K!Told
      <4>1. e[1] \in K!Items /\ e[2] \in 1..server[e[1]]
        BY <1>0, <1>10, <3>1
      <4>2. 1..server[e[1]] \subseteq 1..server'[e[1]]
        BY <4>1, ConsoleServer
      <4>3. QED
        BY <4>1, <4>2
    <3>2. CASE e = <<i, server[i] + 1>>
      <4>1. e[1] = i /\ e[2] = server[i] + 1 /\ server'[i] = server[i] + 1 /\ server[i] \in Nat
        BY <2>1, <3>2
      <4>2. QED
        BY <4>1
    <3>3. QED
      BY <2>1, <3>1, <3>2
  <2>3. ASSUME ~kCut', NEW j \in K!Items, NEW n \in 1..server'[j] PROVE n \in 1..server[j] \/ <<j, n>> \in K!Told'
    <3>1. CASE j = i
      <4>1. n \in 1..server[i] \/ n = server[i] + 1
        BY <2>1, <3>1
      <4>2. <<i, server[i] + 1>> \in K!Told'
        BY <2>1, <2>3
      <4>3. QED
        BY <3>1, <4>1, <4>2
    <3>2. CASE j # i
      BY <2>1, <3>2
    <3>3. QED
      BY <3>1, <3>2
  <2>4. QED
    BY <2>1, <2>2, <2>3
<1>2. ASSUME K!OnEvent PROVE Goal
  <2>1. /\ kQueue' \in Seq(K!Items \X Nat) /\ K!Told = K!Told' \cup {Head(kQueue)}
        /\ server' = server /\ kCut' = kCut
    BY <1>2, ConsoleTold DEF K!OnEvent
  <2>2. QED
    BY <1>0, <1>2, <2>1
<1>3. ASSUME K!Closes PROVE Goal
  <2>1. kQueue' = <<>> /\ server' = server /\ kCut' = (kCut \/ kQueue # <<>>)
    BY <1>3 DEF K!Closes
  <2>2. kQueue' \in Seq(K!Items \X Nat) /\ K!Told' = {}
    BY <2>1 DEF K!Told
  <2>3. kQueue = <<>> => K!Told = {}
    BY DEF K!Told
  <2>4. ~kCut' => ~kCut /\ kQueue = <<>>
    BY <2>1
  <2>5. QED
    BY <2>1, <2>2, <2>3, <2>4
<1>4. ASSUME kQueue' = kQueue, server' = server, ~kCut' => ~kCut PROVE Goal
  <2>1. K!Told' = K!Told
    BY <1>4 DEF K!Told
  <2>2. QED
    BY <1>0, <1>4, <2>1
<1>5. ASSUME \/ \E i \in K!Items : K!Post(i)
             \/ \E s \in Sessions : K!Select(s)
             \/ \E s \in Sessions : K!SelectsFirst(s)
             \/ \E k \in {"sessions", "tasks"} : K!ReadsList(k)
             \/ \E k \in {"sessions", "tasks"} : K!ListArrives(k)
             \/ \E p \in posts : K!Answered(p)
             \/ \E e \in BOOLEAN : K!Health(e)
             \/ \E p \in {"console", "requests"} : K!Toggle(p)
             \/ K!Connects \/ K!ReadsDetail \/ K!DetailArrives
      PROVE  kQueue' = kQueue /\ server' = server /\ kCut' = kCut
  BY <1>5 DEF K!Post, K!Select, K!SelectsFirst, K!ReadsList, K!ListArrives, K!Answered, K!Health, K!Toggle,
              K!Connects, K!ReadsDetail, K!DetailArrives, K!link
<1>6. ASSUME K!Fails PROVE kQueue' = kQueue /\ server' = server /\ kCut'
  BY <1>6 DEF K!Fails, K!link
<1>7. ASSUME NEW i \in K!Items, K!Elsewhere(i) PROVE Goal
  BY <1>1, <1>7 DEF K!Elsewhere
<1>8. ASSUME NEW p \in posts, K!Handled(p) PROVE Goal
  BY <1>1, <1>8 DEF K!Handled, K!AnswersAreOld
<1>9. ConsoleActions
  BY ConsoleActs
<1> HIDE DEF Goal
<1>11. Goal
  BY <1>2, <1>3, <1>4, <1>5, <1>6, <1>7, <1>8, <1>9 DEF ConsoleActions
<1>12. QED
  BY <1>11 DEF Goal

\* The answers under way are of versions there have been.
LEMMA ConsoleDetail ==
  ASSUME K!TypeOK, K!AnswersAreOld, K!Next
  PROVE  /\ detail' \in {None, Asked} \/ detail' \in 0..server'[selected']
         /\ detail' # None => selected' \in Sessions
<1>0. /\ detail \in {None, Asked} \/ detail \in 0..server[selected]
      /\ detail # None => selected \in Sessions
      /\ Sessions \subseteq K!Items
  BY DEF K!AnswersAreOld, K!Items
<1>1. ASSUME detail' = detail, selected' = selected
      PROVE  /\ detail' \in {None, Asked} \/ detail' \in 0..server'[selected']
             /\ detail' # None => selected' \in Sessions
  <2>1. CASE detail = None
    BY <1>1, <2>1
  <2>2. CASE detail # None
    <3>1. 0..server[selected] \subseteq 0..server'[selected]
      BY <1>0, <2>2, ConsoleServer
    <3>2. QED
      BY <1>0, <1>1, <3>1
  <2>3. QED
    BY <2>1, <2>2
<1>2. ASSUME selected' \in Sessions, detail' = Asked
      PROVE  /\ detail' \in {None, Asked} \/ detail' \in 0..server'[selected']
             /\ detail' # None => selected' \in Sessions
  BY <1>2
<1>3. ASSUME NEW s \in Sessions, K!Selects(s)
      PROVE  \/ detail' = detail /\ selected' = selected
             \/ selected' \in Sessions /\ detail' = Asked
  BY <1>3 DEF K!Selects
<1> DEFINE Same == detail' = detail /\ selected' = selected
           New == selected' \in Sessions /\ detail' = Asked
           Read == detail' = None \/ (detail' \in 0..server'[selected'] /\ selected' \in Sessions)
<1>4. ASSUME \/ \E s \in Sessions : K!Select(s)
             \/ \E s \in Sessions : K!SelectsFirst(s)
      PROVE  Same \/ New
  BY <1>3, <1>4 DEF K!Select, K!SelectsFirst
<1>5. ASSUME NEW p \in posts, K!Answered(p) PROVE Same \/ New
  <2>1. CASE p.new /\ p.item \in Sessions
    BY <1>3, <1>5, <2>1 DEF K!Answered
  <2>2. CASE ~ (p.new /\ p.item \in Sessions)
    BY <1>5, <2>2 DEF K!Answered, K!choice
  <2>3. QED
    BY <2>1, <2>2
<1>6. ASSUME K!OnEvent PROVE Same \/ New
  <2>1. CASE Head(kQueue)[1] \in Sessions /\ Head(kQueue)[2] = 1 /\ kHandler = None
    BY <1>6, <2>1 DEF K!OnEvent
  <2>2. CASE ~ (Head(kQueue)[1] \in Sessions /\ Head(kQueue)[2] = 1 /\ kHandler = None)
    BY <1>6, <2>2 DEF K!OnEvent, K!choice
  <2>3. QED
    BY <2>1, <2>2
<1>7. ASSUME K!ReadsDetail, Asked # None PROVE Read
  <2>1. detail' = server[selected] /\ selected' = selected /\ server' = server /\ detail = Asked
    BY <1>7 DEF K!ReadsDetail, K!choice
  <2>2. selected \in Sessions /\ server[selected] \in Nat
    BY <1>0, <1>7, <2>1, ConsoleKnown
  <2>3. QED
    BY <2>1, <2>2
<1>8. ASSUME K!DetailArrives PROVE Read
  BY <1>8 DEF K!DetailArrives
<1>9. ASSUME K!Fails PROVE Read \/ Same
  BY <1>9 DEF K!Fails, K!choice
<1>10. ASSUME \/ \E i \in K!Items : K!Elsewhere(i)
              \/ \E i \in K!Items : K!Post(i)
              \/ \E k \in {"sessions", "tasks"} : K!ReadsList(k)
              \/ \E k \in {"sessions", "tasks"} : K!ListArrives(k)
              \/ \E p \in posts : K!Handled(p)
              \/ \E e \in BOOLEAN : K!Health(e)
              \/ \E p \in {"console", "requests"} : K!Toggle(p)
              \/ K!Connects \/ K!Closes
       PROVE  Same
  BY <1>10 DEF K!Elsewhere, K!Post, K!ReadsList, K!ListArrives, K!Handled, K!Health, K!Toggle,
               K!Connects, K!Closes, K!calls, K!choice
<1> HIDE DEF Same, New, Read
<1>11. Same \/ New \/ Read
  BY <1>4, <1>5, <1>6, <1>7, <1>8, <1>9, <1>10, ConsoleActs, NoneIsNotAsked DEF ConsoleActions
<1>12. QED
  BY <1>1, <1>2, <1>11 DEF Same, New, Read

LEMMA ConsoleLists ==
  ASSUME K!TypeOK, K!AnswersAreOld, K!Next
  PROVE  \A k \in {"sessions", "tasks"} :
           lists'[k] \in {None, Asked} \/ \A i \in K!Kinds[k] : lists'[k][i] \in 0..server'[i]
<1> DEFINE Good(l) == \A k \in {"sessions", "tasks"} :
             l[k] \in {None, Asked} \/ \A i \in K!Kinds[k] : l[k][i] \in 0..server'[i]
<1>0. \A k \in {"sessions", "tasks"} : K!Kinds[k] \subseteq K!Items
  BY DEF K!Kinds, K!Items
<1>1. Good(lists)
  <2>1. \A i \in K!Items : 0..server[i] \subseteq 0..server'[i]
    BY ConsoleServer
  <2>2. QED
    BY <1>0, <2>1 DEF K!AnswersAreOld
<1>2. ASSUME NEW k, NEW v, lists' = [lists EXCEPT ![k] = v],
             v \in {None, Asked} \/ (k \in {"sessions", "tasks"} => \A i \in K!Kinds[k] : v[i] \in 0..server'[i])
      PROVE  Good(lists')
  <2>1. \A j \in {"sessions", "tasks"} : lists'[j] = lists[j] \/ (lists'[j] = v /\ j = k)
    BY <1>2
  <2>2. QED
    BY <1>1, <1>2, <2>1
<1>3. ASSUME NEW k \in {"sessions", "tasks"}, K!ReadsList(k) PROVE Good(lists')
  <2> DEFINE v == [i \in K!Kinds[k] |-> server[i]]
  <2>1. lists' = [lists EXCEPT ![k] = v] /\ server' = server
    BY <1>3 DEF K!ReadsList
  <2>2. \A i \in K!Kinds[k] : v[i] \in 0..server'[i]
    <3>1. \A i \in K!Kinds[k] : v[i] = server'[i] /\ server'[i] \in Nat
      BY <1>0, <2>1, ConsoleKnown
    <3>2. QED
      BY <3>1
  <2> HIDE DEF v, Good
  <2>3. QED
    BY <1>2, <2>1, <2>2
<1>4. ASSUME NEW k \in {"sessions", "tasks"}, K!ListArrives(k) PROVE Good(lists')
  <2>1. lists' = [lists EXCEPT ![k] = None]
    BY <1>4 DEF K!ListArrives
  <2> HIDE DEF Good
  <2>2. QED
    BY <1>2, <2>1
<1>5. ASSUME NEW e \in BOOLEAN, K!Health(e) PROVE Good(lists')
  <2>1. \E v \in {None, Asked} : lists' = [lists EXCEPT !["tasks"] = v]
    BY <1>5 DEF K!Health
  <2> HIDE DEF Good
  <2>2. QED
    BY <1>2, <2>1
<1>6. ASSUME K!Fails PROVE Good(lists')
  <2>1. lists' = lists \/ \E k \in DOMAIN lists : lists' = [lists EXCEPT ![k] = None]
    BY <1>6 DEF K!Fails
  <2> HIDE DEF Good
  <2>2. QED
    BY <1>1, <1>2, <2>1
<1>7. ASSUME \/ \E i \in K!Items : K!Elsewhere(i)
             \/ \E i \in K!Items : K!Post(i)
             \/ \E s \in Sessions : K!Select(s)
             \/ \E s \in Sessions : K!SelectsFirst(s)
             \/ \E p \in posts : K!Handled(p)
             \/ \E p \in posts : K!Answered(p)
             \/ \E p \in {"console", "requests"} : K!Toggle(p)
             \/ K!Connects \/ K!Closes \/ K!OnEvent \/ K!ReadsDetail \/ K!DetailArrives
      PROVE  lists' = lists
  BY <1>7 DEF K!Elsewhere, K!Post, K!Select, K!SelectsFirst, K!Handled, K!Answered, K!Toggle,
              K!Connects, K!Closes, K!OnEvent, K!ReadsDetail, K!DetailArrives, K!calls
<1> HIDE DEF Good
<1>8. Good(lists')
  BY <1>1, <1>3, <1>4, <1>5, <1>6, <1>7, ConsoleActs DEF ConsoleActions
<1>9. QED
  BY <1>8 DEF Good

LEMMA ConsolePosts ==
  ASSUME K!TypeOK, K!AnswersAreOld, K!Next
  PROVE  \A p \in posts' : p.item \in K!Items /\ (p.answer = Asked \/ p.answer \in 1..server'[p.item])
<1> DEFINE Good(p) == p.item \in K!Items /\ (p.answer = Asked \/ p.answer \in 1..server'[p.item])
<1>0. \A p \in posts : Good(p)
  <2>1. \A i \in K!Items : 1..server[i] \subseteq 1..server'[i]
    BY ConsoleServer
  <2>2. QED
    BY <2>1 DEF K!AnswersAreOld
<1>1. ASSUME NEW i \in K!Items, K!Post(i) PROVE \A p \in posts' : Good(p)
  <2>1. posts' = posts \cup {[item |-> i, new |-> server[i] = 0, answer |-> Asked]}
    BY <1>1 DEF K!Post
  <2>2. Good([item |-> i, new |-> server[i] = 0, answer |-> Asked])
    OBVIOUS
  <2> HIDE DEF Good
  <2>3. QED
    BY <1>0, <2>1, <2>2
<1>2. ASSUME NEW p \in posts, K!Handled(p) PROVE \A q \in posts' : Good(q)
  <2> DEFINE r == [p EXCEPT !.answer = server[p.item] + 1]
  <2>1. posts' = (posts \ {p}) \cup {r} /\ K!Changes(p.item) /\ p.item \in K!Items
    BY <1>2 DEF K!Handled, K!AnswersAreOld
  <2>2. server'[p.item] = server[p.item] + 1 /\ server[p.item] \in Nat
    BY <2>1, ConsoleChanges
  <2>3. r.item = p.item /\ (r.answer = server[p.item] + 1 \/ r.answer = p.answer)
    OBVIOUS
  <2>4. Good(r)
    BY <1>0, <2>1, <2>2, <2>3
  <2> HIDE DEF Good, r
  <2>5. QED
    BY <1>0, <2>1, <2>4
<1>3. ASSUME (\E p \in posts : K!Answered(p)) \/ K!Fails PROVE posts' \subseteq posts
  BY <1>3 DEF K!Answered, K!Fails
<1>4. ASSUME \/ \E i \in K!Items : K!Elsewhere(i)
             \/ \E s \in Sessions : K!Select(s)
             \/ \E s \in Sessions : K!SelectsFirst(s)
             \/ \E k \in {"sessions", "tasks"} : K!ReadsList(k)
             \/ \E k \in {"sessions", "tasks"} : K!ListArrives(k)
             \/ \E e \in BOOLEAN : K!Health(e)
             \/ \E p \in {"console", "requests"} : K!Toggle(p)
             \/ K!Connects \/ K!Closes \/ K!OnEvent \/ K!ReadsDetail \/ K!DetailArrives
      PROVE  posts' = posts
  BY <1>4 DEF K!Elsewhere, K!Select, K!SelectsFirst, K!ReadsList, K!ListArrives, K!Health, K!Toggle,
              K!Connects, K!Closes, K!OnEvent, K!ReadsDetail, K!DetailArrives, K!calls
<1> HIDE DEF Good
<1>5. \A p \in posts' : Good(p)
  BY <1>0, <1>1, <1>2, <1>3, <1>4, ConsoleActs DEF ConsoleActions
<1>6. QED
  BY <1>5 DEF Good

\* A socket that was opened early is the only one that selects.
LEMMA ConsoleChoice ==
  ASSUME K!TypeOK, K!AnswersAreOld, K!SelectionIsOwn, kSocket /\ kHandler = None => early, K!Next
  PROVE  K!SelectionIsOwn' /\ (kSocket' /\ kHandler' = None => early')
<1> DEFINE Link == UNCHANGED <<kSocket, kHandler, early>>
           Choice == UNCHANGED <<selected, own>> \/ selected' = own'
<1>1. ASSUME K!OnEvent PROVE Link /\ (Choice \/ early)
  <2>1. CASE Head(kQueue)[1] \in Sessions /\ Head(kQueue)[2] = 1 /\ kHandler = None
    BY <1>1, <2>1 DEF K!OnEvent
  <2>2. CASE ~ (Head(kQueue)[1] \in Sessions /\ Head(kQueue)[2] = 1 /\ kHandler = None)
    BY <1>1, <2>2 DEF K!OnEvent, K!choice
  <2>3. QED
    BY <2>1, <2>2
<1>2. ASSUME K!Connects PROVE Choice /\ kHandler' = selected /\ early' = (early \/ selected = None)
  BY <1>2 DEF K!Connects, K!choice
<1>3. ASSUME K!Closes PROVE Choice /\ kSocket' = FALSE /\ early' = early
  BY <1>3 DEF K!Closes, K!choice
<1>4. ASSUME NEW p \in posts, K!Answered(p) PROVE Choice /\ Link
  <2>1. CASE p.new /\ p.item \in Sessions
    BY <1>4, <2>1 DEF K!Answered, K!Selects, K!link
  <2>2. CASE ~ (p.new /\ p.item \in Sessions)
    BY <1>4, <2>2 DEF K!Answered, K!choice, K!link
  <2>3. QED
    BY <2>1, <2>2
<1>5. ASSUME (\E s \in Sessions : K!Select(s)) \/ (\E s \in Sessions : K!SelectsFirst(s))
      PROVE  Choice /\ Link
  BY <1>5 DEF K!Select, K!SelectsFirst, K!Selects, K!link
<1>6. ASSUME \/ \E i \in K!Items : K!Elsewhere(i)
             \/ \E i \in K!Items : K!Post(i)
             \/ \E k \in {"sessions", "tasks"} : K!ReadsList(k)
             \/ \E k \in {"sessions", "tasks"} : K!ListArrives(k)
             \/ \E p \in posts : K!Handled(p)
             \/ \E e \in BOOLEAN : K!Health(e)
             \/ \E p \in {"console", "requests"} : K!Toggle(p)
             \/ K!ReadsDetail \/ K!DetailArrives \/ K!Fails
      PROVE  Choice /\ Link
  BY <1>6 DEF K!Elsewhere, K!Post, K!ReadsList, K!ListArrives, K!Handled, K!Health, K!Toggle,
              K!ReadsDetail, K!DetailArrives, K!Fails, K!link, K!choice
<1>7. ASSUME Link, Choice \/ early PROVE K!SelectionIsOwn' /\ (kSocket' /\ kHandler' = None => early')
  BY <1>7 DEF K!SelectionIsOwn
<1>8. ASSUME K!Connects PROVE K!SelectionIsOwn' /\ (kSocket' /\ kHandler' = None => early')
  BY <1>2, <1>8 DEF K!SelectionIsOwn
<1>9. ASSUME K!Closes PROVE K!SelectionIsOwn' /\ (kSocket' /\ kHandler' = None => early')
  BY <1>3, <1>9 DEF K!SelectionIsOwn
<1> HIDE DEF Link, Choice
<1>10. QED
  BY <1>1, <1>4, <1>5, <1>6, <1>7, <1>8, <1>9, ConsoleActs DEF ConsoleActions

LEMMA ConsoleKeeps ==
  ASSUME K!TypeOK, K!AnswersAreOld, K!NothingIsLost, K!Next
  PROVE  K!NothingIsLost'
<1> SUFFICES ASSUME ~kCut'
             PROVE  /\ \A i \in K!Items \ stale' : \A n \in 1..server'[i] : n <= kListed'[i] \/ <<i, n>> \in K!Told'
                    /\ \A s \in Sessions \ stale' : \A n \in 1..server'[s] : n \in kShown'[s] \/ <<s, n>> \in K!Told'
                    /\ \A s \in Sessions \ stale' : \A n \in kShown'[s] : n <= kListed'[s]
  BY DEF K!NothingIsLost
<1>1. /\ ~kCut /\ \A i \in K!Items : \A n \in 1..server'[i] : n \in 1..server[i] \/ <<i, n>> \in K!Told'
      /\ \A e \in K!Told : e \in K!Told' \/ (K!OnEvent /\ e = Head(kQueue))
  BY ConsoleQueue
<1>2. /\ \A i \in K!Items \ stale : \A n \in 1..server[i] : n <= kListed[i] \/ <<i, n>> \in K!Told
      /\ \A s \in Sessions \ stale : \A n \in 1..server[s] : n \in kShown[s] \/ <<s, n>> \in K!Told
      /\ \A s \in Sessions \ stale : \A n \in kShown[s] : n <= kListed[s]
  BY <1>1 DEF K!NothingIsLost
<1>3. /\ stale \subseteq stale' /\ \A i \in K!Items \ stale' : kListed[i] <= kListed'[i]
      /\ \A s \in Sessions \ stale' : kShown[s] \subseteq kShown'[s] /\ \A n \in kShown'[s] : n <= kListed'[s]
      /\ \A i \in K!Items : kListed'[i] \in 0..server'[i]
  BY <1>2, ConsoleScreen DEF ScreenKeeps
<1>4. K!OnEvent => LET i == Head(kQueue)[1]
                       n == Head(kQueue)[2]
                   IN  kListed'[i] = n /\ (i \in Sessions => n \in kShown'[i])
  BY ConsoleScreen
<1>5. ASSUME NEW i \in K!Items \ stale', NEW n \in 1..server'[i], <<i, n>> \notin K!Told'
      PROVE  n <= kListed'[i] /\ (i \in Sessions => n \in kShown'[i])
  <2>1. n \in 1..server[i] /\ i \in K!Items \ stale
    BY <1>1, <1>3, <1>5
  <2>2. CASE K!OnEvent /\ <<i, n>> = Head(kQueue)
    <3>1. kListed'[i] = n /\ (i \in Sessions => n \in kShown'[i])
      BY <1>4, <2>2
    <3>2. n \in Nat
      BY <2>1
    <3>3. QED
      BY <3>1, <3>2
  <2>3. CASE <<i, n>> \notin K!Told
    <3>1. n <= kListed[i] /\ (i \in Sessions => n \in kShown[i])
      BY <1>2, <2>1, <2>3
    <3>2. n \in Nat /\ kListed[i] \in Nat /\ kListed'[i] \in Nat
      <4>1. server'[i] \in Nat
        BY <2>1, ConsoleServer DEF K!AnswersAreOld
      <4>2. QED
        BY <1>3, <2>1, <4>1, ConsoleKnown
    <3>3. QED
      BY <1>3, <1>5, <3>1, <3>2
  <2>4. QED
    BY <1>1, <1>5, <2>2, <2>3
<1>6. Sessions \subseteq K!Items
  BY DEF K!Items
<1>7. QED
  BY <1>3, <1>5, <1>6

LEMMA ConsoleBegin ==
  ASSUME K!Init
  PROVE  K!ConsoleInvariant
<1>1. K!TypeOK
  <2>1. MaxChanges \in Nat /\ 0 \in 0..MaxChanges
    BY ClientBounds
  <2>2. server \in [K!Items -> 0..MaxChanges] /\ kListed \in [K!Items -> 0..MaxChanges]
    BY <2>1 DEF K!Init, K!Nothing
  <2>3. kShown \in [Sessions -> SUBSET (1..MaxChanges)] /\ stale = {}
    BY DEF K!Init
  <2>4. /\ selected = None /\ own = None /\ kHandler = None /\ enabled = None
        /\ panels \in {{}, {"console"}, {"requests"}}
    BY DEF K!Init
  <2>5. kCut = FALSE /\ early = FALSE
    BY DEF K!Init
  <2>6. QED
    BY <2>2, <2>3, <2>4, <2>5 DEF K!TypeOK
<1>2. K!Told = {} /\ kQueue = <<>>
  BY DEF K!Init, K!Told
<1>3. \A i \in K!Items : server[i] = 0 /\ kListed[i] = 0
  BY DEF K!Init, K!Nothing
<1>4. used \in [{"change", "post", "select", "socket"} -> Nat] /\ used.change = 0 /\ MaxChanges \in Nat
  BY ClientBounds DEF K!Init
<1>5. K!AnswersAreOld
  BY <1>2, <1>3, <1>4 DEF K!Init, K!AnswersAreOld
<1>6. K!NothingIsLost
  <2>1. \A i \in K!Items : 1..server[i] = {}
    BY <1>3
  <2>2. Sessions \subseteq K!Items /\ \A s \in Sessions : kShown[s] = {}
    BY DEF K!Init, K!Items
  <2>3. QED
    BY <2>1, <2>2 DEF K!NothingIsLost
<1>7. K!SelectionIsOwn /\ ~kSocket
  BY DEF K!Init, K!SelectionIsOwn
<1>8. QED
  BY <1>1, <1>5, <1>6, <1>7 DEF K!ConsoleInvariant

LEMMA ConsoleStays ==
  ASSUME K!ConsoleInvariant, [K!Next]_kVars
  PROVE  K!ConsoleInvariant'
<1>1. CASE K!Next
  <2>1. K!TypeOK /\ K!AnswersAreOld /\ K!NothingIsLost /\ K!SelectionIsOwn
        /\ (kSocket /\ kHandler = None => early)
    BY DEF K!ConsoleInvariant
  <2>2. K!TypeOK'
    BY <1>1, ConsoleTyped
  <2>3. K!AnswersAreOld'
    <3>1. ScreenKeeps
      BY <1>1, <2>1, ConsoleScreen
    <3>2. \A i \in K!Items : server'[i] \in 0..used'.change /\ kListed'[i] \in 0..server'[i]
      BY <1>1, <2>1, <3>1, ConsoleServer DEF ScreenKeeps
    <3>3. \A s \in Sessions : kShown'[s] \subseteq 1..server'[s]
      BY <3>1 DEF ScreenKeeps
    <3>4. QED
      BY <1>1, <2>1, <3>2, <3>3, ConsoleServer, ConsoleQueue, ConsoleDetail, ConsoleLists, ConsolePosts
      DEF K!AnswersAreOld
  <2>4. K!NothingIsLost'
    BY <1>1, <2>1, ConsoleKeeps
  <2>5. K!SelectionIsOwn' /\ (kSocket' /\ kHandler' = None => early')
    BY <1>1, <2>1, ConsoleChoice
  <2>6. QED
    BY <2>2, <2>3, <2>4, <2>5 DEF K!ConsoleInvariant
<1>2. CASE UNCHANGED kVars
  <2>1. K!TypeOK' <=> K!TypeOK
    BY <1>2 DEF kVars, K!TypeOK
  <2>2. K!Told' = K!Told
    BY <1>2 DEF kVars, K!Told
  <2>3. K!AnswersAreOld' <=> K!AnswersAreOld
    BY <1>2, <2>2 DEF kVars, K!AnswersAreOld
  <2>4. K!NothingIsLost' <=> K!NothingIsLost
    BY <1>2, <2>2 DEF kVars, K!NothingIsLost
  <2>5. (K!SelectionIsOwn' <=> K!SelectionIsOwn) /\ (kSocket' /\ kHandler' = None => early') <=> (kSocket /\ kHandler = None => early)
    BY <1>2 DEF kVars, K!SelectionIsOwn
  <2>6. QED
    BY <2>1, <2>3, <2>4, <2>5 DEF K!ConsoleInvariant
<1>3. QED
  BY <1>1, <1>2

LEMMA ConsoleSuffices ==
  ASSUME K!ConsoleInvariant
  PROVE  K!SelectionIsOwn /\ K!ConsoleCatchesUp
<1>1. K!TypeOK /\ K!AnswersAreOld /\ K!NothingIsLost /\ K!SelectionIsOwn
  BY DEF K!ConsoleInvariant
<1>2. ASSUME kQueue = <<>>, ~kCut
      PROVE  /\ \A i \in K!Items \ stale : kListed[i] = server[i]
             /\ \A s \in Sessions \ stale : kShown[s] = 1..server[s]
  <2>1. K!Told = {}
    BY <1>2 DEF K!Told
  <2>2. /\ \A i \in K!Items \ stale : \A n \in 1..server[i] : n <= kListed[i]
        /\ \A s \in Sessions \ stale : \A n \in 1..server[s] : n \in kShown[s]
    BY <1>1, <1>2, <2>1 DEF K!NothingIsLost
  <2>3. ASSUME NEW i \in K!Items \ stale PROVE kListed[i] = server[i]
    <3>1. kListed[i] \in 0..server[i] /\ server[i] \in Nat
      BY <1>1, ConsoleKnown DEF K!AnswersAreOld
    <3>2. CASE server[i] = 0
      BY <3>1, <3>2
    <3>3. CASE server[i] # 0
      <4>1. server[i] \in 1..server[i]
        BY <3>1, <3>3
      <4>2. server[i] <= kListed[i]
        BY <2>2, <4>1
      <4>3. QED
        BY <3>1, <4>2
    <3>4. QED
      BY <3>2, <3>3
  <2>4. QED
    BY <1>1, <2>2, <2>3 DEF K!AnswersAreOld
<1>3. Sessions \subseteq K!Items /\ Tasks \subseteq K!Items
  BY DEF K!Items
<1>4. QED
  BY <1>1, <1>2, <1>3 DEF K!ConsoleCatchesUp

-----------------------------------------------------------------------------
(* The dashboard's music (src/hooks/useBachPlayer.js).                     *)

LEMMA ChannelsRead == B!ChannelsStay
<1>1. ASSUME NEW f \in B!Forms, NEW o \in {"channel", "playlist", "video"}
      PROVE  LET i == [form |-> f, of |-> o] IN
               B!Resolved(i) # "none" => B!Resolved(B!Canonical(i)) = B!Resolved(i)
  <2> DEFINE i == [form |-> f, of |-> o]
  <2>1. i.form = f /\ i.of = o
    OBVIOUS
  <2>2. B!Resolved(i) \in {"none", "channel", "playlist", "video"}
    BY <2>1 DEF B!Resolved
  <2>3. CASE B!Resolved(i) = "channel"
    BY <2>3 DEF B!Resolved, B!Canonical
  <2>4. CASE B!Resolved(i) = "playlist"
    BY <2>4 DEF B!Resolved, B!Canonical
  <2>5. CASE B!Resolved(i) = "video" /\ f = "short link"
    BY <2>5 DEF B!Resolved, B!Canonical
  <2>6. CASE B!Resolved(i) = "video" /\ f # "short link"
    BY <2>6 DEF B!Resolved, B!Canonical
  <2>7. QED
    BY <2>2, <2>3, <2>4, <2>5, <2>6
<1>2. QED
  <2> SUFFICES ASSUME NEW i \in B!Inputs
               PROVE  B!Resolved(i) # "none" => B!Resolved(B!Canonical(i)) = B!Resolved(i)
    BY DEF B!ChannelsStay
  <2>1. PICK f \in B!Forms, o \in {"channel", "playlist", "video"} : i = [form |-> f, of |-> o]
    BY DEF B!Inputs
  <2>2. QED
    BY <1>1, <2>1

PlayerStates == {"cued", "playing", "paused", "ended", "error"}
PlayerDemands == [do : {"load", "cue", "pause"}, url : Channels]

LEMMA ReportAdded ==
  ASSUME NEW q \in Seq(PlayerStates), NEW v \in PlayerStates
  PROVE  /\ Append(q, v) \in Seq(PlayerStates) /\ Append(q, v) # <<>>
         /\ Append(q, v)[Len(Append(q, v))] = v
         /\ \A i \in DOMAIN Append(q, v) : Append(q, v)[i] = v \/ \E j \in DOMAIN q : Append(q, v)[i] = q[j]
<1>1. /\ Len(q) \in Nat /\ DOMAIN q = 1..Len(q) /\ Len(Append(q, v)) = Len(q) + 1
      /\ \A i \in 1..Len(q) : Append(q, v)[i] = q[i]
      /\ Append(q, v)[Len(q) + 1] = v /\ DOMAIN Append(q, v) = 1..(Len(q) + 1)
      /\ Append(q, v) \in Seq(PlayerStates)
  BY AppendProperties
<1>2. Append(q, v) # <<>>
  BY <1>1
<1>3. \A i \in 1..(Len(q) + 1) : i \in 1..Len(q) \/ i = Len(q) + 1
  BY <1>1
<1>4. QED
  BY <1>1, <1>2, <1>3

LEMMA ReportHandled ==
  ASSUME NEW q \in Seq(PlayerStates), q # <<>>
  PROVE  /\ Tail(q) \in Seq(PlayerStates) /\ Head(q) \in PlayerStates
         /\ Tail(q) = <<>> => Head(q) = q[Len(q)]
         /\ Tail(q) # <<>> => Tail(q)[Len(Tail(q))] = q[Len(q)]
         /\ \E j \in DOMAIN q : Head(q) = q[j]
         /\ \A i \in DOMAIN Tail(q) : \E j \in DOMAIN q : Tail(q)[i] = q[j]
<1>1. /\ Tail(q) \in Seq(PlayerStates) /\ Head(q) \in PlayerStates /\ Head(q) = q[1] /\ Len(q) \in Nat \ {0}
      /\ DOMAIN q = 1..Len(q) /\ DOMAIN Tail(q) = 1..(Len(q) - 1) /\ Len(Tail(q)) = Len(q) - 1
      /\ \A k \in 1..(Len(q) - 1) : Tail(q)[k] = q[k + 1]
  OBVIOUS
<1>2. \A k \in 1..(Len(q) - 1) : k + 1 \in 1..Len(q)
  BY <1>1
<1>3. ASSUME Tail(q) = <<>> PROVE Len(q) = 1
  <2>1. Len(Tail(q)) = 0
    BY <1>1, <1>3, EmptySeq
  <2>2. Len(Tail(q)) = Len(q) - 1 /\ Len(q) \in Nat
    BY <1>1
  <2>3. QED
    BY <2>1, <2>2
<1>4. Tail(q) # <<>> => Len(q) - 1 \in 1..(Len(q) - 1) /\ (Len(q) - 1) + 1 = Len(q)
  BY <1>1
<1>5. 1 \in 1..Len(q)
  BY <1>1
<1>6. \A i \in DOMAIN Tail(q) : \E j \in DOMAIN q : Tail(q)[i] = q[j]
  BY <1>1, <1>2
<1>7. QED
  BY <1>1, <1>3, <1>4, <1>5, <1>6

LEMMA DemandAdded ==
  ASSUME NEW q \in Seq(PlayerDemands), NEW d \in PlayerDemands
  PROVE  /\ Append(q, d) \in Seq(PlayerDemands)
         /\ \A i \in DOMAIN q : i \in DOMAIN Append(q, d) /\ Append(q, d)[i] = q[i]
         /\ \E i \in DOMAIN Append(q, d) : Append(q, d)[i] = d
<1>1. /\ Len(q) \in Nat /\ DOMAIN q = 1..Len(q)
      /\ \A i \in 1..Len(q) : Append(q, d)[i] = q[i]
      /\ Append(q, d)[Len(q) + 1] = d /\ DOMAIN Append(q, d) = 1..(Len(q) + 1)
      /\ Append(q, d) \in Seq(PlayerDemands)
  BY AppendProperties
<1>2. 1..Len(q) \subseteq 1..(Len(q) + 1) /\ Len(q) + 1 \in 1..(Len(q) + 1)
  BY <1>1
<1>3. QED
  BY <1>1, <1>2

LEMMA DemandDone ==
  ASSUME NEW q \in Seq(PlayerDemands), q # <<>>
  PROVE  /\ Tail(q) \in Seq(PlayerDemands) /\ Head(q) \in PlayerDemands
         /\ \A j \in DOMAIN q : q[j] = Head(q) \/ \E i \in DOMAIN Tail(q) : Tail(q)[i] = q[j]
<1>1. /\ Tail(q) \in Seq(PlayerDemands) /\ Head(q) \in PlayerDemands /\ Head(q) = q[1] /\ Len(q) \in Nat \ {0}
      /\ DOMAIN q = 1..Len(q) /\ DOMAIN Tail(q) = 1..(Len(q) - 1)
      /\ \A k \in 1..(Len(q) - 1) : Tail(q)[k] = q[k + 1]
  OBVIOUS
<1>2. \A k \in 1..Len(q) : k = 1 \/ (k - 1 \in 1..(Len(q) - 1) /\ (k - 1) + 1 = k)
  BY <1>1
<1>3. ASSUME NEW j \in DOMAIN q, j # 1 PROVE \E i \in DOMAIN Tail(q) : Tail(q)[i] = q[j]
  <2>1. j - 1 \in DOMAIN Tail(q) /\ Tail(q)[j - 1] = q[j]
    BY <1>1, <1>2, <1>3
  <2>2. QED
    BY <2>1
<1>4. QED
  BY <1>1, <1>3

\* What a step does, as far as the invariant goes.
LEMMA MusicTypes ==
  ASSUME B!TypeOK
  PROVE  /\ ready \in {"loading", "ready", "failed"} /\ bPlaying \in BOOLEAN /\ requested \in BOOLEAN
         /\ url \in Channels /\ first \in Channels
         /\ video \in PlayerStates \cup {"none"} /\ demands \in Seq(PlayerDemands) /\ reports \in Seq(PlayerStates)
         /\ meant \in {"none", "play", "pause"} /\ belated \in BOOLEAN
         /\ clicks \in 0..MaxClicks /\ MaxClicks \in Nat
BY ClientBounds DEF B!TypeOK, PlayerStates, PlayerDemands

\* A click asks the player at most one thing more.
LEMMA MusicClicks ==
  ASSUME B!MusicInvariant,
         \/ B!Play \/ B!Pause \/ \E u \in Channels : B!Save(u)
  PROVE  B!MusicInvariant'
<1> SUFFICES B!TypeOK' /\ B!ReportsAreLate' /\ B!WishIsKept'
  BY DEF B!MusicInvariant
<1>0. B!TypeOK /\ B!ReportsAreLate /\ B!WishIsKept
  BY DEF B!MusicInvariant
<1>1. /\ ready \in {"loading", "ready", "failed"} /\ bPlaying \in BOOLEAN /\ requested \in BOOLEAN
      /\ url \in Channels /\ first \in Channels
      /\ video \in PlayerStates \cup {"none"} /\ demands \in Seq(PlayerDemands) /\ reports \in Seq(PlayerStates)
      /\ meant \in {"none", "play", "pause"} /\ belated \in BOOLEAN
      /\ clicks \in 0..MaxClicks /\ MaxClicks \in Nat
  BY <1>0, MusicTypes
<1>2. clicks' \in 0..MaxClicks /\ UNCHANGED <<ready, first, video, reports>>
  <2>1. B!Click
    BY DEF B!Play, B!Pause, B!Save
  <2>2. QED
    BY <1>1, <2>1 DEF B!Click
<1>3. /\ url' \in Channels /\ bPlaying' \in BOOLEAN /\ requested' \in BOOLEAN
      /\ meant' \in {"none", "play", "pause"} /\ belated' \in BOOLEAN
      /\ bPlaying' # bPlaying => bPlaying' = FALSE
  BY <1>1 DEF B!Play, B!Pause, B!Save
<1>4. \/ demands' = demands /\ bPlaying' = bPlaying
      \/ \E d \in PlayerDemands : /\ demands' = Append(demands, d)
                                  /\ ready = "ready" \/ bPlaying
                                  /\ bPlaying' = bPlaying \/ d.do = "pause"
  <2>1. CASE B!Play
    BY <1>1, <2>1 DEF B!Play, B!Asks, PlayerDemands
  <2>2. CASE B!Pause
    <3> DEFINE d == [do |-> "pause", url |-> url]
    <3>1. demands' = Append(demands, d) /\ bPlaying
      BY <2>2 DEF B!Pause, B!Asks
    <3>2. d \in PlayerDemands /\ d.do = "pause"
      BY <1>1 DEF PlayerDemands
    <3>3. QED
      BY <3>1, <3>2
  <2>3. ASSUME NEW u \in Channels, B!Save(u)
        PROVE \/ demands' = demands /\ bPlaying' = bPlaying
              \/ \E d \in PlayerDemands : /\ demands' = Append(demands, d)
                                          /\ ready = "ready" \/ bPlaying
                                          /\ bPlaying' = bPlaying \/ d.do = "pause"
    BY <1>1, <2>3 DEF B!Save, B!Asks, PlayerDemands
  <2>4. QED
    BY <2>1, <2>2, <2>3
<1>5. /\ demands' \in Seq(PlayerDemands)
      /\ (\E i \in DOMAIN demands : demands[i].do = "pause") => \E i \in DOMAIN demands' : demands'[i].do = "pause"
      /\ bPlaying' # bPlaying => \E i \in DOMAIN demands' : demands'[i].do = "pause"
      /\ ready = "loading" /\ ~bPlaying /\ demands = <<>> => demands' = <<>> /\ ~bPlaying'
  <2>1. CASE demands' = demands /\ bPlaying' = bPlaying
    BY <1>1, <2>1
  <2>2. ASSUME NEW d \in PlayerDemands, demands' = Append(demands, d),
               ready = "ready" \/ bPlaying, bPlaying' = bPlaying \/ d.do = "pause"
        PROVE  /\ demands' \in Seq(PlayerDemands)
               /\ (\E i \in DOMAIN demands : demands[i].do = "pause") => \E i \in DOMAIN demands' : demands'[i].do = "pause"
               /\ bPlaying' # bPlaying => \E i \in DOMAIN demands' : demands'[i].do = "pause"
               /\ ready = "loading" /\ ~bPlaying /\ demands = <<>> => demands' = <<>> /\ ~bPlaying'
    <3>1. /\ demands' \in Seq(PlayerDemands)
          /\ \A i \in DOMAIN demands : i \in DOMAIN demands' /\ demands'[i] = demands[i]
          /\ \E i \in DOMAIN demands' : demands'[i] = d
      BY <1>1, <2>2, DemandAdded
    <3>2. ~ (ready = "loading" /\ ~bPlaying)
      BY <2>2
    <3>3. QED
      BY <2>2, <3>1, <3>2
  <2>3. QED
    BY <1>4, <2>1, <2>2
<1>6. B!TypeOK'
  BY <1>1, <1>2, <1>3, <1>5 DEF B!TypeOK, PlayerStates, PlayerDemands
<1>7. B!ReportsAreLate'
  <2>1. ready' = "loading" => demands' = <<>> /\ reports' = <<>> /\ ~bPlaying' /\ video' = "none"
    BY <1>0, <1>2, <1>5 DEF B!ReportsAreLate
  <2>2. reports' # <<>> => reports'[Len(reports')] = video'
    BY <1>0, <1>2 DEF B!ReportsAreLate
  <2>3. ASSUME reports' = <<>>
        PROVE  /\ bPlaying' => video' = "playing"
               /\ video' = "playing" => bPlaying' \/ \E i \in DOMAIN demands' : demands'[i].do = "pause"
    <3>1. /\ bPlaying => video = "playing"
          /\ video = "playing" => bPlaying \/ \E i \in DOMAIN demands : demands[i].do = "pause"
      BY <1>0, <1>2, <2>3 DEF B!ReportsAreLate
    <3>2. QED
      BY <1>2, <1>3, <1>5, <3>1
  <2>4. QED
    BY <2>1, <2>2, <2>3 DEF B!ReportsAreLate
<1>8. B!WishIsKept'
  <2>1. CASE B!Play
    BY <2>1 DEF B!Play, B!WishIsKept
  <2>2. CASE B!Pause
    BY <1>2, <2>2 DEF B!Pause, B!WishIsKept
  <2>3. ASSUME NEW u \in Channels, B!Save(u) PROVE B!WishIsKept'
    BY <1>0, <1>2, <2>3 DEF B!Save, B!WishIsKept
  <2>4. QED
    BY <2>1, <2>2, <2>3
<1>9. QED
  BY <1>6, <1>7, <1>8

\* What the player does is told last.
LEMMA PlayerStays ==
  ASSUME B!MusicInvariant,
         \/ B!PlayerDoes \/ \E v \in {"playing", "ended"} : B!PlayerGoesOn(v)
  PROVE  B!MusicInvariant'
<1> SUFFICES B!TypeOK' /\ B!ReportsAreLate' /\ B!WishIsKept'
  BY DEF B!MusicInvariant
<1>0. B!TypeOK /\ B!ReportsAreLate /\ B!WishIsKept
  BY DEF B!MusicInvariant
<1>1. /\ ready \in {"loading", "ready", "failed"} /\ bPlaying \in BOOLEAN /\ requested \in BOOLEAN
      /\ url \in Channels /\ first \in Channels
      /\ video \in PlayerStates \cup {"none"} /\ demands \in Seq(PlayerDemands) /\ reports \in Seq(PlayerStates)
      /\ meant \in {"none", "play", "pause"} /\ belated \in BOOLEAN
      /\ clicks \in 0..MaxClicks /\ MaxClicks \in Nat
  BY <1>0, MusicTypes
<1>2. UNCHANGED <<ready, bPlaying, requested, url, first, meant, clicks>>
      /\ belated' = (belated \/ (meant = "pause" /\ video' = "playing"))
  BY DEF B!PlayerDoes, B!PlayerGoesOn
<1>3. \/ /\ video' = video /\ reports' = reports /\ video # "playing"
         /\ demands # <<>> /\ demands' = Tail(demands)
      \/ /\ video' \in PlayerStates /\ reports' = Append(reports, video')
         /\ (demands' = demands /\ video = "playing") \/ (demands # <<>> /\ demands' = Tail(demands))
  <2>1. ASSUME NEW v \in {"playing", "ended"}, B!PlayerGoesOn(v)
        PROVE  video' \in PlayerStates /\ reports' = Append(reports, video') /\ demands' = demands /\ video = "playing"
    BY <2>1 DEF B!PlayerGoesOn, PlayerStates
  <2>2. CASE B!PlayerDoes
    <3>1. PICK v \in B!Outcomes(Head(demands)) :
            /\ video' = v
            /\ reports' = IF Head(demands).do = "pause" /\ v = video THEN reports ELSE Append(reports, v)
      BY <2>2 DEF B!PlayerDoes
    <3>2. demands # <<>> /\ demands' = Tail(demands)
      BY <2>2 DEF B!PlayerDoes
    <3>3. Head(demands) \in PlayerDemands
      BY <1>1, <3>2, DemandDone
    <3>4. CASE Head(demands).do = "pause" /\ v = video
      <4>1. video # "playing"
        BY <3>1, <3>4 DEF B!Outcomes
      <4>2. QED
        BY <3>1, <3>2, <3>4, <4>1
    <3>5. CASE ~ (Head(demands).do = "pause" /\ v = video)
      <4>1. v \in PlayerStates
        BY <1>1, <3>1, <3>3, <3>5 DEF B!Outcomes, PlayerDemands, PlayerStates
      <4>2. QED
        BY <3>1, <3>2, <3>5, <4>1
    <3>6. QED
      BY <3>4, <3>5
  <2>3. QED
    BY <2>1, <2>2
<1>4. demands' \in Seq(PlayerDemands)
  BY <1>1, <1>3, DemandDone
<1>5. CASE video' = video /\ reports' = reports /\ video # "playing"
  <2>1. ready # "loading"
    BY <1>0, <1>3, <1>5 DEF B!ReportsAreLate
  <2>2. B!TypeOK'
    BY <1>1, <1>2, <1>4, <1>5 DEF B!TypeOK, PlayerStates, PlayerDemands
  <2>3. B!ReportsAreLate'
    BY <1>0, <1>2, <1>5, <2>1 DEF B!ReportsAreLate
  <2>4. B!WishIsKept'
    BY <1>0, <1>2, <1>5 DEF B!WishIsKept
  <2>5. QED
    BY <2>2, <2>3, <2>4
<1>6. CASE video' \in PlayerStates /\ reports' = Append(reports, video')
  <2>1. ready # "loading"
    BY <1>0, <1>3 DEF B!ReportsAreLate
  <2>2. /\ reports' \in Seq(PlayerStates) /\ reports' # <<>> /\ reports'[Len(reports')] = video'
        /\ \A i \in DOMAIN reports' : reports'[i] = video' \/ \E j \in DOMAIN reports : reports'[i] = reports[j]
    BY <1>1, <1>6, ReportAdded
  <2>3. B!TypeOK'
    <3>1. belated' \in BOOLEAN
      BY <1>1, <1>2
    <3>2. QED
      BY <1>1, <1>2, <1>4, <1>6, <2>2, <3>1 DEF B!TypeOK, PlayerStates, PlayerDemands
  <2>4. B!ReportsAreLate'
    BY <1>2, <2>1, <2>2 DEF B!ReportsAreLate
  <2>5. B!WishIsKept'
    <3>1. meant' = "play" => requested'
      BY <1>0, <1>2 DEF B!WishIsKept
    <3>2. ASSUME meant' = "pause", ~belated'
          PROVE  ~requested' /\ \A i \in DOMAIN reports' : reports'[i] # "playing"
      <4>1. ~requested /\ (\A i \in DOMAIN reports : reports[i] # "playing") /\ video' # "playing"
        BY <1>0, <1>2, <3>2 DEF B!WishIsKept
      <4>2. QED
        BY <1>2, <2>2, <4>1
    <3>3. QED
      BY <3>1, <3>2 DEF B!WishIsKept
  <2>6. QED
    BY <2>3, <2>4, <2>5
<1>7. QED
  BY <1>3, <1>5, <1>6

LEMMA ReportsStay ==
  ASSUME B!MusicInvariant, B!Reported
  PROVE  B!MusicInvariant'
<1> SUFFICES B!TypeOK' /\ B!ReportsAreLate' /\ B!WishIsKept'
  BY DEF B!MusicInvariant
<1>0. B!TypeOK /\ B!ReportsAreLate /\ B!WishIsKept
  BY DEF B!MusicInvariant
<1>1. /\ ready \in {"loading", "ready", "failed"} /\ bPlaying \in BOOLEAN /\ requested \in BOOLEAN
      /\ url \in Channels /\ first \in Channels
      /\ video \in PlayerStates \cup {"none"} /\ demands \in Seq(PlayerDemands) /\ reports \in Seq(PlayerStates)
      /\ meant \in {"none", "play", "pause"} /\ belated \in BOOLEAN
      /\ clicks \in 0..MaxClicks /\ MaxClicks \in Nat
  BY <1>0, MusicTypes
<1> DEFINE report == Head(reports)
<1>2. /\ reports # <<>> /\ reports' = Tail(reports)
      /\ bPlaying' = (report = "playing")
      /\ requested' = (report = "playing" \/ (report \in {"paused", "cued"} /\ requested))
      /\ meant' = (IF report \in {"ended", "error"} THEN "none" ELSE meant)
      /\ UNCHANGED <<ready, url, first, video, demands, belated, clicks>>
  BY DEF B!Reported, B!Keeps
<1>3. /\ reports' \in Seq(PlayerStates) /\ report \in PlayerStates
      /\ reports' = <<>> => report = reports[Len(reports)]
      /\ reports' # <<>> => reports'[Len(reports')] = reports[Len(reports)]
      /\ \E j \in DOMAIN reports : report = reports[j]
      /\ \A i \in DOMAIN reports' : \E j \in DOMAIN reports : reports'[i] = reports[j]
  BY <1>1, <1>2, ReportHandled
<1> HIDE DEF report
<1>4. B!TypeOK'
  <2>1. bPlaying' \in BOOLEAN /\ requested' \in BOOLEAN /\ belated' \in BOOLEAN
    BY <1>1, <1>2
  <2>2. meant' \in {"none", "play", "pause"}
    BY <1>1, <1>2
  <2>3. QED
    BY <1>1, <1>2, <1>3, <2>1, <2>2 DEF B!TypeOK, PlayerStates, PlayerDemands
<1>5. B!ReportsAreLate'
  <2>1. ready # "loading" /\ reports[Len(reports)] = video
    BY <1>0, <1>2 DEF B!ReportsAreLate
  <2>2. reports' # <<>> => reports'[Len(reports')] = video'
    BY <1>2, <1>3, <2>1
  <2>3. reports' = <<>> => (bPlaying' <=> video' = "playing")
    BY <1>2, <1>3, <2>1
  <2>4. QED
    BY <1>2, <2>1, <2>2, <2>3 DEF B!ReportsAreLate
<1>6. B!WishIsKept'
  <2>1. meant' = "play" => requested'
    BY <1>0, <1>2, <1>3 DEF B!WishIsKept, PlayerStates
  <2>2. ASSUME meant' = "pause", ~belated'
        PROVE  ~requested' /\ \A i \in DOMAIN reports' : reports'[i] # "playing"
    <3>1. meant = "pause" /\ ~belated
      BY <1>2, <2>2
    <3>2. ~requested /\ \A i \in DOMAIN reports : reports[i] # "playing"
      BY <1>0, <3>1 DEF B!WishIsKept
    <3>3. report # "playing"
      BY <1>3, <3>2
    <3>4. QED
      BY <1>2, <1>3, <3>2, <3>3
  <2>3. QED
    BY <2>1, <2>2 DEF B!WishIsKept
<1>7. QED
  BY <1>4, <1>5, <1>6

LEMMA MusicBegins ==
  ASSUME B!Init
  PROVE  B!MusicInvariant
<1>1. /\ ready = "loading" /\ url \in Channels /\ first \in Channels /\ video = "none"
      /\ demands = <<>> /\ reports = <<>> /\ meant = "none" /\ clicks \in 0..MaxClicks
  BY ClientBounds DEF B!Init
<1>2. bPlaying = FALSE /\ requested = FALSE /\ belated = FALSE
  BY DEF B!Init
<1>3. B!TypeOK
  <2>1. bPlaying \in BOOLEAN /\ requested \in BOOLEAN /\ belated \in BOOLEAN
    BY <1>2
  <2>2. QED
    BY <1>1, <2>1 DEF B!TypeOK
<1>4. QED
  BY <1>1, <1>2, <1>3 DEF B!MusicInvariant, B!ReportsAreLate, B!WishIsKept

LEMMA MusicStays ==
  ASSUME B!MusicInvariant, [B!Next]_bVars
  PROVE  B!MusicInvariant'
<1>0. B!TypeOK /\ B!ReportsAreLate /\ B!WishIsKept
  BY DEF B!MusicInvariant
<1>1. CASE B!BecomesReady
  <2>1. demands' \in Seq(PlayerDemands) /\ ready' = "ready"
        /\ UNCHANGED <<bPlaying, requested, url, first, video, reports, meant, belated, clicks>>
        /\ ready = "loading"
    BY <1>0, <1>1 DEF B!BecomesReady, B!TypeOK, PlayerDemands
  <2>2. B!TypeOK'
    BY <1>0, <2>1 DEF B!TypeOK, PlayerDemands
  <2>3. B!ReportsAreLate' /\ B!WishIsKept'
    BY <1>0, <2>1 DEF B!ReportsAreLate, B!WishIsKept
  <2>4. QED
    BY <2>2, <2>3 DEF B!MusicInvariant
<1>2. CASE B!LoadingFails
  <2>1. UNCHANGED <<bPlaying, requested, url, first, video, demands, reports, meant, belated, clicks>>
        /\ ready' = "failed"
    BY <1>2 DEF B!LoadingFails
  <2>2. B!TypeOK'
    BY <1>0, <2>1 DEF B!TypeOK
  <2>3. B!ReportsAreLate' /\ B!WishIsKept'
    BY <1>0, <2>1 DEF B!ReportsAreLate, B!WishIsKept
  <2>4. QED
    BY <2>2, <2>3 DEF B!MusicInvariant
<1>3. CASE UNCHANGED bVars
  <2>1. UNCHANGED <<ready, bPlaying, requested, url, first, video, demands, reports, meant, belated, clicks>>
    BY <1>3 DEF bVars
  <2>2. B!TypeOK'
    BY <1>0, <2>1 DEF B!TypeOK
  <2>3. B!ReportsAreLate' /\ B!WishIsKept'
    BY <1>0, <2>1 DEF B!ReportsAreLate, B!WishIsKept
  <2>4. QED
    BY <2>2, <2>3 DEF B!MusicInvariant
<1>4. QED
  BY <1>1, <1>2, <1>3, MusicClicks, PlayerStays, ReportsStay DEF B!Next

LEMMA MusicSuffices ==
  ASSUME B!MusicInvariant
  PROVE  B!MusicSettles
<1>1. demands = <<>> => ~ \E i \in DOMAIN demands : demands[i].do = "pause"
  OBVIOUS
<1>2. ASSUME demands = <<>>, reports = <<>> PROVE bPlaying = (video = "playing")
  <2>1. bPlaying \in BOOLEAN /\ (bPlaying <=> video = "playing")
    BY <1>1, <1>2 DEF B!MusicInvariant, B!TypeOK, B!ReportsAreLate
  <2>2. QED
    BY <2>1
<1>3. QED
  BY <1>2 DEF B!MusicInvariant, B!WishIsKept, B!MusicSettles

-----------------------------------------------------------------------------
(* The server's address (src/hooks/useServerAddress.js).                   *)

\* normalizeWsUrlInput: an address, of a scheme the browser's sockets have, whose port is not the
\* one the scheme implies; so that it is read as itself, but for port 80.
LEMMA AddressRead ==
  ASSUME NEW i \in D!Inputs, D!Normalized(i) # None
  PROVE  /\ D!Normalized(i) \in D!Addresses
         /\ D!Normalized(i) # D!Port80 => D!Normalized(D!Normalized(i)) = D!Normalized(i)
         /\ D!Normalized(D!Normalized(i)) \in D!Addresses
<1> DEFINE a == D!Normalized(i)
<1>1. /\ i.scheme \in {"none", "ws", "wss", "http", "https", "ftp"} /\ i.port \in {0, 80, 443, 8080}
      /\ i.scheme # "ftp"
  BY DEF D!Inputs, D!Normalized
<1>2. a = [scheme |-> IF D!Secure(i.scheme) THEN "wss" ELSE "ws",
           port |-> IF D!SeenPort(i) # 0 \/ D!Secure(i.scheme) THEN D!SeenPort(i)
                    ELSE IF i.scheme = "http" THEN 80 ELSE 8080]
  BY <1>1 DEF D!Normalized
<1>3. CASE D!Secure(i.scheme)
  <2>1. a = [scheme |-> "wss", port |-> D!SeenPort(i)] /\ D!SeenPort(i) \in {0, 80, 8080}
    BY <1>1, <1>2, <1>3 DEF D!SeenPort
  <2> HIDE DEF a
  <2>2. a.scheme = "wss" /\ a.port \in {0, 80, 8080} /\ D!SeenPort(a) = a.port
    BY <2>1 DEF D!SeenPort, D!Secure
  <2>3. D!Normalized(a) = [scheme |-> "wss", port |-> a.port]
    BY <2>2 DEF D!Normalized, D!Secure
  <2>4. D!Normalized(a) = a /\ a \in D!Addresses
    BY <2>1, <2>2, <2>3 DEF D!Addresses
  <2>5. QED
    BY <2>4 DEF a
<1>4. CASE ~ D!Secure(i.scheme)
  <2>1. PICK n \in {80, 443, 8080} : a = [scheme |-> "ws", port |-> n]
    BY <1>1, <1>2, <1>4 DEF D!SeenPort
  <2> HIDE DEF a
  <2>2. a.scheme = "ws" /\ a.port = n /\ ~ D!Secure(a.scheme) /\ a \in D!Addresses
    BY <2>1 DEF D!Secure, D!Addresses
  <2>3. CASE n = 80
    <3>1. a = D!Port80 /\ D!SeenPort(a) = 0
      BY <2>1, <2>2, <2>3 DEF D!Port80, D!SeenPort
    <3>2. D!Normalized(a) = [scheme |-> "ws", port |-> 8080]
      BY <2>2, <3>1 DEF D!Normalized
    <3>3. D!Normalized(a) \in D!Addresses
      BY <3>2 DEF D!Addresses
    <3>4. QED
      BY <2>2, <3>1, <3>3 DEF a
  <2>4. CASE n # 80
    <3>1. D!SeenPort(a) = n
      BY <2>1, <2>2, <2>4 DEF D!SeenPort
    <3>2. D!Normalized(a) = [scheme |-> "ws", port |-> n]
      BY <2>1, <2>2, <3>1 DEF D!Normalized
    <3>3. QED
      BY <2>1, <2>2, <3>2 DEF a
  <2>5. QED
    BY <2>3, <2>4
<1>5. QED
  BY <1>3, <1>4

LEMMA PortsRead == D!PortAsWritten
<1> SUFFICES ASSUME NEW i \in D!Inputs, D!Normalized(i) # None, i.port # 0,
                    ~(i.port = 80 /\ i.scheme \in {"ws", "none"})
             PROVE  D!Port(D!Normalized(i)) = i.port
  BY DEF D!PortAsWritten
<1> DEFINE a == D!Normalized(i)
<1>1. /\ i.scheme \in {"none", "ws", "wss", "http", "https"} /\ i.port \in {80, 443, 8080}
  BY DEF D!Inputs, D!Normalized
<1>2. a = [scheme |-> IF D!Secure(i.scheme) THEN "wss" ELSE "ws",
           port |-> IF D!SeenPort(i) # 0 \/ D!Secure(i.scheme) THEN D!SeenPort(i)
                    ELSE IF i.scheme = "http" THEN 80 ELSE 8080]
  BY <1>1 DEF D!Normalized
<1>3. CASE D!Secure(i.scheme)
  <2>1. a.scheme = "wss" /\ a.port = D!SeenPort(i)
    BY <1>2, <1>3
  <2>2. D!SeenPort(i) = IF i.port = 443 THEN 0 ELSE i.port
    BY <1>3 DEF D!SeenPort
  <2> HIDE DEF a
  <2>3. D!Port(a) = i.port
    BY <1>1, <2>1, <2>2 DEF D!Port, D!Secure
  <2>4. QED
    BY <2>3 DEF a
<1>4. CASE ~ D!Secure(i.scheme)
  <2>1. D!SeenPort(i) = IF i.port = 80 THEN 0 ELSE i.port
    BY <1>4 DEF D!SeenPort
  <2>2. i.port = 80 => i.scheme = "http"
    BY <1>1, <1>4 DEF D!Secure
  <2>3. a.scheme = "ws" /\ a.port = i.port
    BY <1>1, <1>2, <1>4, <2>1, <2>2
  <2> HIDE DEF a
  <2>4. D!Port(a) = i.port
    BY <1>1, <2>3 DEF D!Port, D!Secure
  <2>5. QED
    BY <2>4 DEF a
<1>5. QED
  BY <1>3, <1>4

\* The invariant in three parts: the addresses, the search and the rest.
AddressesFit ==
  /\ stored \in D!Addresses \cup {None} /\ stored = dChosen
  /\ stored # None => \E i \in D!Inputs : stored = D!Normalized(i)
  /\ wsUrl \in D!Addresses \cup {Default}
  /\ probe \in D!Addresses \cup {None, Default}
  /\ dSocket \in D!Addresses \cup {None, Default}
  /\ stored = None => wsUrl = Default
  /\ stored \notin {None, D!Port80} => wsUrl = stored
  /\ dSocket # None => dSocket = wsUrl
  /\ probe # None => ~hasStored

SearchesFit ==
  /\ scan \in {"idle", "scanning", "done", "error"} /\ beginning \in 0..MaxScans
  /\ scans \in 0..MaxScans /\ beginning <= scans
  /\ watching \in BOOLEAN /\ dTimer \in BOOLEAN /\ stray \in BOOLEAN
  /\ scan = "scanning" => beginning > 0 \/ dTimer \/ stray

FlagsFit ==
  /\ hasStored \in BOOLEAN /\ remote \in BOOLEAN /\ probed \in BOOLEAN /\ dOpen \in BOOLEAN
  /\ dPlaying \in BOOLEAN /\ intruded = FALSE

LEMMA AddressParts == D!AddressInvariant => AddressesFit /\ SearchesFit /\ FlagsFit
<1> SUFFICES ASSUME D!AddressInvariant PROVE AddressesFit /\ SearchesFit /\ FlagsFit
  OBVIOUS
<1>1. AddressesFit
  BY DEF D!AddressInvariant, D!TypeOK, D!AddressKept, AddressesFit
<1>2. SearchesFit
  BY DEF D!AddressInvariant, D!TypeOK, D!PanelIsCalm, SearchesFit
<1>3. FlagsFit
  BY DEF D!AddressInvariant, D!TypeOK, D!PanelIsCalm, FlagsFit
<1>4. QED
  BY <1>1, <1>2, <1>3

LEMMA AddressShown == AddressesFit' /\ SearchesFit' /\ FlagsFit' => D!AddressInvariant'
<1> SUFFICES ASSUME AddressesFit', SearchesFit', FlagsFit' PROVE D!AddressInvariant'
  OBVIOUS
<1>1. D!AddressKept'
  BY DEF D!AddressKept, D!Port80, AddressesFit
<1>2. D!PanelIsCalm'
  BY DEF D!PanelIsCalm, SearchesFit, FlagsFit
<1>3. \A b \in {hasStored', remote', probed', dOpen', dPlaying', watching', dTimer', stray', intruded'} : b \in BOOLEAN
  BY DEF SearchesFit, FlagsFit
<1>4. D!TypeOK'
  BY <1>3 DEF D!TypeOK, D!Addresses, AddressesFit, SearchesFit
<1>5. QED
  BY <1>1, <1>2, <1>4 DEF D!AddressInvariant, D!Normalized, D!Inputs, D!Addresses, D!SeenPort, D!Secure,
    AddressesFit, SearchesFit

LEMMA NoSearch ==
  ASSUME SearchesFit, scan' = "idle", beginning' = 0 \/ beginning' = beginning,
         watching' \in {watching, FALSE}, dTimer' = FALSE, stray' = FALSE, scans' = scans
  PROVE  SearchesFit'
<1>1. beginning' \in 0..MaxScans /\ scans' \in 0..MaxScans /\ beginning' <= scans'
  <2>1. MaxScans \in Nat /\ beginning \in 0..MaxScans /\ scans \in 0..MaxScans /\ beginning <= scans
    BY ClientBounds DEF SearchesFit
  <2>2. QED
    BY <2>1
<1>2. watching' \in BOOLEAN /\ dTimer' \in BOOLEAN /\ stray' \in BOOLEAN
  BY DEF SearchesFit
<1>3. QED
  BY <1>1, <1>2 DEF SearchesFit

LEMMA SameSearch ==
  ASSUME SearchesFit, UNCHANGED <<scan, beginning, watching, dTimer, stray, scans>>
  PROVE  SearchesFit'
BY DEF SearchesFit

\* The effects that follow a change of the address.
LEMMA RendersRight ==
  ASSUME AddressesFit, FlagsFit, D!Renders, remote' = remote, hasStored' \in BOOLEAN,
         wsUrl' \in D!Addresses \cup {Default}
  PROVE  /\ dSocket' \in D!Addresses \cup {None, Default} /\ (dSocket' # None => dSocket' = wsUrl')
         /\ probe' \in D!Addresses \cup {None, Default} /\ (probe' # None => ~hasStored')
         /\ probed' \in BOOLEAN
<1>1. dSocket' = (IF wsUrl' = wsUrl THEN dSocket ELSE IF dPlaying THEN wsUrl' ELSE None)
  BY DEF D!Renders
<1>2. dSocket' \in D!Addresses \cup {None, Default} /\ (dSocket' # None => dSocket' = wsUrl')
  BY <1>1 DEF AddressesFit
<1> DEFINE asks == remote /\ ~hasStored' /\ ~probed
<1>3. /\ probed' = (probed \/ asks)
      /\ probe' = IF asks THEN wsUrl' ELSE IF wsUrl' = wsUrl /\ hasStored' = hasStored THEN probe ELSE None
  BY DEF D!Renders
<1>4. probed' \in BOOLEAN
  BY <1>3 DEF FlagsFit
<1>5. CASE asks
  BY <1>2, <1>3, <1>4, <1>5
<1>6. CASE ~asks
  <2>1. (probe' = probe /\ hasStored' = hasStored) \/ probe' = None
    BY <1>3, <1>6
  <2>2. probe' \in D!Addresses \cup {None, Default} /\ (probe' # None => ~hasStored')
    BY <2>1 DEF AddressesFit
  <2>3. QED
    BY <1>2, <1>4, <2>2
<1>7. QED
  BY <1>5, <1>6

LEMMA SaveStays ==
  ASSUME AddressesFit, SearchesFit, FlagsFit, NEW i \in D!Inputs, D!Save(i)
  PROVE  AddressesFit' /\ SearchesFit' /\ FlagsFit'
<1>1. /\ D!Normalized(i) # None /\ stored' = D!Normalized(i) /\ wsUrl' = stored' /\ dChosen' = stored'
      /\ hasStored' = TRUE /\ D!Renders
      /\ UNCHANGED <<remote, dPlaying, beginning, watching, intruded, scans>>
      /\ dOpen' = FALSE /\ scan' = "idle" /\ dTimer' = FALSE /\ stray' = FALSE
  BY DEF D!Save, D!Closes
<1>2. D!Normalized(i) \in D!Addresses
  BY <1>1, AddressRead
<1>3. /\ dSocket' \in D!Addresses \cup {None, Default} /\ (dSocket' # None => dSocket' = wsUrl')
      /\ probe' \in D!Addresses \cup {None, Default} /\ (probe' # None => ~hasStored')
      /\ probed' \in BOOLEAN
  BY <1>1, <1>2, RendersRight
<1>4. AddressesFit'
  BY <1>1, <1>2, <1>3 DEF AddressesFit
<1>5. SearchesFit'
  BY <1>1, NoSearch
<1>6. FlagsFit'
  BY <1>1, <1>3 DEF FlagsFit
<1>7. QED
  BY <1>4, <1>5, <1>6

LEMMA ResetStays ==
  ASSUME AddressesFit, SearchesFit, FlagsFit, D!Reset
  PROVE  AddressesFit' /\ SearchesFit' /\ FlagsFit'
<1>1. /\ stored' = None /\ wsUrl' = Default /\ dChosen' = None
      /\ hasStored' = FALSE /\ D!Renders
      /\ UNCHANGED <<remote, dOpen, dPlaying, scan, beginning, watching, dTimer, stray, intruded, scans>>
  BY DEF D!Reset, D!search
<1>2. /\ dSocket' \in D!Addresses \cup {None, Default} /\ (dSocket' # None => dSocket' = wsUrl')
      /\ probe' \in D!Addresses \cup {None, Default} /\ (probe' # None => ~hasStored')
      /\ probed' \in BOOLEAN
  BY <1>1, RendersRight
<1>3. AddressesFit'
  BY <1>1, <1>2 DEF AddressesFit
<1>4. SearchesFit'
  BY <1>1, SameSearch
<1>5. FlagsFit'
  BY <1>1, <1>2 DEF FlagsFit
<1>6. QED
  BY <1>3, <1>4, <1>5

\* Opened again, the page has the address that is stored, as it is read now.
LEMMA ReloadStays ==
  ASSUME AddressesFit, SearchesFit, FlagsFit, D!Reload
  PROVE  AddressesFit' /\ SearchesFit' /\ FlagsFit'
<1>1. /\ wsUrl' = (IF D!Restored(stored) = None THEN Default ELSE D!Restored(stored))
      /\ hasStored' = (D!Restored(stored) # None)
      /\ probe' = (IF remote /\ D!Restored(stored) = None THEN wsUrl' ELSE None)
      /\ probed' = (probe' # None)
      /\ dOpen' = FALSE /\ dPlaying' = FALSE /\ dSocket' = None
      /\ scan' = "idle" /\ beginning' = 0 /\ watching' = FALSE /\ dTimer' = FALSE /\ stray' = FALSE
      /\ UNCHANGED <<stored, remote, dChosen, intruded, scans>>
  BY DEF D!Reload, D!Opened
<1>2. /\ stored = None => D!Restored(stored) = None
      /\ stored # None => /\ D!Restored(stored) \in D!Addresses
                          /\ stored # D!Port80 => D!Restored(stored) = stored
  <2>1. CASE stored = None
    BY <2>1 DEF D!Restored
  <2>2. CASE stored # None
    <3>1. PICK i \in D!Inputs : stored = D!Normalized(i)
      BY <2>2 DEF AddressesFit
    <3>2. D!Restored(stored) = D!Normalized(D!Normalized(i))
      BY <2>2, <3>1 DEF D!Restored
    <3>3. QED
      BY <2>2, <3>1, <3>2, AddressRead
  <2>3. QED
    BY <2>1, <2>2
<1>3. hasStored' \in BOOLEAN /\ probed' \in BOOLEAN /\ (probe' # None => ~hasStored')
  BY <1>1
<1>4. AddressesFit'
  BY <1>1, <1>2, <1>3, NoneIsNoAddress DEF AddressesFit
<1>5. SearchesFit'
  BY <1>1, NoSearch
<1>6. FlagsFit'
  BY <1>1, <1>3 DEF FlagsFit
<1>7. QED
  BY <1>4, <1>5, <1>6

LEMMA SearchStays ==
  ASSUME AddressesFit, SearchesFit, FlagsFit, D!Search
  PROVE  AddressesFit' /\ SearchesFit' /\ FlagsFit'
<1>1. UNCHANGED <<stored, wsUrl, hasStored, dChosen, remote, probe, probed, dOpen, dPlaying, dSocket, intruded>>
  BY DEF D!Search, D!address, D!screen
<1>2. AddressesFit'
  BY <1>1 DEF AddressesFit
<1>3. FlagsFit'
  BY <1>1 DEF FlagsFit
<1>4. SearchesFit'
  <2>0. MaxScans \in Nat /\ beginning \in Nat /\ scans \in Nat
    BY ClientBounds DEF SearchesFit
  <2>1. CASE D!Discover
    <3>1. scans' = scans + 1 /\ scans < MaxScans /\ scan' = "scanning" /\ beginning' = beginning + 1
          /\ stray' = FALSE /\ watching' = watching /\ dTimer' = dTimer
      BY <2>1 DEF D!Discover
    <3>2. beginning' \in 0..MaxScans /\ scans' \in 0..MaxScans /\ beginning' <= scans' /\ beginning' > 0
      BY <2>0, <3>1 DEF SearchesFit
    <3>3. watching' \in BOOLEAN /\ dTimer' \in BOOLEAN /\ stray' \in BOOLEAN
      BY <3>1 DEF SearchesFit
    <3>4. QED
      BY <3>1, <3>2, <3>3 DEF SearchesFit
  <2>2. CASE D!Begins
    <3>1. /\ beginning > 0 /\ beginning' = beginning - 1 /\ stray' = stray /\ scans' = scans
          /\ \/ watching' = TRUE /\ dTimer' = TRUE /\ scan' = scan
             \/ scan' = "error" /\ watching' = watching /\ dTimer' = dTimer
      BY <2>2 DEF D!Begins
    <3>2. beginning' \in 0..MaxScans /\ beginning' <= scans'
      BY <2>0, <3>1 DEF SearchesFit
    <3>3. QED
      BY <3>1, <3>2 DEF SearchesFit
  <2>3. CASE D!Found
    <3>1. /\ watching /\ scan' = "scanning" /\ stray' = (stray \/ (~dTimer /\ beginning = 0))
          /\ UNCHANGED <<beginning, watching, dTimer, scans>>
      BY <2>3 DEF D!Found
    <3>2. stray' \in BOOLEAN /\ watching' \in BOOLEAN /\ dTimer' \in BOOLEAN
      BY <3>1 DEF SearchesFit
    <3>3. beginning > 0 \/ dTimer \/ stray'
      <4>1. beginning = 0 \/ beginning > 0
        BY <2>0
      <4>2. ~dTimer /\ beginning = 0 => stray'
        BY <3>1, Zenon
      <4>3. QED
        BY <4>1, <4>2
    <3>4. beginning' \in 0..MaxScans /\ scans' \in 0..MaxScans /\ beginning' <= scans'
      BY <3>1 DEF SearchesFit
    <3>5. beginning' > 0 \/ dTimer' \/ stray'
      BY <3>1, <3>3
    <3>6. QED
      <4>1. scan' \in {"idle", "scanning", "done", "error"}
        BY <3>1
      <4>2. QED
        BY <3>2, <3>4, <3>5, <4>1 DEF SearchesFit
  <2>4. CASE D!TimerFires
    <3>1. /\ dTimer' = FALSE /\ watching' \in {FALSE, watching} /\ scan' = "done"
          /\ UNCHANGED <<beginning, stray, scans>>
      BY <2>4 DEF D!TimerFires
    <3>2. QED
      BY <3>1 DEF SearchesFit
  <2>5. QED
    BY <2>1, <2>2, <2>3, <2>4 DEF D!Search
<1>5. QED
  BY <1>2, <1>3, <1>4

\* The panel, the first test and the game.
LEMMA PanelStays ==
  ASSUME AddressesFit, SearchesFit, FlagsFit, D!Toggle \/ D!Game \/ \E ok \in BOOLEAN : D!Probed(ok)
  PROVE  AddressesFit' /\ SearchesFit' /\ FlagsFit'
<1>1. CASE D!Toggle
  <2>1. /\ UNCHANGED <<stored, wsUrl, hasStored, dChosen, remote, probe, probed, dPlaying, dSocket, beginning,
                       watching, intruded, scans>>
        /\ dOpen' \in BOOLEAN
        /\ \/ scan' = "idle" /\ dTimer' = FALSE /\ stray' = FALSE
           \/ UNCHANGED <<scan, dTimer, stray>>
    BY <1>1 DEF D!Toggle, D!Closes, D!address
  <2>2. SearchesFit'
    BY <2>1, NoSearch, SameSearch
  <2>3. AddressesFit' /\ FlagsFit'
    BY <2>1 DEF AddressesFit, FlagsFit
  <2>4. QED
    BY <2>2, <2>3
<1>2. CASE D!Game
  <2>1. /\ UNCHANGED <<stored, wsUrl, hasStored, dChosen, remote, probe, probed, dOpen, scan, beginning,
                       watching, dTimer, stray, intruded, scans>>
        /\ dPlaying' \in {dPlaying, TRUE, FALSE} /\ dSocket' \in {None, wsUrl}
    BY <1>2 DEF D!Game, D!StartGame, D!StopGame, D!SocketDrops, D!address, D!search
  <2>2. SearchesFit'
    BY <2>1, SameSearch
  <2>3. AddressesFit' /\ FlagsFit'
    BY <2>1 DEF AddressesFit, FlagsFit
  <2>4. QED
    BY <2>2, <2>3
<1>3. ASSUME NEW ok \in BOOLEAN, D!Probed(ok) PROVE AddressesFit' /\ SearchesFit' /\ FlagsFit'
  <2>1. /\ UNCHANGED <<stored, wsUrl, hasStored, dChosen, remote, probed, dPlaying, dSocket, scan, beginning,
                       watching, dTimer, stray, scans>>
        /\ probe # None /\ probe' = None /\ dOpen' = (dOpen \/ ~ok)
        /\ intruded' = (intruded \/ (~ok /\ ~dOpen /\ hasStored))
    BY <1>3 DEF D!Probed, D!address, D!search
  <2>2. SearchesFit'
    BY <2>1, SameSearch
  <2>3. intruded' = FALSE /\ dOpen' \in BOOLEAN
    BY <2>1 DEF AddressesFit, FlagsFit
  <2>4. AddressesFit' /\ FlagsFit'
    BY <2>1, <2>3 DEF AddressesFit, FlagsFit
  <2>5. QED
    BY <2>2, <2>4
<1>4. QED
  BY <1>1, <1>2, <1>3

LEMMA AddressBegins ==
  ASSUME D!Init
  PROVE  D!AddressInvariant
<1>1. /\ stored = None /\ wsUrl = Default /\ dChosen = None /\ dSocket = None
      /\ probe = (IF remote THEN Default ELSE None)
      /\ scan = "idle" /\ beginning = 0 /\ scans = 0 /\ MaxScans \in Nat
  BY ClientBounds DEF D!Init
<1>2. /\ hasStored = FALSE /\ remote \in BOOLEAN /\ probed = remote /\ dOpen = FALSE /\ dPlaying = FALSE
      /\ watching = FALSE /\ dTimer = FALSE /\ stray = FALSE /\ intruded = FALSE
  BY DEF D!Init
<1>3. D!AddressKept
  BY <1>1 DEF D!AddressKept
<1>4. D!PanelIsCalm
  BY <1>1, <1>2 DEF D!PanelIsCalm
<1>5. \A b \in {hasStored, remote, probed, dOpen, dPlaying, watching, dTimer, stray, intruded} : b \in BOOLEAN
  BY <1>2
<1>6. D!TypeOK
  BY <1>1, <1>5 DEF D!TypeOK
<1>7. QED
  BY <1>1, <1>2, <1>3, <1>4, <1>6 DEF D!AddressInvariant

LEMMA AddressStays ==
  ASSUME D!AddressInvariant, [D!Next]_dVars
  PROVE  D!AddressInvariant'
<1>1. AddressesFit /\ SearchesFit /\ FlagsFit
  BY AddressParts
<1>2. CASE UNCHANGED dVars
  <2>1. AddressesFit' /\ SearchesFit' /\ FlagsFit'
    BY <1>1, <1>2 DEF dVars, AddressesFit, SearchesFit, FlagsFit
  <2>2. QED
    BY <2>1, AddressShown
<1>3. CASE D!Next
  <2>1. AddressesFit' /\ SearchesFit' /\ FlagsFit'
    BY <1>1, <1>3, SaveStays, ResetStays, ReloadStays, SearchStays, PanelStays DEF D!Next
  <2>2. QED
    BY <2>1, AddressShown
<1>4. QED
  BY <1>2, <1>3

LEMMA AddressSuffices ==
  ASSUME D!AddressInvariant
  PROVE  D!AddressKept /\ D!PanelIsCalm
BY DEF D!AddressInvariant

-----------------------------------------------------------------------------
(* The review of a branch (buildReview of maestro-server.js).              *)

LEMMA ReviewCounts ==
  ASSUME NEW s PROVE V!Cardinality(s) = Cardinality(s)
BY DEF V!Cardinality, Cardinality

\* The type, in two parts.
ReviewRead ==
  /\ commits \in 0 .. MaxLogged
  /\ waits \in {"none", "verify", "log", "numstat", "name-status", "patch", "answered",
                "BRANCH_NOT_FOUND", "REVIEW_FAILED"}
  /\ stats \subseteq [file : Files, arrow : BOOLEAN, binary : BOOLEAN]
  /\ vStatus \in [Files -> {None, "added", "deleted", "renamed", "modified"}]
  /\ patches \in [Files -> {None, "binary", "empty", "cut", "whole"}]
  /\ mergeable \in BOOLEAN \cup {None}

ReviewBranch == branch \in V!BranchStates /\ moved \in BOOLEAN /\ moves \in 0 .. MaxMoves

LEMMA ReviewTypes == (V!TypeOK <=> ReviewRead /\ ReviewBranch) /\ (V!TypeOK' <=> ReviewRead' /\ ReviewBranch')
BY DEF V!TypeOK, ReviewRead, ReviewBranch, V!BranchStates, V!Changes, V!Gone

LEMMA BranchFacts ==
  ASSUME ReviewBranch
  PROVE  /\ branch.commits \in 0 .. MaxLogged + 1 /\ branch.clean \in BOOLEAN
         /\ branch.files \in [Files -> V!Changes]
<1> DEFINE S == [files : [Files -> V!Changes], commits : 0 .. MaxLogged + 1, clean : BOOLEAN, exists : {TRUE}]
<1>1. CASE branch = V!Gone
  <2>1. branch = [files |-> [f \in Files |-> "same"], commits |-> 0, clean |-> TRUE, exists |-> FALSE]
    BY <1>1 DEF V!Gone
  <2>2. branch.files = [f \in Files |-> "same"] /\ branch.commits = 0 /\ branch.clean = TRUE
    BY <2>1
  <2>3. "same" \in V!Changes
    BY DEF V!Changes
  <2>4. [f \in Files |-> "same"] \in [Files -> V!Changes]
    BY <2>3
  <2>5. branch.files \in [Files -> V!Changes]
    BY <2>2, <2>4
  <2>6. branch.commits \in 0 .. MaxLogged + 1
    BY <2>2, ClientBounds
  <2>7. QED
    BY <2>2, <2>5, <2>6
<1>2. CASE branch \in S
  BY <1>2
<1>3. QED
  BY <1>1, <1>2 DEF ReviewBranch, V!BranchStates

LEMMA StatTyped ==
  ASSUME NEW f \in Files
  PROVE  V!Stat(f) \in [file : Files, arrow : BOOLEAN, binary : BOOLEAN]
BY DEF V!Stat

LEMMA StatusTyped ==
  ASSUME NEW f PROVE V!Status(f) \in {"added", "deleted", "renamed", "modified"}
BY DEF V!Status

\* The commands, of which none changes the branch.
LEMMA CommandsTyped ==
  ASSUME ReviewRead, ReviewBranch,
         \/ V!ReadBase \/ V!Verify \/ V!ReadLog \/ V!ReadStats \/ V!ReadStatus \/ V!ReadPatch \/ V!TryMerge
         \/ V!GitFails
  PROVE  ReviewRead' /\ UNCHANGED <<branch, moved, moves>>
<1>0. /\ commits \in 0 .. MaxLogged /\ MaxLogged \in Nat
      /\ stats \subseteq [file : Files, arrow : BOOLEAN, binary : BOOLEAN]
      /\ vStatus \in [Files -> {None, "added", "deleted", "renamed", "modified"}]
      /\ patches \in [Files -> {None, "binary", "empty", "cut", "whole"}]
      /\ mergeable \in BOOLEAN \cup {None}
  BY ClientBounds DEF ReviewRead
<1>1. CASE V!ReadBase \/ V!Verify \/ V!GitFails
  <2>1. UNCHANGED <<branch, moved, moves, commits, stats, vStatus, patches, mergeable>>
        /\ waits' \in {"verify", "log", "BRANCH_NOT_FOUND", "REVIEW_FAILED"}
    BY <1>1 DEF V!ReadBase, V!Verify, V!GitFails, V!Asks, V!answers
  <2>2. QED
    BY <1>0, <2>1 DEF ReviewRead
<1>2. CASE V!ReadLog
  <2>1. /\ UNCHANGED <<branch, moved, moves, stats, vStatus, patches, mergeable>> /\ waits' = "numstat"
        /\ commits' = IF branch.commits > MaxLogged THEN MaxLogged ELSE branch.commits
    BY <1>2 DEF V!ReadLog, V!Asks
  <2>2. commits' \in 0 .. MaxLogged
    BY <1>0, <2>1, BranchFacts
  <2>3. QED
    BY <1>0, <2>1, <2>2 DEF ReviewRead
<1>3. CASE V!ReadStats
  <2>1. /\ UNCHANGED <<branch, moved, moves, commits, vStatus, patches, mergeable>> /\ waits' = "name-status"
        /\ stats' = {V!Stat(f) : f \in V!Changed(branch)}
    BY <1>3 DEF V!ReadStats, V!Asks
  <2>2. stats' \subseteq [file : Files, arrow : BOOLEAN, binary : BOOLEAN]
    BY <2>1, StatTyped DEF V!Changed
  <2>3. QED
    BY <1>0, <2>1, <2>2 DEF ReviewRead
<1>4. CASE V!ReadStatus
  <2>1. /\ UNCHANGED <<branch, moved, moves, commits, stats, patches, mergeable>> /\ waits' = "patch"
        /\ vStatus' = [f \in Files |-> IF f \in V!Changed(branch) THEN V!Status(f) ELSE None]
    BY <1>4 DEF V!ReadStatus, V!Asks
  <2>2. vStatus' \in [Files -> {None, "added", "deleted", "renamed", "modified"}]
    BY <2>1, StatusTyped
  <2>3. QED
    BY <1>0, <2>1, <2>2 DEF ReviewRead
<1>5. CASE V!ReadPatch
  <2>1. PICK s \in V!Listed :
          /\ waits' = "patch" /\ UNCHANGED <<branch, moved, moves, commits, stats, vStatus, mergeable>>
          /\ patches' = [patches EXCEPT ![s.file] = IF s.binary THEN "binary" ELSE V!Patch(s)]
    BY <1>5 DEF V!ReadPatch, V!Asks
  <2>2. (IF s.binary THEN "binary" ELSE V!Patch(s)) \in {"binary", "empty", "cut", "whole"}
    BY DEF V!Patch, V!Astray
  <2>3. patches' \in [Files -> {None, "binary", "empty", "cut", "whole"}]
    BY <1>0, <2>1, <2>2
  <2>4. QED
    BY <1>0, <2>1, <2>3 DEF ReviewRead
<1>6. CASE V!TryMerge
  <2>1. /\ UNCHANGED <<branch, moved, moves, commits, stats, vStatus, patches>> /\ waits' = "answered"
        /\ mergeable' \in {None} \cup (IF branch.exists THEN {branch.clean} ELSE {})
    BY <1>6 DEF V!TryMerge, V!Asks
  <2>2. mergeable' \in BOOLEAN \cup {None}
    BY <2>1, BranchFacts
  <2>3. QED
    BY <1>0, <2>1, <2>2 DEF ReviewRead
<1>7. QED
  BY <1>1, <1>2, <1>3, <1>4, <1>5, <1>6

\* What others do to the branch.
LEMMA MovesTyped ==
  ASSUME ReviewRead, ReviewBranch, V!Push \/ V!Merged \/ V!Deleted
  PROVE  /\ ReviewBranch' /\ moved' = TRUE
         /\ waits \notin {"none", "answered", "BRANCH_NOT_FOUND", "REVIEW_FAILED"}
         /\ UNCHANGED <<waits, commits, stats, vStatus, patches, mergeable>>
<1>1. /\ moved' = TRUE /\ moves < MaxMoves /\ moves' = moves + 1
      /\ waits \notin {"none", "answered", "BRANCH_NOT_FOUND", "REVIEW_FAILED"}
      /\ UNCHANGED <<waits, commits, stats, vStatus, patches, mergeable>>
  BY DEF V!Push, V!Merged, V!Deleted, V!Moves, V!answers
<1>2. moves' \in 0 .. MaxMoves
  BY <1>1, ClientBounds DEF ReviewBranch
<1>3. V!Gone \in V!BranchStates
  BY DEF V!BranchStates
<1>4. [V!Gone EXCEPT !.exists = TRUE] \in V!BranchStates
  <2> DEFINE b == [V!Gone EXCEPT !.exists = TRUE]
  <2>1. V!Gone \in [files : [Files -> V!Changes], commits : 0 .. MaxLogged + 1, clean : BOOLEAN, exists : BOOLEAN]
    BY ClientBounds DEF V!Gone, V!Changes
  <2>2. V!Gone.commits = 0 /\ \A f \in Files : V!Gone.files[f] = "same"
    BY DEF V!Gone
  <2>3. b \in [files : [Files -> V!Changes], commits : 0 .. MaxLogged + 1, clean : BOOLEAN, exists : {TRUE}]
    BY <2>1
  <2>4. b.commits = 0 /\ \A f \in Files : b.files[f] = "same"
    BY <2>1, <2>2
  <2> HIDE DEF b
  <2>5. b \in V!BranchStates
    BY <2>3, <2>4 DEF V!BranchStates
  <2>6. QED
    BY <2>5 DEF b
<1>5. CASE V!Push
  <2>1. PICK f \in Files, change \in V!Changes, clean \in BOOLEAN :
          branch' = [branch EXCEPT !.files[f] = change, !.commits = @ + 1, !.clean = clean]
    BY <1>5 DEF V!Push
  <2>2. branch.exists /\ branch.commits <= MaxLogged /\ V!Changed(branch') # {}
    BY <1>5 DEF V!Push
  <2>3. branch # V!Gone
    BY <2>2 DEF V!Gone
  <2>4. branch \in [files : [Files -> V!Changes], commits : 0 .. MaxLogged + 1, clean : BOOLEAN, exists : {TRUE}]
    BY <2>3 DEF ReviewBranch, V!BranchStates
  <2>5. branch.commits + 1 \in 0 .. MaxLogged + 1 /\ branch.commits + 1 # 0
    BY <2>2, <2>4, ClientBounds
  <2>6. branch' \in [files : [Files -> V!Changes], commits : 0 .. MaxLogged + 1, clean : BOOLEAN, exists : {TRUE}]
        /\ branch'.commits = branch.commits + 1
    BY <2>1, <2>4, <2>5
  <2>7. \E g \in Files : branch'.files[g] # "same"
    BY <2>2 DEF V!Changed
  <2>8. branch' \in V!BranchStates
    BY <2>5, <2>6, <2>7 DEF V!BranchStates
  <2>9. QED
    BY <1>1, <1>2, <2>8 DEF ReviewBranch, V!BranchStates, V!Gone, V!Changes
<1>6. CASE V!Merged \/ V!Deleted
  <2>1. branch' \in {V!Gone, [V!Gone EXCEPT !.exists = TRUE]}
    BY <1>6 DEF V!Merged, V!Deleted
  <2>2. branch' \in V!BranchStates
    BY <1>3, <1>4, <2>1
  <2>3. QED
    BY <1>1, <1>2, <2>2 DEF ReviewBranch, V!BranchStates, V!Gone, V!Changes
<1>7. QED
  BY <1>5, <1>6

LEMMA MovesAgree ==
  ASSUME ReviewRead, ReviewBranch, V!ReviewAgrees, V!Push \/ V!Merged \/ V!Deleted
  PROVE  V!ReviewAgrees'
BY MovesTyped DEF V!ReviewAgrees

\* The commands, each on the branch as it is.
LEMMA CommandsAgree ==
  ASSUME ReviewRead, ReviewBranch, V!ReviewAgrees,
         \/ V!ReadBase \/ V!Verify \/ V!ReadLog \/ V!ReadStats \/ V!ReadStatus \/ V!ReadPatch \/ V!TryMerge
         \/ V!GitFails
  PROVE  V!ReviewAgrees'
<1>1. CASE V!ReadBase \/ V!Verify \/ V!GitFails
  <2>1. UNCHANGED <<branch, moved, commits, stats, vStatus, patches, mergeable>>
    BY <1>1 DEF V!ReadBase, V!Verify, V!GitFails, V!Asks, V!answers
  <2>2. /\ waits' \in {"verify", "log", "BRANCH_NOT_FOUND", "REVIEW_FAILED"}
        /\ waits' \in {"verify", "log"} => waits \in {"none", "verify"}
    BY <1>1 DEF V!ReadBase, V!Verify, V!GitFails, V!Asks
  <2>3. QED
    BY <2>1, <2>2 DEF V!ReviewAgrees
<1>2. CASE V!ReadLog
  <2>1. /\ UNCHANGED <<branch, moved, stats, vStatus, patches, mergeable>> /\ waits = "log" /\ waits' = "numstat"
        /\ commits' = IF branch.commits > MaxLogged THEN MaxLogged ELSE branch.commits
    BY <1>2 DEF V!ReadLog, V!Asks
  <2>2. commits' = branch'.commits \/ commits' = MaxLogged
    BY <2>1
  <2>3. patches' = [f \in Files |-> None]
    BY <2>1 DEF V!ReviewAgrees
  <2>4. QED
    BY <2>1, <2>2, <2>3 DEF V!ReviewAgrees
<1>3. CASE V!ReadStats
  <2>1. /\ UNCHANGED <<branch, moved, commits, vStatus, patches, mergeable>>
        /\ waits = "numstat" /\ waits' = "name-status"
        /\ stats' = {V!Stat(f) : f \in V!Changed(branch)}
    BY <1>3 DEF V!ReadStats, V!Asks
  <2>2. patches' = [f \in Files |-> None] /\ (~moved => commits = branch.commits \/ commits = MaxLogged)
    BY <2>1 DEF V!ReviewAgrees
  <2>3. {V!Stat(f) : f \in V!Changed(branch)} = {V!Stat(f) : f \in V!Changed(branch)}'
    BY <2>1 DEF V!Stat, V!Changed
  <2>4. QED
    BY <2>1, <2>2, <2>3 DEF V!ReviewAgrees
<1>4. CASE V!ReadStatus
  <2>1. /\ UNCHANGED <<branch, moved, commits, stats, patches, mergeable>>
        /\ waits = "name-status" /\ waits' = "patch"
        /\ vStatus' = [f \in Files |-> IF f \in V!Changed(branch) THEN V!Status(f) ELSE None]
    BY <1>4 DEF V!ReadStatus, V!Asks
  <2>2. /\ patches' = [f \in Files |-> None]
        /\ ~moved => commits = branch.commits \/ commits = MaxLogged
        /\ ~moved => stats = {V!Stat(f) : f \in V!Changed(branch)}
    BY <2>1 DEF V!ReviewAgrees
  <2>3. [f \in Files |-> IF f \in V!Changed(branch) THEN V!Status(f) ELSE None]
        = [f \in Files |-> IF f \in V!Changed(branch) THEN V!Status(f) ELSE None]'
    BY <2>1 DEF V!Status, V!Changed
  <2>4. {V!Stat(f) : f \in V!Changed(branch)} = {V!Stat(f) : f \in V!Changed(branch)}'
    BY <2>1 DEF V!Stat, V!Changed
  <2>5. \A s \in V!Listed' : patches'[s.file] = None
    <3>1. \A s \in V!Listed' : s.file \in Files
      BY <2>1 DEF ReviewRead, V!Listed
    <3>2. QED
      BY <2>2, <3>1
  <2>6. QED
    BY <2>1, <2>2, <2>3, <2>4, <2>5 DEF V!ReviewAgrees
<1>5. CASE V!ReadPatch
  <2>1. PICK s \in V!Listed :
          /\ UNCHANGED <<branch, moved, commits, stats, vStatus, mergeable>>
          /\ waits = "patch" /\ waits' = "patch"
          /\ patches' = [patches EXCEPT ![s.file] = IF s.binary THEN "binary" ELSE V!Patch(s)]
    BY <1>5 DEF V!ReadPatch, V!Asks
  <2>2. V!Listed' = V!Listed
    BY <2>1 DEF V!Listed
  <2>3. ASSUME NEW t PROVE V!Patch(t)' = V!Patch(t)
    BY <2>1 DEF V!Patch, V!Astray
  <2>4. /\ [f \in Files |-> IF f \in V!Changed(branch) THEN V!Status(f) ELSE None]
           = [f \in Files |-> IF f \in V!Changed(branch) THEN V!Status(f) ELSE None]'
        /\ {V!Stat(f) : f \in V!Changed(branch)} = {V!Stat(f) : f \in V!Changed(branch)}'
    BY <2>1 DEF V!Status, V!Changed, V!Stat
  <2>5. ASSUME ~moved', NEW t \in V!Listed'
        PROVE  patches'[t.file] \in {None, IF t.binary THEN "binary" ELSE V!Patch(t)'}
    <3>1. ~moved /\ t \in V!Listed /\ V!Patch(t)' = V!Patch(t)
      BY <2>1, <2>2, <2>3, <2>5
    <3>2. stats = {V!Stat(f) : f \in V!Changed(branch)} /\ s \in stats /\ t \in stats
      BY <2>1, <3>1 DEF V!ReviewAgrees, V!Listed
    <3>3. t.file = s.file => t = s
      BY <3>2 DEF V!Stat
    <3>4. patches[t.file] \in {None, IF t.binary THEN "binary" ELSE V!Patch(t)}
      BY <2>1, <3>1 DEF V!ReviewAgrees
    <3>5. s.file \in Files /\ patches \in [Files -> {None, "binary", "empty", "cut", "whole"}]
      BY <3>2 DEF ReviewRead
    <3>6. CASE t.file = s.file
      <4>1. patches'[t.file] = IF t.binary THEN "binary" ELSE V!Patch(t)
        BY <2>1, <3>3, <3>5, <3>6
      <4>2. QED
        BY <3>1, <4>1
    <3>7. CASE t.file # s.file
      <4>1. patches'[t.file] = patches[t.file]
        BY <2>1, <3>5, <3>7
      <4>2. QED
        BY <3>1, <3>4, <4>1
    <3>8. QED
      BY <3>6, <3>7
  <2>6. ~moved => /\ commits = branch.commits \/ commits = MaxLogged
                  /\ stats = {V!Stat(f) : f \in V!Changed(branch)}
                  /\ vStatus = [f \in Files |-> IF f \in V!Changed(branch) THEN V!Status(f) ELSE None]
    BY <2>1 DEF V!ReviewAgrees
  <2>7. QED
    BY <2>1, <2>4, <2>5, <2>6 DEF V!ReviewAgrees
<1>6. CASE V!TryMerge
  <2>1. /\ UNCHANGED <<branch, moved, commits, stats, vStatus, patches>>
        /\ waits = "patch" /\ waits' = "answered"
        /\ mergeable' \in {None} \cup (IF branch.exists THEN {branch.clean} ELSE {})
        /\ \A s \in V!Listed : patches[s.file] # None
    BY <1>6 DEF V!TryMerge, V!Asks
  <2>2. V!Listed' = V!Listed
    BY <2>1 DEF V!Listed
  <2>3. ASSUME NEW t PROVE V!Patch(t)' = V!Patch(t)
    BY <2>1 DEF V!Patch, V!Astray
  <2>4. /\ [f \in Files |-> IF f \in V!Changed(branch) THEN V!Status(f) ELSE None]
           = [f \in Files |-> IF f \in V!Changed(branch) THEN V!Status(f) ELSE None]'
        /\ {V!Stat(f) : f \in V!Changed(branch)} = {V!Stat(f) : f \in V!Changed(branch)}'
    BY <2>1 DEF V!Status, V!Changed, V!Stat
  <2>5. ~moved => /\ commits = branch.commits \/ commits = MaxLogged
                  /\ stats = {V!Stat(f) : f \in V!Changed(branch)}
                  /\ vStatus = [f \in Files |-> IF f \in V!Changed(branch) THEN V!Status(f) ELSE None]
                  /\ \A s \in V!Listed : patches[s.file] \in {None, IF s.binary THEN "binary" ELSE V!Patch(s)}
    BY <2>1 DEF V!ReviewAgrees
  <2>6. ~moved' => \A s \in V!Listed' : patches'[s.file] \in {None, IF s.binary THEN "binary" ELSE V!Patch(s)'}
    BY <2>1, <2>2, <2>3, <2>5
  <2>7. QED
    BY <2>1, <2>2, <2>4, <2>5, <2>6 DEF V!ReviewAgrees
<1>7. QED
  BY <1>1, <1>2, <1>3, <1>4, <1>5, <1>6

LEMMA ReviewBegins ==
  ASSUME V!Init
  PROVE  V!ReviewInvariant
<1>1. /\ waits = "none" /\ commits = 0 /\ stats = {} /\ vStatus = [f \in Files |-> None]
      /\ patches = [f \in Files |-> None] /\ mergeable = None /\ moves = 0 /\ branch \in V!BranchStates
      /\ MaxLogged \in Nat /\ MaxMoves \in Nat
  BY ClientBounds DEF V!Init
<1>2. moved = FALSE
  BY DEF V!Init
<1>3. ReviewRead
  BY <1>1 DEF ReviewRead
<1>4. ReviewBranch
  <2>1. moves \in 0 .. MaxMoves
    BY <1>1
  <2>2. moved \in BOOLEAN
    BY <1>2
  <2>3. QED
    BY <1>1, <2>1, <2>2 DEF ReviewBranch
<1>5. V!ReviewAgrees
  BY <1>1 DEF V!ReviewAgrees
<1>6. QED
  BY <1>3, <1>4, <1>5, ReviewTypes DEF V!ReviewInvariant

LEMMA ReviewStays ==
  ASSUME V!ReviewInvariant, [V!Next]_vVars
  PROVE  V!ReviewInvariant'
<1>1. ReviewRead /\ ReviewBranch /\ V!ReviewAgrees
  BY ReviewTypes DEF V!ReviewInvariant
<1>2. CASE V!Push \/ V!Merged \/ V!Deleted
  <2>1. ReviewBranch' /\ V!ReviewAgrees'
    BY <1>1, <1>2, MovesTyped, MovesAgree
  <2>2. ReviewRead'
    BY <1>1, <1>2, MovesTyped DEF ReviewRead
  <2>3. QED
    BY <2>1, <2>2, ReviewTypes DEF V!ReviewInvariant
<1>3. CASE \/ V!ReadBase \/ V!Verify \/ V!ReadLog \/ V!ReadStats \/ V!ReadStatus \/ V!ReadPatch \/ V!TryMerge
           \/ V!GitFails
  <2>1. ReviewRead' /\ UNCHANGED <<branch, moved, moves>> /\ V!ReviewAgrees'
    BY <1>1, <1>3, CommandsTyped, CommandsAgree
  <2>2. ReviewBranch'
    BY <1>1, <2>1 DEF ReviewBranch, V!BranchStates, V!Gone, V!Changes
  <2>3. QED
    BY <2>1, <2>2, ReviewTypes DEF V!ReviewInvariant
<1>4. CASE UNCHANGED vVars
  <2>1. UNCHANGED <<branch, waits, commits, stats, vStatus, patches, mergeable, moved, moves>>
    BY <1>4 DEF vVars
  <2>2. ReviewRead' /\ ReviewBranch'
    BY <1>1, <2>1 DEF ReviewRead, ReviewBranch, V!BranchStates, V!Gone, V!Changes
  <2>3. V!ReviewAgrees'
    BY <1>1, <2>1 DEF V!ReviewAgrees, V!Listed, V!Stat, V!Status, V!Changed, V!Patch, V!Astray
  <2>4. QED
    BY <2>2, <2>3, ReviewTypes DEF V!ReviewInvariant
<1>5. QED
  BY <1>2, <1>3, <1>4 DEF V!Next

\* A file that is not listed is one that is left out.
LEMMA LeftOut ==
  ASSUME ReviewRead, NEW s \in stats, s \notin V!Listed
  PROVE  V!Cardinality(stats) > V!Cardinality(V!Listed)
<1>1. IsFiniteSet(stats)
  <2>1. IsFiniteSet(BOOLEAN)
    <3>1. BOOLEAN = {TRUE, FALSE}
      OBVIOUS
    <3>2. IsFiniteSet({FALSE})
      BY FS_Singleton
    <3>3. IsFiniteSet({TRUE} \cup {FALSE})
      BY <3>2, FS_Singleton, FS_Union
    <3>4. QED
      BY <3>1, <3>3
  <2>2. IsFiniteSet(Files \X (BOOLEAN \X BOOLEAN))
    BY <2>1, ReviewsAreFinite, FS_Product
  <2> DEFINE S == Files \X (BOOLEAN \X BOOLEAN)
             T == [file : Files, arrow : BOOLEAN, binary : BOOLEAN]
             h == [x \in S |-> [file |-> x[1], arrow |-> x[2][1], binary |-> x[2][2]]]
  <2>3. h \in Surjection(S, T)
    <3>1. h \in [S -> T]
      OBVIOUS
    <3>2. ASSUME NEW r \in T PROVE \E x \in S : h[x] = r
      <4>1. <<r.file, <<r.arrow, r.binary>>>> \in S
        OBVIOUS
      <4>2. h[<<r.file, <<r.arrow, r.binary>>>>] = r
        OBVIOUS
      <4>3. QED
        BY <4>1, <4>2
    <3> HIDE DEF h, S, T
    <3>3. QED
      BY <3>1, <3>2 DEF Surjection
  <2>4. IsFiniteSet(T)
    <3> HIDE DEF h, S, T
    <3>1. IsFiniteSet(S)
      BY <2>2 DEF S
    <3>2. QED
      BY <2>3, <3>1, FS_Surjection
  <2>5. QED
    BY <2>4, FS_Subset DEF ReviewRead
<1>2. V!Listed \subseteq stats /\ V!Listed # stats
  BY DEF V!Listed
<1>3. Cardinality(V!Listed) < Cardinality(stats)
  <2>1. Cardinality(V!Listed) <= Cardinality(stats)
        /\ (Cardinality(V!Listed) = Cardinality(stats) => V!Listed = stats)
        /\ IsFiniteSet(V!Listed)
    BY <1>1, <1>2, FS_Subset
  <2>2. Cardinality(V!Listed) \in Nat /\ Cardinality(stats) \in Nat
    BY <1>1, <2>1, FS_CardinalityType
  <2>3. QED
    BY <1>2, <2>1, <2>2
<1>4. Cardinality(V!Listed) \in Nat /\ Cardinality(stats) \in Nat
  BY <1>1, <1>2, FS_Subset, FS_CardinalityType
<1>5. QED
  BY <1>3, <1>4, ReviewCounts

LEMMA ReviewSuffices ==
  ASSUME V!ReviewInvariant
  PROVE  V!ReviewIsWhole
<1>1. ReviewRead /\ ReviewBranch /\ V!ReviewAgrees
  BY ReviewTypes DEF V!ReviewInvariant
<1> SUFFICES ASSUME waits = "answered", ~moved
             PROVE  /\ {s.file : s \in stats} = V!Changed(branch)
                    /\ commits = branch.commits \/ commits = MaxLogged
                    /\ \A s \in stats : s.arrow <=> branch.files[s.file] = "renamed"
                    /\ \A s \in stats : s.arrow \/ V!Label(s) = V!Status(s.file)
                    /\ \A s \in stats : V!Astray(s) \/ patches[s.file] = "whole" \/ V!Said(s.file)
  BY <1>1 DEF V!ReviewIsWhole, V!ReviewAgrees
<1>2. /\ commits = branch.commits \/ commits = MaxLogged
      /\ stats = {V!Stat(f) : f \in V!Changed(branch)}
      /\ vStatus = [f \in Files |-> IF f \in V!Changed(branch) THEN V!Status(f) ELSE None]
      /\ \A s \in V!Listed : patches[s.file] \in {None, IF s.binary THEN "binary" ELSE V!Patch(s)}
      /\ \A s \in V!Listed : patches[s.file] # None
  BY <1>1 DEF V!ReviewAgrees
<1>3. ASSUME NEW s \in stats
      PROVE  /\ s.file \in V!Changed(branch) /\ s.file \in Files
             /\ s.arrow = (branch.files[s.file] = "renamed") /\ s.binary = (branch.files[s.file] = "binary")
             /\ branch.files[s.file] # "same"
  BY <1>2 DEF V!Stat, V!Changed
<1>4. {s.file : s \in stats} = V!Changed(branch)
  <2>1. ASSUME NEW f \in V!Changed(branch) PROVE \E s \in stats : s.file = f
    <3>1. V!Stat(f) \in stats
      BY <1>2, <2>1
    <3>2. V!Stat(f).file = f
      BY DEF V!Stat
    <3>3. QED
      BY <3>1, <3>2
  <2>2. QED
    BY <1>3, <2>1
<1>5. ASSUME NEW s \in stats, ~s.arrow PROVE V!Label(s) = V!Status(s.file)
  <2>1. vStatus[s.file] = V!Status(s.file) /\ V!Status(s.file) # None
    BY <1>2, <1>3, StatusTyped, ReviewsAreFinite
  <2>2. QED
    BY <1>5, <2>1 DEF V!Label
<1>6. ASSUME NEW s \in stats, ~V!Astray(s) PROVE patches[s.file] = "whole" \/ V!Said(s.file)
  <2>1. CASE s \in V!Listed
    <3>1. patches[s.file] = IF s.binary THEN "binary" ELSE V!Patch(s)
      BY <1>2, <2>1
    <3>2. V!Patch(s) \in {"cut", "whole"}
      BY <1>3, <1>6 DEF V!Patch, V!Astray
    <3>3. QED
      BY <3>1, <3>2 DEF V!Said
  <2>2. CASE s \notin V!Listed
    BY <1>1, <2>2, LeftOut DEF V!Said
  <2>3. QED
    BY <2>1, <2>2
<1>7. QED
  BY <1>2, <1>3, <1>4, <1>5, <1>6

-----------------------------------------------------------------------------
(* The workflow client (App.jsx and lib/api.js of workflow).               *)

LEMMA RequestCounts ==
  ASSUME NEW s PROVE W!Cardinality(s) = Cardinality(s)
BY DEF W!Cardinality, Cardinality



\* The number of changes is one.
LEMMA ChangesCounted == W!Changes \in Nat
<1> DEFINE A == {r \in Requests : status[r] # "none"}
           D2 == {r \in Requests : status[r] = "decided"}
<1>1. IsFiniteSet(A) /\ IsFiniteSet(D2)
  BY RequestsAreFinite, FS_Subset
<1>2. Cardinality(A) \in Nat /\ Cardinality(D2) \in Nat
  BY <1>1, FS_CardinalityType
<1>3. W!Changes = Cardinality(A) + Cardinality(D2)
  BY RequestCounts DEF W!Changes
<1> HIDE DEF A, D2
<1>4. QED
  BY <1>2, <1>3

\* Making or deciding a request is one more.
LEMMA ChangesGrow ==
  ASSUME status \in [Requests -> {"none", "pending", "decided"}], NEW r \in Requests, status[r] # "decided",
         status' = [status EXCEPT ![r] = IF status[r] = "none" THEN "pending" ELSE "decided"]
  PROVE  W!Changes' = W!Changes + 1
<1> DEFINE A == {q \in Requests : status[q] # "none"}
           D2 == {q \in Requests : status[q] = "decided"}
<1>1. IsFiniteSet(A) /\ IsFiniteSet(D2)
  BY RequestsAreFinite, FS_Subset
<1>2. Cardinality(A) \in Nat /\ Cardinality(D2) \in Nat
  BY <1>1, FS_CardinalityType
<1>3. W!Changes = Cardinality(A) + Cardinality(D2)
  BY RequestCounts DEF W!Changes
<1>4. W!Changes' = Cardinality(A') + Cardinality(D2')
  BY RequestCounts DEF W!Changes
<1>5. CASE status[r] = "none"
  <2>1. A' = A \cup {r} /\ r \notin A /\ D2' = D2
    BY <1>5
  <2> HIDE DEF A, D2
  <2>2. Cardinality(A') = Cardinality(A) + 1
    BY <1>1, <2>1, FS_AddElement
  <2>3. QED
    BY <1>2, <1>3, <1>4, <2>1, <2>2
<1>6. CASE status[r] # "none"
  <2>1. D2' = D2 \cup {r} /\ r \notin D2 /\ A' = A
    BY <1>6
  <2> HIDE DEF A, D2
  <2>2. Cardinality(D2') = Cardinality(D2) + 1
    BY <1>1, <2>1, FS_AddElement
  <2>3. QED
    BY <1>2, <1>3, <1>4, <2>1, <2>2
<1>7. QED
  BY <1>5, <1>6

\* The client's steps.
ClientActions ==
  \/ \E r \in Requests : W!Change(r)
  \/ \E r \in Requests : W!DecisionRead(r)
  \/ \E r \in Requests : W!DecisionAnswered(r)
  \/ \E r \in Requests : W!Select(r)
  \/ \E r \in Requests : W!ChainArrives(r)
  \/ \E t \in BOOLEAN : W!Reads(t)
  \/ \E t \in BOOLEAN : W!CallFails(t)
  \/ \E t \in BOOLEAN : W!SubmitToken(t)
  \/ \E at \in wAnswers : W!Arrives(at)
  \/ W!Refused
  \/ W!Opens
  \/ W!Authorizes
  \/ W!ClosedAsRefused
  \/ W!Dropped
  \/ W!Reconnects
  \/ W!OldSocketCloses
  \/ W!OnMessage
  \/ W!Close
  \/ W!Decide

LEMMA ClientSteps == W!Next => ClientActions
BY DEF W!Next, ClientActions

\* The variables that have Boolean values.
ClientFlags ==
  /\ wTimer \in BOOLEAN /\ connected \in BOOLEAN /\ wToken \in BOOLEAN /\ gate \in BOOLEAN
  /\ wStrict \in BOOLEAN /\ wFailed \in BOOLEAN

\* The others.
ClientValues ==
  /\ status \in [Requests -> {"none", "pending", "decided"}]
  /\ wSocket \in {"closed", "connecting", "asking", "trusted"}
  /\ wQueue \in Seq({"AUTH_OK", "event"})
  /\ board = None \/ board \in 0..newest
  /\ sheet \in Requests \cup {None} /\ chain \in Requests \cup {None} /\ chains \subseteq Requests
  /\ deciding \subseteq Requests \X BOOLEAN

ClientNumbers ==
  /\ wAsked \in [BOOLEAN -> Nat]
  /\ newest \in 0..W!Changes /\ wAnswers \subseteq 0..W!Changes \cup {None}
  /\ submits \in 0..MaxSubmits /\ closing \in Nat /\ closing <= submits

ClientKept == ClientFlags /\ ClientValues /\ ClientNumbers /\ W!NeverStuck /\ W!Linked /\ W!ReloadIsDue

LEMMA ClientTypes ==
  /\ W!ClientInvariant <=> ClientKept
  /\ W!ClientInvariant' <=> ClientKept'
<1>1. (W!TypeOK /\ W!Counted) <=> (ClientFlags /\ ClientValues /\ ClientNumbers)
  <2>1. (W!TypeOK /\ W!Counted) => (ClientFlags /\ ClientValues)
    BY DEF W!TypeOK, W!Counted, ClientFlags, ClientValues
  <2>2. (W!TypeOK /\ W!Counted) => ClientNumbers
    BY DEF W!TypeOK, W!Counted, ClientNumbers
  <2>3. ClientNumbers => W!Counted \/ ~ ClientFlags
    BY DEF W!Counted, ClientNumbers, ClientFlags
  <2>4. ClientNumbers => closing \in 0..MaxSubmits
    BY ClientBounds DEF ClientNumbers
  <2>5. (ClientFlags /\ ClientValues) /\ closing \in 0..MaxSubmits => W!TypeOK
    BY DEF W!TypeOK, ClientFlags, ClientValues
  <2>6. QED
    BY <2>1, <2>2, <2>3, <2>4, <2>5
<1>2. (W!TypeOK /\ W!Counted)' <=> (ClientFlags /\ ClientValues /\ ClientNumbers)'
  <2>1. (W!TypeOK /\ W!Counted)' => (ClientFlags /\ ClientValues)'
    BY DEF W!TypeOK, W!Counted, ClientFlags, ClientValues
  <2>2. (W!TypeOK /\ W!Counted)' => ClientNumbers'
    BY DEF W!TypeOK, W!Counted, ClientNumbers
  <2>3. ClientNumbers' => W!Counted' \/ ~ ClientFlags'
    BY DEF W!Counted, ClientNumbers, ClientFlags
  <2>4. ClientNumbers' => closing' \in 0..MaxSubmits
    BY ClientBounds DEF ClientNumbers
  <2>5. (ClientFlags /\ ClientValues)' /\ closing' \in 0..MaxSubmits => W!TypeOK'
    BY DEF W!TypeOK, ClientFlags, ClientValues
  <2>6. QED
    BY <2>1, <2>2, <2>3, <2>4, <2>5
<1>3. QED
  BY <1>1, <1>2 DEF W!ClientInvariant, ClientKept

LEMMA ClientFlagsStay ==
  ASSUME ClientFlags, ClientActions
  PROVE  ClientFlags'
<1>1. CASE (\E r \in Requests : W!Change(r)) \/ (\E r \in Requests : W!DecisionRead(r))
           \/ (\E r \in Requests : W!Select(r)) \/ (\E r \in Requests : W!ChainArrives(r))
           \/ (\E t \in BOOLEAN : W!Reads(t)) \/ (\E at \in wAnswers : W!Arrives(at))
           \/ W!Opens \/ W!Authorizes \/ W!Close \/ W!Decide
  <2>1. UNCHANGED <<wTimer, connected, wToken, gate, wStrict, wFailed>>
    BY <1>1 DEF W!Change, W!DecisionRead, W!Select, W!ChainArrives, W!Reads, W!Arrives, W!Opens, W!Authorizes,
                W!Close, W!Decide, W!server, W!link, W!auth
  <2>2. QED
    BY <2>1 DEF ClientFlags
<1>2. CASE \E r \in Requests : W!DecisionAnswered(r)
  <2>1. UNCHANGED <<wTimer, connected, wToken, gate, wStrict>> /\ wFailed' = FALSE
    BY <1>2 DEF W!DecisionAnswered, W!Reload, W!server, W!link, W!auth
  <2>2. QED
    BY <2>1 DEF ClientFlags
<1>3. CASE \E t \in BOOLEAN : W!CallFails(t)
  <2>1. UNCHANGED <<wTimer, connected, wToken, gate, wStrict>> /\ wFailed' = TRUE
    BY <1>3 DEF W!CallFails, W!server, W!link, W!auth
  <2>2. QED
    BY <2>1 DEF ClientFlags
<1>4. CASE \E t \in BOOLEAN : W!SubmitToken(t)
  <2>1. /\ UNCHANGED <<connected, wStrict>> /\ wTimer' = FALSE /\ gate' = FALSE /\ wFailed' = FALSE
        /\ wToken' \in BOOLEAN
    BY <1>4 DEF W!SubmitToken, W!Reload, W!server
  <2>2. QED
    BY <2>1 DEF ClientFlags
<1>5. CASE W!Refused
  <2>1. UNCHANGED <<wTimer, connected, wToken, wStrict, wFailed>> /\ gate' = TRUE
    BY <1>5 DEF W!Refused, W!server, W!link
  <2>2. QED
    BY <2>1 DEF ClientFlags
<1>6. CASE W!ClosedAsRefused
  <2>1. UNCHANGED <<wTimer, wToken, wStrict, wFailed>> /\ gate' = TRUE /\ connected' = FALSE
    BY <1>6 DEF W!ClosedAsRefused, W!server
  <2>2. QED
    BY <2>1 DEF ClientFlags
<1>7. CASE W!Dropped
  <2>1. UNCHANGED <<gate, wToken, wStrict, wFailed>> /\ wTimer' = TRUE /\ connected' = FALSE
    BY <1>7 DEF W!Dropped, W!server, W!auth
  <2>2. QED
    BY <2>1 DEF ClientFlags
<1>8. CASE W!Reconnects
  <2>1. UNCHANGED <<gate, wToken, wStrict, wFailed, connected>> /\ wTimer' = FALSE
    BY <1>8 DEF W!Reconnects, W!server, W!auth
  <2>2. QED
    BY <2>1 DEF ClientFlags
<1>9. CASE W!OldSocketCloses
  <2>1. UNCHANGED <<gate, wToken, wStrict, wFailed, wTimer>> /\ connected' = FALSE
    BY <1>9 DEF W!OldSocketCloses, W!server, W!auth
  <2>2. QED
    BY <2>1 DEF ClientFlags
<1>10. CASE W!OnMessage
  <2>1. UNCHANGED <<gate, wToken, wStrict, wTimer>> /\ wFailed' = FALSE /\ connected' \in BOOLEAN
    BY <1>10 DEF W!OnMessage, W!Reload, W!server, W!auth
  <2>2. QED
    BY <2>1 DEF ClientFlags
<1> DEFINE Goal == ClientFlags'
<1> HIDE DEF Goal
<1>11. QED
  BY <1>1, <1>2, <1>3, <1>4, <1>5, <1>6, <1>7, <1>8, <1>9, <1>10 DEF ClientActions, Goal

LEMMA NeverStuckStays ==
  ASSUME W!NeverStuck, W!Linked, ClientNumbers, ClientActions
  PROVE  W!NeverStuck' /\ W!Linked'
<1>0. closing \in Nat
  BY DEF ClientNumbers
<1>1. CASE (\E r \in Requests : W!Select(r)) \/ (\E r \in Requests : W!ChainArrives(r))
           \/ (\E t \in BOOLEAN : W!Reads(t)) \/ (\E at \in wAnswers : W!Arrives(at))
           \/ (\E r \in Requests : W!DecisionAnswered(r)) \/ (\E t \in BOOLEAN : W!CallFails(t))
           \/ W!Close \/ W!Decide
  <2>1. UNCHANGED <<wSocket, wQueue, closing, wTimer, connected, wToken, gate, wStrict>>
    BY <1>1 DEF W!Select, W!ChainArrives, W!Reads, W!Arrives, W!DecisionAnswered, W!CallFails,
                W!Close, W!Decide, W!server, W!link, W!auth
  <2>2. QED
    BY <2>1 DEF W!NeverStuck, W!Linked, W!Admitted
<1>2. CASE (\E r \in Requests : W!Change(r)) \/ (\E r \in Requests : W!DecisionRead(r))
  <2>1. /\ UNCHANGED <<wSocket, closing, wTimer, connected, wToken, gate, wStrict>>
        /\ wSocket # "trusted" => wQueue' = wQueue
    BY <1>2 DEF W!Change, W!DecisionRead, W!Told, W!server, W!link, W!auth
  <2>2. QED
    BY <2>1 DEF W!NeverStuck, W!Linked, W!Admitted
<1>3. CASE \E t \in BOOLEAN : W!SubmitToken(t)
  <2>1. /\ UNCHANGED connected /\ ~wTimer' /\ ~gate' /\ wSocket' = "connecting" /\ wQueue' = <<>>
        /\ closing' = closing + IF wSocket = "closed" THEN 0 ELSE 1
    BY <1>3 DEF W!SubmitToken
  <2>2. closing' >= closing /\ (wSocket = "trusted" => closing' > 0)
    BY <1>0, <2>1
  <2>3. connected => closing' > 0
    BY <1>0, <2>1, <2>2 DEF W!NeverStuck
  <2>4. QED
    BY <2>1, <2>3 DEF W!NeverStuck, W!Linked
<1>4. CASE W!Refused
  <2>1. UNCHANGED <<wSocket, wQueue, closing, wTimer, connected, wToken, wStrict>> /\ gate'
    BY <1>4 DEF W!Refused, W!server, W!link
  <2>2. QED
    BY <2>1 DEF W!NeverStuck, W!Linked, W!Admitted
<1>5. CASE W!Opens
  <2>1. UNCHANGED <<wQueue, closing, wTimer, connected, wToken, gate, wStrict>>
        /\ wSocket = "connecting" /\ wSocket' = "asking"
    BY <1>5 DEF W!Opens, W!server, W!auth
  <2>2. QED
    BY <2>1 DEF W!NeverStuck, W!Linked
<1>6. CASE W!Authorizes
  <2>1. UNCHANGED <<closing, wTimer, connected, wToken, gate, wStrict>>
        /\ wSocket = "asking" /\ wSocket' = "trusted" /\ W!Admitted(wToken)
    BY <1>6 DEF W!Authorizes, W!server, W!auth
  <2>2. QED
    BY <2>1 DEF W!NeverStuck, W!Linked, W!Admitted
<1>7. CASE W!ClosedAsRefused
  <2>1. wSocket' = "closed" /\ wQueue' = <<>> /\ ~connected' /\ gate'
    BY <1>7 DEF W!ClosedAsRefused
  <2>2. QED
    BY <2>1 DEF W!NeverStuck, W!Linked
<1>8. CASE W!Dropped
  <2>1. wSocket' = "closed" /\ wQueue' = <<>> /\ ~connected' /\ wTimer'
    BY <1>8 DEF W!Dropped
  <2>2. QED
    BY <2>1 DEF W!NeverStuck, W!Linked
<1>9. CASE W!Reconnects
  <2>1. wTimer /\ ~wTimer' /\ wSocket' = "connecting" /\ UNCHANGED <<wQueue, closing, connected>>
    BY <1>9 DEF W!Reconnects
  <2>2. wSocket = "closed"
    BY <2>1 DEF W!Linked
  <2>3. QED
    BY <2>1, <2>2 DEF W!NeverStuck, W!Linked
<1>10. CASE W!OldSocketCloses
  <2>1. UNCHANGED <<gate, wToken, wStrict, wTimer, wSocket, wQueue>> /\ ~connected'
    BY <1>10 DEF W!OldSocketCloses, W!server, W!auth
  <2>2. QED
    BY <2>1 DEF W!NeverStuck, W!Linked, W!Admitted
<1>11. CASE W!OnMessage
  <2>1. UNCHANGED <<gate, wToken, wStrict, wTimer, wSocket, closing>> /\ wQueue # <<>>
    BY <1>11 DEF W!OnMessage, W!server, W!auth
  <2>2. wSocket = "trusted"
    BY <2>1 DEF W!Linked
  <2>3. QED
    BY <2>1, <2>2 DEF W!NeverStuck, W!Linked, W!Admitted
<1> DEFINE Goal == W!NeverStuck' /\ W!Linked'
<1> HIDE DEF Goal
<1>12. QED
  BY <1>1, <1>2, <1>3, <1>4, <1>5, <1>6, <1>7, <1>8, <1>9, <1>10, <1>11 DEF ClientActions, Goal

LEMMA ClientTold ==
  ASSUME ClientValues, NEW r \in Requests,
         (\E q \in Requests : W!Change(q)) \/ (\E q \in Requests : W!DecisionRead(q))
  PROVE  /\ UNCHANGED <<wStrict, wSocket, wToken, wAsked, wAnswers, newest, wFailed, submits, closing, board, sheet,
                        chain, chains>>
         /\ deciding' \subseteq Requests \X BOOLEAN
         /\ status' \in [Requests -> {"none", "pending", "decided"}]
         /\ \/ /\ W!Changes' = W!Changes + 1
               /\ wQueue' = IF wSocket = "trusted" THEN Append(wQueue, "event") ELSE wQueue
            \/ UNCHANGED <<status, wQueue>> /\ W!Changes' = W!Changes
<1>0. status \in [Requests -> {"none", "pending", "decided"}] /\ deciding \subseteq Requests \X BOOLEAN
  BY DEF ClientValues
<1>1. ASSUME NEW q \in Requests, status[q] # "decided",
             status' = [status EXCEPT ![q] = IF status[q] = "none" THEN "pending" ELSE "decided"]
      PROVE  W!Changes' = W!Changes + 1 /\ status' \in [Requests -> {"none", "pending", "decided"}]
  BY <1>0, <1>1, ChangesGrow
<1>2. CASE \E q \in Requests : W!Change(q)
  <2>1. PICK q \in Requests : W!Change(q)
    BY <1>2
  <2>2. /\ status[q] # "decided"
        /\ status' = [status EXCEPT ![q] = IF status[q] = "none" THEN "pending" ELSE "decided"]
        /\ wQueue' = IF wSocket = "trusted" THEN Append(wQueue, "event") ELSE wQueue
        /\ UNCHANGED <<wStrict, wSocket, wToken, wAsked, wAnswers, newest, wFailed, submits, closing, board, sheet,
                       chain, chains, deciding>>
    BY <2>1, <1>0 DEF W!Change, W!Told, W!auth, W!shown, W!sheets
  <2>3. QED
    BY <1>0, <1>1, <2>2
<1>3. CASE \E q \in Requests : W!DecisionRead(q)
  <2>1. PICK q \in Requests : W!DecisionRead(q)
    BY <1>3
  <2>2. /\ deciding' = (deciding \ {<<q, FALSE>>}) \cup {<<q, TRUE>>}
        /\ UNCHANGED <<wStrict, wSocket, wToken, wAsked, wAnswers, newest, wFailed, submits, closing, board, sheet,
                       chain, chains>>
    BY <2>1 DEF W!DecisionRead, W!auth, W!shown, W!sheets
  <2>3. deciding' \subseteq Requests \X BOOLEAN
    <3>1. <<q, FALSE>> \in Requests \X BOOLEAN /\ <<q, TRUE>> \in Requests \X BOOLEAN
      OBVIOUS
    <3>2. QED
      BY <1>0, <2>2, <3>1
  <2>4. CASE W!Admitted(wToken) /\ status[q] = "pending"
    <3>1. /\ status' = [status EXCEPT ![q] = "decided"]
          /\ wQueue' = IF wSocket = "trusted" THEN Append(wQueue, "event") ELSE wQueue
      BY <2>1, <2>4 DEF W!DecisionRead, W!Told
    <3>2. status' = [status EXCEPT ![q] = IF status[q] = "none" THEN "pending" ELSE "decided"]
      BY <2>4, <3>1
    <3>3. W!Changes' = W!Changes + 1 /\ status' \in [Requests -> {"none", "pending", "decided"}]
      BY <1>1, <2>4, <3>2
    <3>4. QED
      BY <2>2, <2>3, <3>1, <3>3
  <2>5. CASE ~ (W!Admitted(wToken) /\ status[q] = "pending")
    <3>1. UNCHANGED <<status, wQueue>>
      BY <2>1, <2>5 DEF W!DecisionRead
    <3>2. W!Changes' = W!Changes
      BY <3>1, RequestCounts DEF W!Changes
    <3>3. QED
      BY <1>0, <2>2, <2>3, <3>1, <3>2
  <2>6. QED
    BY <2>4, <2>5
<1>4. QED
  BY <1>2, <1>3

\* Of what is not told, the server knows already.
LEMMA ChangesSame ==
  ASSUME UNCHANGED status PROVE W!Changes' = W!Changes
BY RequestCounts DEF W!Changes

LEMMA ClientValuesStay ==
  ASSUME ClientValues, ClientNumbers, ClientActions
  PROVE  ClientValues'
<1>0. /\ status \in [Requests -> {"none", "pending", "decided"}]
      /\ wSocket \in {"closed", "connecting", "asking", "trusted"}
      /\ wQueue \in Seq({"AUTH_OK", "event"})
      /\ board = None \/ board \in 0..newest
      /\ sheet \in Requests \cup {None} /\ chain \in Requests \cup {None} /\ chains \subseteq Requests
      /\ deciding \subseteq Requests \X BOOLEAN
      /\ newest \in Nat /\ wAnswers \subseteq Nat \cup {None}
  <2>1. W!Changes \in Nat
    BY ChangesCounted
  <2>2. QED
    BY <2>1 DEF ClientValues, ClientNumbers
<1>1. CASE (\E r \in Requests : W!Change(r)) \/ (\E r \in Requests : W!DecisionRead(r))
  <2>1. PICK r \in Requests : TRUE
    BY <1>1
  <2>2. /\ UNCHANGED <<wSocket, newest, board, sheet, chain, chains>>
        /\ deciding' \subseteq Requests \X BOOLEAN /\ status' \in [Requests -> {"none", "pending", "decided"}]
        /\ wQueue' = wQueue \/ wQueue' = Append(wQueue, "event")
    BY <1>1, ClientTold
  <2>3. wQueue' \in Seq({"AUTH_OK", "event"})
    BY <1>0, <2>2
  <2>4. QED
    BY <1>0, <2>2, <2>3 DEF ClientValues
<1>2. CASE (\E t \in BOOLEAN : W!Reads(t)) \/ (\E t \in BOOLEAN : W!CallFails(t)) \/ W!Refused
  <2>1. UNCHANGED <<status, wSocket, wQueue, newest, board, sheet, chain, chains, deciding>>
    BY <1>2 DEF W!Reads, W!CallFails, W!Refused, W!server, W!link, W!shown, W!sheets
  <2>2. QED
    BY <1>0, <2>1 DEF ClientValues
<1>3. CASE (\E r \in Requests : W!Select(r)) \/ (\E r \in Requests : W!ChainArrives(r))
           \/ (\E r \in Requests : W!DecisionAnswered(r)) \/ W!Close \/ W!Decide
  <2>1. UNCHANGED <<status, wSocket, wQueue, newest, board>>
    BY <1>3 DEF W!Select, W!ChainArrives, W!DecisionAnswered, W!Close, W!Decide, W!server, W!link, W!shown
  <2>2. sheet' \in Requests \cup {None} /\ chain' \in Requests \cup {None} /\ chains' \subseteq Requests
    BY <1>0, <1>3 DEF W!Select, W!ChainArrives, W!DecisionAnswered, W!Close, W!Decide, W!sheets
  <2>3. deciding' \subseteq Requests \X BOOLEAN
    <3>1. CASE W!Decide
      <4>1. sheet \in Requests /\ deciding' = deciding \cup {<<sheet, FALSE>>}
        BY <1>0, <3>1 DEF W!Decide
      <4>2. <<sheet, FALSE>> \in Requests \X BOOLEAN
        BY <4>1
      <4>3. QED
        BY <1>0, <4>1, <4>2
    <3>2. CASE ~W!Decide
      <4>1. deciding' \subseteq deciding
        BY <1>3, <3>2 DEF W!Select, W!ChainArrives, W!DecisionAnswered, W!Close
      <4>2. QED
        BY <1>0, <4>1
    <3>3. QED
      BY <3>1, <3>2
  <2>4. QED
    BY <1>0, <2>1, <2>2, <2>3 DEF ClientValues
<1>4. CASE \E at \in wAnswers : W!Arrives(at)
  <2>1. PICK a \in wAnswers : W!Arrives(a)
    BY <1>4
  <2>2. /\ UNCHANGED <<status, wSocket, wQueue, sheet, chain, chains, deciding>>
        /\ a \in Nat /\ board' = a /\ newest' = IF a > newest THEN a ELSE newest
    BY <1>0, <2>1 DEF W!Arrives, W!server, W!link, W!sheets
  <2>3. board' \in 0..newest'
    BY <1>0, <2>2
  <2>4. QED
    BY <1>0, <2>2, <2>3 DEF ClientValues
<1>5. CASE W!Opens \/ W!Authorizes \/ W!ClosedAsRefused \/ W!Dropped \/ W!Reconnects \/ W!OldSocketCloses
           \/ W!OnMessage \/ \E t \in BOOLEAN : W!SubmitToken(t)
  <2>1. UNCHANGED <<status, newest, board, sheet, chain, chains, deciding>>
    BY <1>5 DEF W!Opens, W!Authorizes, W!ClosedAsRefused, W!Dropped, W!Reconnects, W!OldSocketCloses,
                W!OnMessage, W!SubmitToken, W!server, W!shown, W!sheets
  <2>2. wSocket' \in {"closed", "connecting", "asking", "trusted"}
    BY <1>0, <1>5 DEF W!Opens, W!Authorizes, W!ClosedAsRefused, W!Dropped, W!Reconnects, W!OldSocketCloses,
                W!OnMessage, W!SubmitToken
  <2>3. \/ wQueue' = wQueue \/ wQueue' = <<>> \/ wQueue' = <<"AUTH_OK">>
        \/ wQueue # <<>> /\ wQueue' = Tail(wQueue)
    <3>1. CASE W!Opens \/ W!Reconnects \/ W!OldSocketCloses
      BY <3>1 DEF W!Opens, W!Reconnects, W!OldSocketCloses
    <3>2. CASE W!Authorizes \/ W!OnMessage
      BY <3>2 DEF W!Authorizes, W!OnMessage
    <3>3. CASE W!ClosedAsRefused \/ W!Dropped \/ \E t \in BOOLEAN : W!SubmitToken(t)
      BY <3>3 DEF W!ClosedAsRefused, W!Dropped, W!SubmitToken
    <3>4. QED
      BY <1>5, <3>1, <3>2, <3>3
  <2>4. wQueue' \in Seq({"AUTH_OK", "event"})
    <3>1. <<"AUTH_OK">> \in Seq({"AUTH_OK", "event"})
      OBVIOUS
    <3>2. ASSUME wQueue # <<>> PROVE Tail(wQueue) \in Seq({"AUTH_OK", "event"})
      <4>1. wQueue \in Seq({"AUTH_OK", "event"})
        BY <1>0
      <4>2. QED
        BY <3>2, <4>1, HeadTailProperties
    <3>3. wQueue \in Seq({"AUTH_OK", "event"}) /\ <<>> \in Seq({"AUTH_OK", "event"})
      BY <1>0
    <3> DEFINE S == Seq({"AUTH_OK", "event"})
    <3>4. <<"AUTH_OK">> \in S /\ wQueue \in S /\ <<>> \in S /\ (wQueue # <<>> => Tail(wQueue) \in S)
      BY <3>1, <3>2, <3>3
    <3> HIDE DEF S
    <3>5. wQueue' \in S
      BY <2>3, <3>4, Zenon
    <3>6. QED
      BY <3>5 DEF S
  <2>5. QED
    BY <1>0, <2>1, <2>2, <2>4 DEF ClientValues
<1> DEFINE Goal == ClientValues'
<1> HIDE DEF Goal
<1>6. QED
  BY <1>1, <1>2, <1>3, <1>4, <1>5 DEF ClientActions, Goal

LEMMA ClientNumbersStay ==
  ASSUME ClientFlags, ClientValues, ClientNumbers, ClientActions
  PROVE  ClientNumbers'
<1>0. /\ wAsked \in [BOOLEAN -> Nat] /\ W!Changes \in Nat
      /\ newest \in 0..W!Changes /\ wAnswers \subseteq 0..W!Changes \cup {None}
      /\ submits \in 0..MaxSubmits /\ closing \in Nat /\ closing <= submits /\ MaxSubmits \in Nat
  BY ChangesCounted, ClientBounds DEF ClientNumbers
<1>1. CASE (\E r \in Requests : W!Change(r)) \/ (\E r \in Requests : W!DecisionRead(r))
  <2>1. PICK r \in Requests : TRUE
    BY <1>1
  <2>2. /\ UNCHANGED <<wAsked, newest, wAnswers, submits, closing>>
        /\ W!Changes' = W!Changes + 1 \/ W!Changes' = W!Changes
    BY <1>1, ClientTold
  <2>3. newest' \in 0..W!Changes' /\ wAnswers' \subseteq 0..W!Changes' \cup {None}
    BY <1>0, <2>2
  <2>4. QED
    BY <1>0, <2>2, <2>3 DEF ClientNumbers
<1>2. CASE (\E r \in Requests : W!Select(r)) \/ (\E r \in Requests : W!ChainArrives(r))
           \/ W!Refused \/ W!Opens \/ W!Authorizes \/ W!ClosedAsRefused \/ W!Dropped \/ W!Reconnects
           \/ W!OldSocketCloses \/ W!Close \/ W!Decide
  <2>1. /\ UNCHANGED <<status, wAsked, newest, submits>> /\ wAnswers' \subseteq wAnswers
        /\ \/ closing' = closing
           \/ closing > 0 /\ closing' = closing - 1
    BY <1>2 DEF W!Select, W!ChainArrives, W!Refused, W!Opens, W!Authorizes, W!ClosedAsRefused, W!Dropped,
                W!Reconnects, W!OldSocketCloses, W!Close, W!Decide, W!server, W!link, W!auth, W!shown
  <2>2. W!Changes' = W!Changes
    BY <2>1, ChangesSame
  <2>3. closing' \in Nat /\ closing' <= submits
    BY <1>0, <2>1
  <2>4. QED
    BY <1>0, <2>1, <2>2, <2>3 DEF ClientNumbers
<1>3. CASE (\E r \in Requests : W!DecisionAnswered(r)) \/ W!OnMessage \/ \E t \in BOOLEAN : W!CallFails(t)
  <2>1. UNCHANGED <<status, newest, wAnswers, submits, closing>>
    BY <1>3 DEF W!DecisionAnswered, W!OnMessage, W!CallFails, W!server, W!link, W!auth, W!shown
  <2>2. W!Changes' = W!Changes
    BY <2>1, ChangesSame
  <2>3. wAsked' \in [BOOLEAN -> Nat]
    <3>1. CASE (\E r \in Requests : W!DecisionAnswered(r)) \/ W!OnMessage
      <4>1. wAsked' = [wAsked EXCEPT ![wToken] = @ + 1]
        BY <3>1 DEF W!DecisionAnswered, W!OnMessage, W!Reload
      <4>2. PICK t \in BOOLEAN : wAsked' = [wAsked EXCEPT ![t] = @ + 1]
        BY <4>1 DEF ClientFlags
      <4>3. QED
        BY <1>0, <4>2
    <3>2. CASE \E t \in BOOLEAN : W!CallFails(t)
      <4>1. PICK t \in BOOLEAN : wAsked[t] > 0 /\ wAsked' = [wAsked EXCEPT ![t] = @ - 1]
        BY <3>2 DEF W!CallFails
      <4>2. QED
        BY <1>0, <4>1
    <3>3. QED
      BY <1>3, <3>1, <3>2
  <2>4. QED
    BY <1>0, <2>1, <2>2, <2>3 DEF ClientNumbers
<1>4. CASE \E t \in BOOLEAN : W!SubmitToken(t)
  <2>1. PICK t \in BOOLEAN : W!SubmitToken(t)
    BY <1>4
  <2>2. /\ UNCHANGED <<status, newest, wAnswers>> /\ submits < MaxSubmits /\ submits' = submits + 1
        /\ closing' = closing + IF wSocket = "closed" THEN 0 ELSE 1
        /\ wAsked' = [wAsked EXCEPT ![t] = @ + 1]
    BY <2>1 DEF W!SubmitToken, W!Reload, W!server, W!shown
  <2>3. W!Changes' = W!Changes
    BY <2>2, ChangesSame
  <2>4. wAsked' \in [BOOLEAN -> Nat]
    BY <1>0, <2>2
  <2>5. closing' \in Nat /\ closing' <= submits' /\ submits' \in 0..MaxSubmits
    BY <1>0, <2>2
  <2>6. QED
    BY <1>0, <2>2, <2>3, <2>4, <2>5 DEF ClientNumbers
<1>5. CASE \E at \in wAnswers : W!Arrives(at)
  <2>1. PICK a \in wAnswers : W!Arrives(a)
    BY <1>5
  <2>2. /\ UNCHANGED <<status, wAsked, submits, closing>> /\ a # None /\ wAnswers' \subseteq wAnswers
        /\ newest' = IF a > newest THEN a ELSE newest
    BY <2>1 DEF W!Arrives, W!server, W!link, W!auth
  <2>3. W!Changes' = W!Changes
    BY <2>2, ChangesSame
  <2>4. newest' \in 0..W!Changes
    BY <1>0, <2>2
  <2>5. QED
    BY <1>0, <2>2, <2>3, <2>4 DEF ClientNumbers
<1>6. CASE \E t \in BOOLEAN : W!Reads(t)
  <2>1. PICK t \in BOOLEAN : W!Reads(t)
    BY <1>6
  <2>2. /\ UNCHANGED <<status, newest, submits, closing>>
        /\ wAsked[t] > 0 /\ wAsked' = [wAsked EXCEPT ![t] = @ - 1]
        /\ wAnswers' \subseteq wAnswers \cup {W!Changes, None}
    BY <2>1 DEF W!Reads, W!server, W!link, W!auth, W!shown
  <2>3. W!Changes' = W!Changes
    BY <2>2, ChangesSame
  <2>4. wAsked' \in [BOOLEAN -> Nat]
    BY <1>0, <2>2
  <2>5. wAnswers' \subseteq 0..W!Changes \cup {None}
    BY <1>0, <2>2
  <2>6. QED
    BY <1>0, <2>2, <2>3, <2>4, <2>5 DEF ClientNumbers
<1> DEFINE Goal == ClientNumbers'
<1> HIDE DEF Goal
<1>7. QED
  BY <1>1, <1>2, <1>3, <1>4, <1>5, <1>6 DEF ClientActions, Goal

\* What the client has not seen yet it is going to.
LEMMA DueStays ==
  ASSUME ClientFlags, ClientValues, ClientNumbers, W!Linked, W!ReloadIsDue, ClientActions
  PROVE  W!ReloadIsDue'
<1>0. /\ wAsked \in [BOOLEAN -> Nat] /\ W!Changes \in Nat /\ newest \in 0..W!Changes
      /\ wAnswers \subseteq 0..W!Changes \cup {None}
  BY ChangesCounted DEF ClientNumbers
<1>1. wToken \in BOOLEAN
  BY DEF ClientFlags
<1>2. CASE (\E r \in Requests : W!Change(r)) \/ (\E r \in Requests : W!DecisionRead(r))
  <2>1. PICK r \in Requests : TRUE
    BY <1>2
  <2>2. /\ UNCHANGED <<wSocket, wToken, wAsked, wAnswers, newest, wFailed>>
        /\ \/ wQueue' = IF wSocket = "trusted" THEN Append(wQueue, "event") ELSE wQueue
           \/ UNCHANGED wQueue /\ W!Changes' = W!Changes
    BY <1>2, ClientTold
  <2>3. wQueue \in Seq({"AUTH_OK", "event"})
    BY DEF ClientValues
  <2>4. Append(wQueue, "event") # <<>>
    BY <2>3
  <2>5. QED
    BY <2>2, <2>4 DEF W!ReloadIsDue
<1>3. CASE (\E r \in Requests : W!Select(r)) \/ (\E r \in Requests : W!ChainArrives(r))
           \/ W!Refused \/ W!Close \/ W!Decide
  <2>1. UNCHANGED <<status, wSocket, wQueue, wToken, wAsked, newest, wFailed>>
        /\ (wAnswers' = wAnswers \/ wAnswers' = wAnswers \ {None})
    BY <1>3 DEF W!Select, W!ChainArrives, W!Refused, W!Close, W!Decide, W!server, W!link, W!auth, W!shown
  <2>2. W!Changes' = W!Changes /\ W!Changes # None
    BY <1>0, <2>1, ChangesSame, IdsDiffer
  <2>3. QED
    BY <2>1, <2>2 DEF W!ReloadIsDue
<1>4. CASE W!Opens \/ W!ClosedAsRefused \/ W!Dropped \/ W!Reconnects \/ \E t \in BOOLEAN : W!SubmitToken(t)
  <2>1. wSocket' # "trusted"
    BY <1>4 DEF W!Opens, W!ClosedAsRefused, W!Dropped, W!Reconnects, W!SubmitToken
  <2>2. QED
    BY <2>1 DEF W!ReloadIsDue
<1>5. CASE W!Authorizes
  <2>1. wQueue' # <<>>
    BY <1>5 DEF W!Authorizes
  <2>2. QED
    BY <2>1 DEF W!ReloadIsDue
<1>6. CASE W!OldSocketCloses
  <2>1. UNCHANGED <<status, wSocket, wQueue, wToken, wAsked, wAnswers, newest, wFailed>>
    BY <1>6 DEF W!OldSocketCloses, W!server, W!auth, W!shown
  <2>2. W!Changes' = W!Changes
    BY <2>1, ChangesSame
  <2>3. QED
    BY <2>1, <2>2 DEF W!ReloadIsDue
<1>7. CASE W!OnMessage \/ \E r \in Requests : W!DecisionAnswered(r)
  <2>1. wToken' = wToken /\ wAsked' = [wAsked EXCEPT ![wToken] = @ + 1]
    BY <1>7 DEF W!OnMessage, W!DecisionAnswered, W!Reload, W!auth
  <2>2. wAsked'[wToken'] > 0
    BY <1>0, <1>1, <2>1
  <2>3. QED
    BY <2>2 DEF W!ReloadIsDue
<1>8. CASE \E t \in BOOLEAN : W!CallFails(t)
  <2>1. wFailed'
    BY <1>8 DEF W!CallFails
  <2>2. QED
    BY <2>1 DEF W!ReloadIsDue
<1>9. CASE \E t \in BOOLEAN : W!Reads(t)
  <2>1. PICK t \in BOOLEAN : W!Reads(t)
    BY <1>9
  <2>2. /\ UNCHANGED <<status, wStrict, wSocket, wQueue, wToken, newest, wFailed>>
        /\ wAsked' = [wAsked EXCEPT ![t] = @ - 1]
        /\ wAnswers' = wAnswers \cup {IF W!Admitted(t) THEN W!Changes ELSE None}
    BY <2>1 DEF W!Reads, W!server, W!link, W!auth, W!shown
  <2>3. W!Changes' = W!Changes
    BY <2>2, ChangesSame
  <2>4. CASE wSocket = "trusted" /\ t = wToken
    <3>1. W!Admitted(t)
      BY <2>4 DEF W!Linked
    <3>2. W!Changes' \in wAnswers'
      BY <2>2, <2>3, <3>1
    <3>3. QED
      BY <3>2 DEF W!ReloadIsDue
  <2>5. CASE t # wToken
    <3>1. wAsked'[wToken'] = wAsked[wToken]
      BY <1>0, <1>1, <2>2, <2>5
    <3>2. QED
      BY <2>2, <2>3, <3>1 DEF W!ReloadIsDue
  <2>6. CASE wSocket # "trusted"
    BY <2>2, <2>6 DEF W!ReloadIsDue
  <2>7. QED
    BY <2>4, <2>5, <2>6
<1>10. CASE \E at \in wAnswers : W!Arrives(at)
  <2>1. PICK a \in wAnswers : W!Arrives(a)
    BY <1>10
  <2>2. /\ UNCHANGED <<status, wSocket, wQueue, wToken, wAsked, wFailed>> /\ a # None
        /\ wAnswers' = wAnswers \ {a} /\ newest' = IF a > newest THEN a ELSE newest
    BY <2>1 DEF W!Arrives, W!server, W!link, W!auth
  <2>3. W!Changes' = W!Changes
    BY <2>2, ChangesSame
  <2>4. a \in 0..W!Changes
    BY <1>0, <2>2
  <2>5. newest = W!Changes => newest' = W!Changes
    BY <1>0, <2>2, <2>4
  <2>6. W!Changes \in wAnswers => W!Changes \in wAnswers' \/ newest' = W!Changes
    <3>1. a = W!Changes => newest' = W!Changes
      BY <1>0, <2>2
    <3>2. QED
      BY <2>2, <3>1
  <2>7. QED
    BY <2>2, <2>3, <2>5, <2>6 DEF W!ReloadIsDue
<1> DEFINE Goal == W!ReloadIsDue'
<1> HIDE DEF Goal
<1>11. QED
  BY <1>2, <1>3, <1>4, <1>5, <1>6, <1>7, <1>8, <1>9, <1>10 DEF ClientActions, Goal

LEMMA ClientBegins ==
  ASSUME W!Init
  PROVE  W!ClientInvariant
<1>1. /\ status = [r \in Requests |-> "none"] /\ wSocket = "connecting" /\ wQueue = <<>> /\ closing = 0
      /\ wAnswers = {} /\ board = None /\ newest = 0 /\ sheet = None /\ chain = None /\ chains = {} /\ deciding = {}
      /\ submits = 0
  BY DEF W!Init
<1>2. ClientFlags
  BY DEF W!Init, ClientFlags
<1>3. ClientValues
  BY <1>1 DEF ClientValues
<1>4. ClientNumbers
  <2>1. wAsked \in [BOOLEAN -> Nat]
    BY DEF W!Init
  <2>2. QED
    BY <1>1, <2>1, ChangesCounted, ClientBounds DEF ClientNumbers
<1>5. W!NeverStuck /\ W!Linked /\ W!ReloadIsDue
  BY <1>1 DEF W!Init, W!NeverStuck, W!Linked, W!ReloadIsDue
<1>6. QED
  BY <1>2, <1>3, <1>4, <1>5, ClientTypes DEF ClientKept

LEMMA ClientStays ==
  ASSUME W!ClientInvariant, [W!Next]_wVars
  PROVE  W!ClientInvariant'
<1>0. ClientFlags /\ ClientValues /\ ClientNumbers /\ W!NeverStuck /\ W!Linked /\ W!ReloadIsDue
  BY ClientTypes DEF ClientKept
<1>1. ClientKept' => W!ClientInvariant'
  BY ClientTypes
<1>2. CASE W!Next
  <2>1. ClientActions
    BY <1>2, ClientSteps
  <2>2. QED
    BY <1>0, <1>1, <2>1, ClientFlagsStay, ClientValuesStay, ClientNumbersStay, NeverStuckStays, DueStays DEF ClientKept
<1>3. CASE UNCHANGED wVars
  <2>1. UNCHANGED <<wStrict, status, wSocket, wQueue, closing, wTimer, connected, wToken, gate, wAsked,
                    wAnswers, board, newest, wFailed, sheet, chain, chains, deciding, submits>>
    BY <1>3 DEF wVars
  <2>2. W!Changes' = W!Changes
    BY <2>1, ChangesSame
  <2>3. ClientFlags' /\ ClientValues' /\ ClientNumbers'
    BY <1>0, <2>1, <2>2 DEF ClientFlags, ClientValues, ClientNumbers
  <2>4. W!NeverStuck' /\ W!Linked' /\ W!ReloadIsDue'
    BY <1>0, <2>1, <2>2 DEF W!NeverStuck, W!Linked, W!ReloadIsDue, W!Admitted
  <2>5. QED
    BY <1>1, <2>3, <2>4 DEF ClientKept
<1>4. QED
  BY <1>2, <1>3

LEMMA ClientSuffices ==
  ASSUME W!ClientInvariant
  PROVE  W!NeverStuck /\ W!BoardCatchesUp
<1>1. W!NeverStuck /\ W!ReloadIsDue /\ wToken \in BOOLEAN
  BY DEF W!ClientInvariant, W!TypeOK
<1>2. ASSUME W!Quiet, ~wFailed PROVE newest = W!Changes
  <2>1. wSocket = "trusted" /\ wQueue = <<>> /\ wAnswers = {} /\ wAsked = [t \in BOOLEAN |-> 0]
    BY <1>2 DEF W!Quiet
  <2>2. ~ (wAsked[wToken] > 0)
    BY <1>1, <2>1
  <2>3. QED
    BY <1>1, <1>2, <2>1, <2>2 DEF W!ReloadIsDue
<1>3. QED
  BY <1>1, <1>2 DEF W!BoardCatchesUp

-----------------------------------------------------------------------------
(* The dashboard's panels (src/hooks: useAgentRegistry, useAutoApproveOps, *)
(* useProjectRegistryOps, useApprovalHistory).                             *)

\* The variables that have Boolean values.
PanelFlags ==
  /\ oStrict \in BOOLEAN /\ oToken \in BOOLEAN /\ open \in BOOLEAN /\ oSocket \in BOOLEAN
  /\ locked \in BOOLEAN /\ missed \in BOOLEAN /\ oFailed \in BOOLEAN
  /\ oHandler \in [open : BOOLEAN, token : BOOLEAN] /\ oTimer \subseteq BOOLEAN

\* The others.
PanelValues ==
  /\ panel \in {"agents", "auto", "projects", "history"} /\ changes \in 0..MaxChanges
  /\ oQueue \in Seq(1..changes) /\ oShown \subseteq 1..changes
  /\ oAsked \in [BOOLEAN -> Nat] /\ oAnswers \subseteq 0..changes \cup {O!Refused}
  /\ seen \subseteq 1..changes

TimersDue == oTimer # {} => panel \in {"auto", "projects"}

PanelKept == PanelFlags /\ PanelValues /\ TimersDue /\ O!RefreshIsDue /\ O!NothingUnheard

LEMMA MoreChanges ==
  ASSUME NEW m \in Nat, NEW n \in Nat, m <= n, NEW q \in Seq(1..m)
  PROVE  q \in Seq(1..n)
<1>1. 1..m \subseteq 1..n
  OBVIOUS
<1>2. \A i \in 1..Len(q) : q[i] \in 1..n
  BY <1>1
<1>3. QED
  BY <1>2

LEMMA PanelTypes ==
  /\ O!PanelInvariant <=> PanelKept
  /\ O!PanelInvariant' <=> PanelKept'
<1>1. ASSUME PanelValues PROVE oQueue \in Seq(1..MaxChanges) /\ oShown \subseteq 1..MaxChanges
  <2>1. changes \in Nat /\ MaxChanges \in Nat /\ changes <= MaxChanges /\ 1..changes \subseteq 1..MaxChanges
    BY <1>1, ClientBounds DEF PanelValues
  <2>2. QED
    BY <1>1, <2>1, MoreChanges DEF PanelValues
<1>2. ASSUME PanelValues' PROVE oQueue' \in Seq(1..MaxChanges) /\ oShown' \subseteq 1..MaxChanges
  <2>1. changes' \in Nat /\ MaxChanges \in Nat /\ changes' <= MaxChanges /\ 1..changes' \subseteq 1..MaxChanges
    BY <1>2, ClientBounds DEF PanelValues
  <2>2. QED
    BY <1>2, <2>1, MoreChanges DEF PanelValues
<1>3. O!TypeOK /\ O!Counted <=> PanelFlags /\ PanelValues /\ TimersDue
  <2>1. O!TypeOK /\ O!Counted => PanelFlags
    BY DEF O!TypeOK, O!Counted, PanelFlags
  <2>2. O!TypeOK /\ O!Counted => PanelValues
    BY DEF O!TypeOK, O!Counted, PanelValues, O!Panels
  <2>3. O!Counted => TimersDue
    BY DEF O!Counted, TimersDue
  <2>4. PanelFlags /\ PanelValues => O!TypeOK
    BY <1>1 DEF O!TypeOK, PanelFlags, PanelValues, O!Panels
  <2>5. PanelValues /\ TimersDue => O!Counted
    BY DEF O!Counted, PanelValues, TimersDue
  <2>6. QED
    BY <2>1, <2>2, <2>3, <2>4, <2>5
<1>4. (O!TypeOK /\ O!Counted <=> PanelFlags /\ PanelValues /\ TimersDue)'
  <2>1. O!TypeOK' /\ O!Counted' => PanelFlags'
    BY DEF O!TypeOK, O!Counted, PanelFlags
  <2>2. O!TypeOK' /\ O!Counted' => PanelValues'
    BY DEF O!TypeOK, O!Counted, PanelValues, O!Panels
  <2>3. O!Counted' => TimersDue'
    BY DEF O!Counted, TimersDue
  <2>4. PanelFlags' /\ PanelValues' => O!TypeOK'
    BY <1>2 DEF O!TypeOK, PanelFlags, PanelValues, O!Panels
  <2>5. PanelValues' /\ TimersDue' => O!Counted'
    BY DEF O!Counted, PanelValues, TimersDue
  <2>6. QED
    BY <2>1, <2>2, <2>3, <2>4, <2>5
<1>5. QED
  BY <1>3, <1>4 DEF O!PanelInvariant, PanelKept

\* The panels' steps.
PanelActions ==
  \/ O!Happens \/ O!HappensUntold \/ O!Connects \/ O!Closes
  \/ O!AgentEvent \/ O!AutoEvent \/ O!ProjectEvent \/ O!HistoryEvent
  \/ O!Toggle \/ O!Poll \/ O!Applies \/ O!Locks
  \/ (\E t \in BOOLEAN : O!SetToken(t)) \/ (\E t \in BOOLEAN : O!TimerFires(t))
  \/ (\E t \in BOOLEAN : O!Reads(t)) \/ (\E t \in BOOLEAN : O!CallFails(t))
  \/ (\E at \in oAnswers : O!Arrives(at))

LEMMA PanelSteps == O!Next => PanelActions
BY DEF O!Next, PanelActions

\* The panel refreshes itself.
LEMMA PanelAsks ==
  ASSUME PanelFlags, PanelValues, NEW t \in BOOLEAN, O!Ask(t)
  PROVE  oAsked' \in [BOOLEAN -> Nat] /\ O!Asking' /\ oFailed' = FALSE
<1>1. oAsked \in [BOOLEAN -> Nat] /\ oAsked' = [oAsked EXCEPT ![t] = @ + 1] /\ oFailed' = FALSE
  BY DEF PanelValues, O!Ask
<1>2. oAsked' \in [BOOLEAN -> Nat] /\ oAsked'[t] > 0
  BY <1>1
<1>3. QED
  BY <1>1, <1>2 DEF O!Asking

\* A call is answered or lost.
LEMMA PanelAnswered ==
  ASSUME PanelValues, NEW t \in BOOLEAN, oAsked[t] > 0, oAsked' = [oAsked EXCEPT ![t] = @ - 1]
  PROVE  oAsked' \in [BOOLEAN -> Nat]
BY DEF PanelValues

LEMMA PanelFlagsStay ==
  ASSUME PanelFlags, PanelActions
  PROVE  PanelFlags' /\ oStrict' = oStrict /\ panel' = panel
<1>0. /\ oHandler \in [open : BOOLEAN, token : BOOLEAN] /\ oTimer \subseteq BOOLEAN /\ oToken \in BOOLEAN
      /\ open \in BOOLEAN
  BY DEF PanelFlags
<1>1. CASE O!Happens \/ O!HappensUntold \/ O!Applies
  <2>1. UNCHANGED <<panel, oStrict, oToken, open, oSocket, locked, oFailed, oHandler, oTimer>>
    BY <1>1 DEF O!Happens, O!HappensUntold, O!Applies, O!fixed, O!view, O!link, O!calls
  <2>2. missed' \in BOOLEAN
    BY <1>1 DEF O!Happens, O!HappensUntold, O!Applies, PanelFlags
  <2>3. QED
    BY <2>1, <2>2 DEF PanelFlags
<1>2. CASE O!Connects
  <2>1. UNCHANGED <<panel, oStrict, oToken, open, locked, missed, oFailed, oTimer>>
    BY <1>2 DEF O!Connects, O!fixed, O!view, O!calls
  <2>2. oSocket' = TRUE /\ oHandler' \in [open : BOOLEAN, token : BOOLEAN]
    BY <1>0, <1>2 DEF O!Connects
  <2>3. QED
    BY <2>1, <2>2 DEF PanelFlags
<1>3. CASE O!Closes
  <2>1. UNCHANGED <<panel, oStrict, oToken, open, locked, oFailed, oTimer, oHandler>>
    BY <1>3 DEF O!Closes, O!fixed, O!view, O!calls
  <2>2. oSocket' = FALSE
    BY <1>3 DEF O!Closes
  <2>3. missed' \in BOOLEAN
    BY <1>3 DEF O!Closes
  <2>4. QED
    BY <2>1, <2>2, <2>3 DEF PanelFlags
<1>4. CASE O!AgentEvent \/ O!AutoEvent \/ O!ProjectEvent \/ O!HistoryEvent
  <2>1. UNCHANGED <<panel, oStrict, oToken, open, oSocket, locked, oHandler>>
    BY <1>4 DEF O!AgentEvent, O!AutoEvent, O!ProjectEvent, O!HistoryEvent, O!fixed, O!view, O!calls
  <2>2. missed' \in {missed, TRUE}
    BY <1>4 DEF O!AgentEvent, O!AutoEvent, O!ProjectEvent, O!HistoryEvent
  <2>3. oFailed' \in {oFailed, FALSE}
    BY <1>4 DEF O!AgentEvent, O!AutoEvent, O!ProjectEvent, O!HistoryEvent, O!Ask, O!AsksNothing, O!calls
  <2>4. oTimer' \in {oTimer, {oHandler.token}}
    BY <1>4 DEF O!AgentEvent, O!AutoEvent, O!ProjectEvent, O!HistoryEvent
  <2>5. oTimer' \subseteq BOOLEAN
    BY <1>0, <2>4
  <2>6. missed' \in BOOLEAN /\ oFailed' \in BOOLEAN
    BY <2>2, <2>3 DEF PanelFlags
  <2>7. QED
    BY <2>1, <2>5, <2>6 DEF PanelFlags
<1>5. CASE O!Toggle \/ O!Poll \/ \E t \in BOOLEAN : O!SetToken(t)
  <2>1. UNCHANGED <<panel, oStrict, oSocket, locked, oHandler, oTimer>>
    BY <1>5 DEF O!Toggle, O!Poll, O!SetToken, O!fixed, O!view, O!link
  <2>2. open' \in BOOLEAN /\ oToken' \in BOOLEAN
    BY <1>0, <1>5 DEF O!Toggle, O!Poll, O!SetToken, O!view
  <2>3. oFailed' \in {oFailed, FALSE}
    BY <1>5 DEF O!Toggle, O!Poll, O!SetToken, O!Ask, O!AsksNothing
  <2>4. missed' \in BOOLEAN
    BY <1>5 DEF O!Toggle, O!Poll, O!SetToken, PanelFlags
  <2>5. oFailed' \in BOOLEAN
    BY <2>3 DEF PanelFlags
  <2>6. QED
    BY <1>0, <2>1, <2>2, <2>4, <2>5 DEF PanelFlags
<1>6. CASE O!Locks \/ (\E t \in BOOLEAN : O!CallFails(t))
  <2>1. UNCHANGED <<panel, oStrict, oToken, open, oSocket, oHandler, oTimer, missed>> /\ oFailed' = TRUE
        /\ locked' \in {locked, TRUE}
    BY <1>6 DEF O!Locks, O!CallFails, O!fixed, O!view, O!link
  <2>2. locked' \in BOOLEAN
    BY <2>1 DEF PanelFlags
  <2>3. QED
    BY <2>1, <2>2 DEF PanelFlags
<1>7. CASE (\E t \in BOOLEAN : O!TimerFires(t)) \/ (\E t \in BOOLEAN : O!Reads(t)) \/ (\E at \in oAnswers : O!Arrives(at))
  <2>1. UNCHANGED <<panel, oStrict, oToken, open, oSocket, oHandler, missed>>
    BY <1>7 DEF O!TimerFires, O!Reads, O!Arrives, O!fixed, O!view, O!link
  <2>2. oTimer' \subseteq BOOLEAN
    BY <1>0, <1>7 DEF O!TimerFires, O!Reads, O!Arrives
  <2>3. oFailed' \in {oFailed, FALSE} /\ locked' \in {locked, FALSE}
    BY <1>7 DEF O!TimerFires, O!Reads, O!Arrives, O!Ask
  <2>4. oFailed' \in BOOLEAN /\ locked' \in BOOLEAN
    BY <2>3 DEF PanelFlags
  <2>5. QED
    BY <2>1, <2>2, <2>4 DEF PanelFlags
<1> DEFINE Goal == PanelFlags' /\ oStrict' = oStrict /\ panel' = panel
<1> HIDE DEF Goal
<1>8. QED
  BY <1>1, <1>2, <1>3, <1>4, <1>5, <1>6, <1>7 DEF PanelActions, Goal

LEMMA PanelTimersStay ==
  ASSUME TimersDue, PanelActions
  PROVE  TimersDue'
<1>1. CASE O!AutoEvent \/ O!ProjectEvent
  <2>1. panel' = panel /\ panel \in {"auto", "projects"}
    BY <1>1 DEF O!AutoEvent, O!ProjectEvent, O!fixed
  <2>2. QED
    BY <2>1 DEF TimersDue
<1>2. CASE \E t \in BOOLEAN : O!TimerFires(t)
  <2>1. oTimer' = {}
    BY <1>2 DEF O!TimerFires
  <2>2. QED
    BY <2>1 DEF TimersDue
<1>3. CASE O!Happens \/ O!HappensUntold \/ O!Connects \/ O!Closes \/ O!AgentEvent \/ O!HistoryEvent
           \/ O!Toggle \/ O!Poll \/ O!Applies \/ O!Locks
  <2>1. UNCHANGED <<panel, oTimer>>
    BY <1>3 DEF O!Happens, O!HappensUntold, O!Connects, O!Closes, O!AgentEvent, O!HistoryEvent, O!Toggle,
                O!Poll, O!Applies, O!Locks, O!fixed
  <2>2. QED
    BY <2>1 DEF TimersDue
<1>4. CASE (\E t \in BOOLEAN : O!SetToken(t)) \/ (\E t \in BOOLEAN : O!Reads(t)) \/ (\E t \in BOOLEAN : O!CallFails(t))
           \/ (\E at \in oAnswers : O!Arrives(at))
  <2>1. UNCHANGED <<panel, oTimer>>
    BY <1>4 DEF O!SetToken, O!Reads, O!CallFails, O!Arrives, O!fixed
  <2>2. QED
    BY <2>1 DEF TimersDue
<1> DEFINE Goal == TimersDue'
<1> HIDE DEF Goal
<1>5. QED
  BY <1>1, <1>2, <1>3, <1>4 DEF PanelActions, Goal

LEMMA PanelValuesStay ==
  ASSUME PanelFlags, PanelValues, PanelActions
  PROVE  PanelValues'
<1>0. /\ panel \in {"agents", "auto", "projects", "history"} /\ changes \in 0..MaxChanges /\ MaxChanges \in Nat
      /\ oQueue \in Seq(1..changes) /\ oShown \subseteq 1..changes
      /\ oAsked \in [BOOLEAN -> Nat] /\ oAnswers \subseteq 0..changes \cup {O!Refused}
      /\ seen \subseteq 1..changes
  BY ClientBounds DEF PanelValues
<1>1. panel' = panel
  BY PanelFlagsStay
<1>2. CASE O!Happens \/ O!Applies \/ O!HappensUntold
  <2>1. /\ changes < MaxChanges /\ changes' = changes + 1 /\ UNCHANGED <<oShown, seen, oAsked>>
        /\ oQueue' = oQueue \/ oQueue' = Append(oQueue, changes + 1)
        /\ oAnswers' = oAnswers \/ oAnswers' = oAnswers \cup {changes + 1}
    BY <1>2 DEF O!Happens, O!Applies, O!HappensUntold, O!display, O!calls, O!link
  <2>2. changes' \in 0..MaxChanges /\ changes + 1 \in 1..changes'
    BY <1>0, <2>1
  <2>3. oQueue \in Seq(1..changes')
    BY <1>0, <2>1, MoreChanges
  <2>4. oQueue' \in Seq(1..changes')
    BY <2>1, <2>2, <2>3
  <2>5. oAnswers' \subseteq 0..changes' \cup {O!Refused} /\ seen' \subseteq 1..changes' /\ oShown' \subseteq 1..changes'
    <3>1. 0..changes \subseteq 0..changes' /\ 1..changes \subseteq 1..changes' /\ changes + 1 \in 0..changes'
      BY <1>0, <2>1
    <3>2. QED
      BY <1>0, <2>1, <3>1
  <2>6. QED
    BY <1>0, <1>1, <2>1, <2>2, <2>4, <2>5 DEF PanelValues, O!Refused
<1>3. CASE O!Connects \/ O!Closes
  <2>1. UNCHANGED <<changes, oShown, seen, oAsked, oAnswers>> /\ (oQueue' = oQueue \/ oQueue' = <<>>)
    BY <1>3 DEF O!Connects, O!Closes, O!display, O!calls
  <2>2. oQueue' \in Seq(1..changes)
    <3>1. oQueue \in Seq(1..changes) /\ <<>> \in Seq(1..changes)
      BY <1>0
    <3>2. QED
      BY <2>1, <3>1
  <2>3. QED
    BY <1>0, <1>1, <2>1, <2>2 DEF PanelValues
<1>4. CASE O!AgentEvent \/ O!AutoEvent \/ O!ProjectEvent \/ O!HistoryEvent
  <2>1. /\ UNCHANGED <<changes, oAnswers>> /\ oQueue # <<>> /\ oQueue' = Tail(oQueue)
    BY <1>4 DEF O!AgentEvent, O!AutoEvent, O!ProjectEvent, O!HistoryEvent, O!Received, O!calls
  <2>2. oQueue' \in Seq(1..changes) /\ Head(oQueue) \in 1..changes
    BY <1>0, <2>1, HeadTailProperties
  <2>3. oAsked' \in [BOOLEAN -> Nat]
    <3>1. CASE oAsked' = oAsked
      BY <1>0, <3>1
    <3>2. CASE oAsked' # oAsked
      <4>1. O!Ask(oHandler.token)
        BY <1>4, <3>2 DEF O!AgentEvent, O!AutoEvent, O!ProjectEvent, O!HistoryEvent, O!AsksNothing, O!calls
      <4>2. oHandler.token \in BOOLEAN
        BY DEF PanelFlags
      <4>3. QED
        BY <4>1, <4>2, PanelAsks
    <3>3. QED
      BY <3>1, <3>2
  <2>4. \/ UNCHANGED <<oShown, seen>>
        \/ \E s \in SUBSET (1..changes) : seen' = seen \cup s /\ (oShown' = s \/ oShown' = oShown \cup s)
    <3>1. CASE O!AgentEvent \/ O!AutoEvent
      BY <3>1 DEF O!AgentEvent, O!AutoEvent, O!display
    <3>2. CASE O!ProjectEvent
      <4>1. oShown' = 1..Head(oQueue) /\ seen' = seen \cup 1..Head(oQueue)
        BY <3>2 DEF O!ProjectEvent, O!Shows
      <4>2. 1..Head(oQueue) \in SUBSET (1..changes)
        BY <1>0, <2>2
      <4>3. QED
        BY <4>1, <4>2
    <3>3. CASE O!HistoryEvent
      <4>1. oShown' = oShown \cup {Head(oQueue)} /\ seen' = seen \cup (oShown \cup {Head(oQueue)})
        BY <3>3 DEF O!HistoryEvent, O!Shows
      <4>2. oShown \cup {Head(oQueue)} \in SUBSET (1..changes)
        BY <1>0, <2>2
      <4>3. QED
        BY <4>1, <4>2
    <3>4. QED
      BY <1>4, <3>1, <3>2, <3>3
  <2>5. seen' \subseteq 1..changes /\ oShown' \subseteq 1..changes
    BY <1>0, <2>4
  <2>6. QED
    BY <1>0, <1>1, <2>1, <2>2, <2>3, <2>5 DEF PanelValues
<1>5. CASE O!Toggle \/ O!Poll \/ (\E t \in BOOLEAN : O!SetToken(t)) \/ (\E t \in BOOLEAN : O!TimerFires(t))
  <2>1. UNCHANGED <<changes, oQueue, oAnswers, oShown, seen>>
    BY <1>5 DEF O!Toggle, O!Poll, O!SetToken, O!TimerFires, O!link, O!display
  <2>2. oAsked' \in [BOOLEAN -> Nat]
    <3>1. CASE oAsked' = oAsked
      BY <1>0, <3>1
    <3>2. CASE oAsked' # oAsked
      <4>1. oToken \in BOOLEAN
        BY DEF PanelFlags
      <4>2. \E t \in BOOLEAN : O!Ask(t)
        BY <1>5, <3>2, <4>1 DEF O!Toggle, O!Poll, O!SetToken, O!TimerFires, O!AsksNothing
      <4>3. QED
        BY <4>2, PanelAsks
    <3>3. QED
      BY <3>1, <3>2
  <2>3. QED
    BY <1>0, <1>1, <2>1, <2>2 DEF PanelValues
<1>6. CASE O!Locks
  <2>1. UNCHANGED <<changes, oQueue, oAsked, oShown, seen>> /\ oAnswers' \subseteq oAnswers
    BY <1>6 DEF O!Locks, O!link, O!display
  <2>2. oAnswers' \subseteq 0..changes \cup {O!Refused}
    BY <1>0, <2>1
  <2>3. QED
    BY <1>0, <1>1, <2>1, <2>2 DEF PanelValues, O!Refused
<1>7. CASE \E t \in BOOLEAN : O!CallFails(t)
  <2>1. PICK t \in BOOLEAN : O!CallFails(t)
    BY <1>7
  <2>2. UNCHANGED <<changes, oQueue, oAnswers, oShown, seen>>
        /\ oAsked[t] > 0 /\ oAsked' = [oAsked EXCEPT ![t] = @ - 1]
    BY <2>1 DEF O!CallFails, O!link, O!display
  <2>3. oAsked' \in [BOOLEAN -> Nat]
    BY <2>2, PanelAnswered
  <2>4. QED
    BY <1>0, <1>1, <2>2, <2>3 DEF PanelValues
<1>8. CASE \E t \in BOOLEAN : O!Reads(t)
  <2>1. PICK t \in BOOLEAN : O!Reads(t)
    BY <1>8
  <2>2. /\ UNCHANGED <<changes, oQueue, oShown, seen>>
        /\ oAsked[t] > 0 /\ oAsked' = [oAsked EXCEPT ![t] = @ - 1]
        /\ oAnswers' \subseteq oAnswers \cup {changes, O!Refused}
    BY <2>1 DEF O!Reads, O!link, O!display
  <2>3. oAsked' \in [BOOLEAN -> Nat]
    BY <2>2, PanelAnswered
  <2>4. oAnswers' \subseteq 0..changes \cup {O!Refused}
    <3>1. changes \in 0..changes
      BY <1>0
    <3>2. QED
      BY <1>0, <2>2, <3>1
  <2>5. QED
    BY <1>0, <1>1, <2>2, <2>3, <2>4 DEF PanelValues, O!Refused
<1>9. CASE \E at \in oAnswers : O!Arrives(at)
  <2>1. PICK a \in oAnswers : O!Arrives(a)
    BY <1>9
  <2>2. /\ UNCHANGED <<changes, oQueue, oAsked>> /\ a # O!Refused /\ oAnswers' \subseteq oAnswers
        /\ oShown' = 1..a /\ seen' = seen \cup 1..a
    BY <2>1 DEF O!Arrives, O!link, O!Shows
  <2>3. a \in 0..changes
    BY <1>0, <2>2
  <2>4. 1..a \subseteq 1..changes
    BY <1>0, <2>3
  <2>5. oAnswers' \subseteq 0..changes \cup {O!Refused}
    BY <1>0, <2>2
  <2>6. QED
    BY <1>0, <1>1, <2>2, <2>4, <2>5 DEF PanelValues, O!Refused
<1> DEFINE Goal == PanelValues'
<1> HIDE DEF Goal
<1>10. QED
  BY <1>2, <1>3, <1>4, <1>5, <1>6, <1>7, <1>8, <1>9 DEF PanelActions, Goal

\* A panel that refreshes itself.
LEMMA RefreshStaysDue ==
  ASSUME PanelFlags, PanelValues, O!RefreshIsDue, PanelActions
  PROVE  O!RefreshIsDue'
<1>0. /\ panel \in {"agents", "auto", "projects", "history"} /\ changes \in Nat
      /\ oQueue \in Seq(1..changes)
      /\ oAsked \in [BOOLEAN -> Nat] /\ oAnswers \subseteq 0..changes \cup {O!Refused}
      /\ seen \subseteq 1..changes
  BY DEF PanelValues
<1>1. panel' = panel
  BY PanelFlagsStay
<1>2. ASSUME NEW t \in BOOLEAN, O!Ask(t) PROVE O!RefreshIsDue'
  BY <1>2, PanelAsks DEF O!RefreshIsDue
<1>3. oToken \in BOOLEAN /\ oHandler.token \in BOOLEAN
  BY DEF PanelFlags
<1>4. CASE O!Happens \/ O!Applies
  <2>1. /\ oQueue' = IF oSocket THEN Append(oQueue, changes + 1) ELSE oQueue
        /\ missed' = (missed \/ ~oSocket)
    BY <1>4 DEF O!Happens, O!Applies
  <2>2. oSocket => oQueue' # <<>>
    BY <1>0, <2>1, AppendProperties
  <2>3. ~oSocket => missed'
    BY <2>1
  <2>4. QED
    BY <2>2, <2>3 DEF O!RefreshIsDue, O!Watches
<1>5. CASE O!HappensUntold
  <2>1. missed'
    BY <1>5 DEF O!HappensUntold
  <2>2. QED
    BY <2>1 DEF O!RefreshIsDue, O!Watches
<1>6. CASE O!Connects
  <2>1. UNCHANGED <<panel, changes, open, missed, oFailed, seen, oAnswers, oTimer, oQueue, oAsked>>
    BY <1>6 DEF O!Connects, O!fixed, O!view, O!calls, O!display
  <2>2. QED
    BY <2>1 DEF O!RefreshIsDue, O!Watches, O!Asking
<1>7. CASE O!Closes
  <2>1. UNCHANGED <<panel, changes, open, oFailed, seen, oAnswers, oTimer, oAsked>>
        /\ missed' = (missed \/ oQueue # <<>>)
    BY <1>7 DEF O!Closes, O!fixed, O!view, O!calls, O!display
  <2>2. QED
    BY <2>1 DEF O!RefreshIsDue, O!Watches, O!Asking
<1>8. CASE O!AgentEvent
  <2>1. O!Ask(oHandler.token) \/ missed'
    BY <1>8 DEF O!AgentEvent
  <2>2. CASE missed'
    BY <2>2 DEF O!RefreshIsDue, O!Watches
  <2>3. QED
    BY <1>2, <1>3, <2>1, <2>2
<1>9. CASE O!AutoEvent \/ O!ProjectEvent
  <2>1. oTimer' # {} \/ missed'
    BY <1>9 DEF O!AutoEvent, O!ProjectEvent
  <2>2. QED
    BY <2>1 DEF O!RefreshIsDue, O!Watches
<1>10. CASE O!HistoryEvent
  <2>1. panel = "history"
    BY <1>10 DEF O!HistoryEvent
  <2>2. QED
    BY <1>1, <2>1 DEF O!RefreshIsDue
<1>11. CASE O!Toggle
  <2>1. CASE panel # "history" /\ open'
    <3>1. O!Ask(oToken)
      BY <1>11, <2>1 DEF O!Toggle, O!OpeningAsks
    <3>2. QED
      BY <1>2, <1>3, <3>1
  <2>2. CASE panel # "history" /\ ~open'
    <3>1. UNCHANGED <<changes, seen, oAnswers, oTimer, oQueue, oAsked, oFailed>> /\ open /\ (missed' <=> missed)
      BY <1>11, <2>2 DEF O!Toggle, O!AsksNothing, O!link, O!display
    <3>2. QED
      BY <1>1, <2>2, <3>1 DEF O!RefreshIsDue, O!Watches, O!Asking
  <2>3. CASE panel = "history"
    BY <1>1, <2>3 DEF O!RefreshIsDue
  <2>4. QED
    BY <2>1, <2>2, <2>3
<1>12. CASE O!Poll
  <2>1. O!Ask(oToken)
    BY <1>12 DEF O!Poll
  <2>2. QED
    BY <1>2, <1>3, <2>1
<1>13. CASE \E t \in BOOLEAN : O!SetToken(t)
  <2>1. PICK t \in BOOLEAN : O!SetToken(t)
    BY <1>13
  <2>2. CASE panel = "projects" \/ open
    <3>1. O!Ask(t)
      BY <2>1, <2>2 DEF O!SetToken
    <3>2. QED
      BY <1>2, <3>1
  <2>3. CASE ~ (panel = "projects" \/ open)
    <3>1. open' = open /\ panel # "history"
      BY <2>1 DEF O!SetToken
    <3>2. QED
      BY <1>1, <2>3, <3>1 DEF O!RefreshIsDue, O!Watches
  <2>4. QED
    BY <2>2, <2>3
<1>14. CASE O!Locks \/ \E t \in BOOLEAN : O!CallFails(t)
  <2>1. oFailed'
    BY <1>14 DEF O!Locks, O!CallFails
  <2>2. QED
    BY <2>1 DEF O!RefreshIsDue, O!Watches
<1>15. CASE \E t \in BOOLEAN : O!TimerFires(t)
  <2>1. \E t \in BOOLEAN : O!Ask(t)
    BY <1>15 DEF O!TimerFires
  <2>2. QED
    BY <1>2, <2>1
<1>16. CASE \E t \in BOOLEAN : O!Reads(t)
  <2>1. changes' = changes /\ (changes \in oAnswers' \/ O!Refused \in oAnswers')
    BY <1>16 DEF O!Reads
  <2>2. QED
    BY <2>1 DEF O!RefreshIsDue, O!Watches, O!Refused
<1>17. CASE \E at \in oAnswers : O!Arrives(at)
  <2>1. PICK a \in oAnswers : O!Arrives(a)
    BY <1>17
  <2>2. /\ UNCHANGED <<changes, open, missed, oFailed, oTimer, oQueue, oAsked>>
        /\ a # O!Refused /\ oAnswers' = oAnswers \ {a} /\ seen' = seen \cup 1..a
    BY <2>1 DEF O!Arrives, O!view, O!link, O!Shows
  <2>3. a \in 0..changes
    BY <1>0, <2>2
  <2>4. 1..a \subseteq 1..changes
    BY <1>0, <2>3
  <2>5. seen = 1..changes \/ a = changes => seen' = 1..changes
    BY <1>0, <2>2, <2>4
  <2>6. O!Refused' = O!Refused
    BY DEF O!Refused
  <2>7. O!Refused \in oAnswers => O!Refused \in oAnswers'
    BY <2>2
  <2>8. changes \in oAnswers /\ a # changes => changes \in oAnswers'
    BY <2>2
  <2>9. O!Asking' <=> O!Asking
    BY <2>2 DEF O!Asking
  <2>10. O!Watches' <=> O!Watches
    BY <1>1, <2>2 DEF O!Watches
  <2>11. QED
    BY <1>1, <2>2, <2>5, <2>6, <2>7, <2>8, <2>9, <2>10 DEF O!RefreshIsDue
<1> DEFINE Goal == O!RefreshIsDue'
<1> HIDE DEF Goal
<1>18. QED
  BY <1>4, <1>5, <1>6, <1>7, <1>8, <1>9, <1>10, <1>11, <1>12, <1>13, <1>14, <1>15, <1>16, <1>17
     DEF PanelActions, Goal

\* The history.
LEMMA NothingStaysUnheard ==
  ASSUME PanelFlags, PanelValues, TimersDue, O!NothingUnheard, PanelActions
  PROVE  O!NothingUnheard'
<1>0. /\ changes \in Nat /\ oQueue \in Seq(1..changes)
      /\ oAsked \in [BOOLEAN -> Nat] /\ oAnswers \subseteq 0..changes \cup {O!Refused}
  BY DEF PanelValues
<1>1. panel' = panel
  BY PanelFlagsStay
<1> SUFFICES ASSUME panel = "history", O!Watches', NEW c \in 1..changes'
             PROVE  \/ c \in seen'
                    \/ \E i \in DOMAIN oQueue' : oQueue'[i] = c
                    \/ \E at \in oAnswers' : at >= c
                    \/ O!Asking'
  BY <1>1 DEF O!NothingUnheard
<1> DEFINE Due == \/ c \in seen
                  \/ \E i \in DOMAIN oQueue : oQueue[i] = c
                  \/ \E at \in oAnswers : at >= c
                  \/ O!Asking
<1>2. O!Watches /\ c \in 1..changes => Due
  BY DEF O!NothingUnheard
<1>3. O!Watches' <=> ~missed' /\ ~oFailed'
  BY <1>1 DEF O!Watches
<1>4. O!Watches <=> ~missed /\ ~oFailed
  BY DEF O!Watches
<1>5. CASE O!Happens
  <2>1. /\ UNCHANGED <<oFailed, oAsked, oAnswers, seen>> /\ changes' = changes + 1
        /\ oQueue' = IF oSocket THEN Append(oQueue, changes + 1) ELSE oQueue
        /\ missed' = (missed \/ ~oSocket)
    BY <1>5 DEF O!Happens, O!calls, O!display
  <2>2. oSocket /\ O!Watches
    BY <1>3, <1>4, <2>1
  <2>3. /\ oQueue' = Append(oQueue, changes + 1)
        /\ \A i \in DOMAIN oQueue : i \in DOMAIN oQueue' /\ oQueue'[i] = oQueue[i]
        /\ Len(oQueue) + 1 \in DOMAIN oQueue' /\ oQueue'[Len(oQueue) + 1] = changes + 1
    BY <1>0, <2>1, <2>2, AppendProperties
  <2>4. CASE c = changes + 1
    BY <2>3, <2>4
  <2>5. CASE c \in 1..changes
    <3>1. Due
      BY <1>2, <2>2, <2>5
    <3>2. O!Asking' <=> O!Asking
      BY <2>1 DEF O!Asking
    <3>3. QED
      BY <2>1, <2>3, <3>1, <3>2
  <2>6. QED
    BY <1>0, <2>1, <2>4, <2>5
<1>6. CASE O!HappensUntold \/ O!Applies \/ O!AgentEvent \/ O!AutoEvent \/ O!ProjectEvent \/ O!Poll
           \/ \E t \in BOOLEAN : O!SetToken(t)
  BY <1>6 DEF O!HappensUntold, O!Applies, O!AgentEvent, O!AutoEvent, O!ProjectEvent, O!Poll, O!SetToken
<1>7. CASE O!Connects
  <2>1. UNCHANGED <<changes, missed, oFailed, seen, oAnswers, oQueue, oAsked>>
    BY <1>7 DEF O!Connects, O!calls, O!display
  <2>2. Due
    BY <1>2, <1>3, <1>4, <2>1
  <2>3. QED
    BY <2>1, <2>2 DEF O!Asking
<1>8. CASE O!Closes
  <2>1. UNCHANGED <<changes, oFailed, seen, oAnswers, oAsked>> /\ oQueue' = <<>> /\ missed' = (missed \/ oQueue # <<>>)
    BY <1>8 DEF O!Closes, O!calls, O!display
  <2>2. oQueue' = oQueue /\ O!Watches
    BY <1>3, <1>4, <2>1
  <2>3. Due
    BY <1>2, <2>1, <2>2
  <2>4. QED
    BY <2>1, <2>2, <2>3 DEF O!Asking
<1>9. CASE O!HistoryEvent
  <2>1. /\ UNCHANGED <<changes, missed, oFailed, oAnswers, oAsked>> /\ oQueue # <<>> /\ oQueue' = Tail(oQueue)
        /\ seen' = seen \cup (oShown \cup {Head(oQueue)})
    BY <1>9 DEF O!HistoryEvent, O!Received, O!Shows, O!calls
  <2>2. Due
    BY <1>2, <1>3, <1>4, <2>1
  <2>3. ASSUME NEW i \in DOMAIN oQueue PROVE oQueue[i] \in seen' \/ \E j \in DOMAIN oQueue' : oQueue'[j] = oQueue[i]
    <3>1. CASE i = 1
      BY <2>1, <3>1
    <3>2. CASE i # 1
      <4>1. /\ DOMAIN oQueue = 1..Len(oQueue) /\ Len(oQueue) \in Nat /\ Len(oQueue') = Len(oQueue) - 1
            /\ DOMAIN oQueue' = 1..Len(oQueue') /\ \A j \in 1..Len(oQueue') : oQueue'[j] = oQueue[j + 1]
        BY <1>0, <2>1, HeadTailProperties
      <4>2. i - 1 \in DOMAIN oQueue' /\ oQueue'[i - 1] = oQueue[i]
        BY <3>2, <4>1
      <4>3. QED
        BY <4>2
    <3>3. QED
      BY <3>1, <3>2
  <2>4. O!Asking' <=> O!Asking
    BY <2>1 DEF O!Asking
  <2>5. QED
    BY <2>1, <2>2, <2>3, <2>4
<1>10. CASE O!Toggle
  <2>1. UNCHANGED <<changes, oFailed, seen, oAnswers, oQueue, oAsked>> /\ (missed' <=> missed)
    BY <1>10 DEF O!Toggle, O!OpeningAsks, O!AsksNothing, O!link, O!display
  <2>2. Due
    BY <1>2, <1>3, <1>4, <2>1
  <2>3. QED
    BY <2>1, <2>2 DEF O!Asking
<1>11. CASE O!Locks \/ \E t \in BOOLEAN : O!CallFails(t)
  <2>1. oFailed'
    BY <1>11 DEF O!Locks, O!CallFails
  <2>2. QED
    BY <1>3, <2>1
<1>12. CASE \E t \in BOOLEAN : O!TimerFires(t)
  <2>1. PICK t \in BOOLEAN : O!Ask(t)
    BY <1>12 DEF O!TimerFires
  <2>2. QED
    BY <2>1, PanelAsks
<1>13. CASE \E t \in BOOLEAN : O!Reads(t)
  <2>1. changes' = changes /\ changes \in oAnswers'
    BY <1>13 DEF O!Reads, O!Admitted
  <2>2. changes >= c
    BY <1>0, <2>1
  <2>3. QED
    BY <2>1, <2>2
<1>14. CASE \E at \in oAnswers : O!Arrives(at)
  <2>1. PICK a \in oAnswers : O!Arrives(a)
    BY <1>14
  <2>2. /\ UNCHANGED <<changes, missed, oFailed, oQueue, oAsked>>
        /\ a # O!Refused /\ oAnswers' = oAnswers \ {a} /\ seen' = seen \cup 1..a
    BY <2>1 DEF O!Arrives, O!link, O!Shows
  <2>3. a \in 0..changes
    BY <1>0, <2>2
  <2>4. Due
    BY <1>2, <1>3, <1>4, <2>2
  <2>5. a >= c => c \in seen'
    BY <1>0, <2>2, <2>3
  <2>6. O!Asking' <=> O!Asking
    BY <2>2 DEF O!Asking
  <2>7. QED
    BY <2>2, <2>4, <2>5, <2>6
<1>15. QED
  BY <1>5, <1>6, <1>7, <1>8, <1>9, <1>10, <1>11, <1>12, <1>13, <1>14 DEF PanelActions

LEMMA PanelsBegin ==
  ASSUME O!Init
  PROVE  O!PanelInvariant
<1>1. /\ panel \in {"agents", "auto", "projects", "history"} /\ changes = 0 /\ oQueue = <<>>
      /\ oHandler = [open |-> FALSE, token |-> FALSE] /\ oAnswers = {} /\ oTimer = {} /\ oShown = {} /\ seen = {}
  BY DEF O!Init, O!Panels
<1>2. PanelFlags
  <2>1. open \in BOOLEAN /\ oStrict \in BOOLEAN /\ oToken \in BOOLEAN
    BY DEF O!Init
  <2>2. oSocket = FALSE /\ locked = FALSE /\ missed = FALSE /\ oFailed = FALSE
    BY DEF O!Init
  <2>3. QED
    BY <1>1, <2>1, <2>2 DEF PanelFlags
<1>3. PanelValues
  <2>1. oAsked \in [BOOLEAN -> Nat]
    BY DEF O!Init
  <2>2. changes \in 0..MaxChanges /\ oQueue \in Seq(1..changes)
    BY <1>1, ClientBounds
  <2>3. QED
    BY <1>1, <2>1, <2>2 DEF PanelValues
<1>4. TimersDue
  BY <1>1 DEF TimersDue
<1>5. O!RefreshIsDue
  <2>1. seen = 1..changes
    BY <1>1
  <2>2. QED
    BY <2>1 DEF O!RefreshIsDue
<1>6. O!NothingUnheard
  BY <1>1 DEF O!NothingUnheard
<1>7. QED
  BY <1>2, <1>3, <1>4, <1>5, <1>6, PanelTypes DEF PanelKept

LEMMA PanelsStay ==
  ASSUME O!PanelInvariant, [O!Next]_oVars
  PROVE  O!PanelInvariant'
<1>0. PanelFlags /\ PanelValues /\ TimersDue /\ O!RefreshIsDue /\ O!NothingUnheard
  BY PanelTypes DEF PanelKept
<1>1. PanelKept' => O!PanelInvariant'
  BY PanelTypes
<1>2. CASE O!Next
  <2>1. PanelActions
    BY <1>2, PanelSteps
  <2>2. QED
    BY <1>0, <1>1, <2>1, PanelFlagsStay, PanelValuesStay, PanelTimersStay, RefreshStaysDue, NothingStaysUnheard
       DEF PanelKept
<1>3. CASE UNCHANGED oVars
  <2>1. UNCHANGED <<panel, oStrict, changes, oToken, open, oSocket, oQueue, oHandler, oAsked, oAnswers,
                    oTimer, oShown, locked, missed, oFailed, seen>>
    BY <1>3 DEF oVars
  <2>2. PanelFlags'
    BY <1>0, <2>1 DEF PanelFlags
  <2>3. PanelValues' /\ TimersDue'
    BY <1>0, <2>1 DEF PanelValues, TimersDue, O!Refused
  <2>4. O!RefreshIsDue'
    BY <1>0, <2>1 DEF O!RefreshIsDue, O!Watches, O!Asking, O!Refused
  <2>5. O!NothingUnheard'
    BY <1>0, <2>1 DEF O!NothingUnheard, O!Watches, O!Asking
  <2>6. QED
    BY <1>1, <2>2, <2>3, <2>4, <2>5 DEF PanelKept
<1>4. QED
  BY <1>2, <1>3

LEMMA PanelsSuffice ==
  ASSUME O!PanelInvariant
  PROVE  O!PanelsCatchUp
<1>1. seen \subseteq 1..changes /\ O!RefreshIsDue /\ O!NothingUnheard /\ panel \in {"agents", "auto", "projects", "history"}
  BY PanelTypes DEF PanelKept, PanelValues
<1>2. SUFFICES ASSUME O!Settled, O!Watches PROVE seen = 1..changes
  BY DEF O!PanelsCatchUp, O!Watches
<1>3. oQueue = <<>> /\ oTimer = {} /\ oAnswers = {} /\ oAsked = [t \in BOOLEAN |-> 0]
  BY <1>2 DEF O!Settled
<1>4. ~O!Asking
  BY <1>3 DEF O!Asking
<1>5. CASE panel # "history"
  BY <1>1, <1>2, <1>3, <1>4, <1>5 DEF O!RefreshIsDue
<1>6. CASE panel = "history"
  <2>1. \A c \in 1..changes : c \in seen
    BY <1>2, <1>1, <1>3, <1>4, <1>6 DEF O!NothingUnheard
  <2>2. QED
    BY <1>1, <2>1
<1>7. QED
  BY <1>5, <1>6

-----------------------------------------------------------------------------
(* The chain of requests (listRequestChain of workflow/server).            *)

LEMMA ChainCounts ==
  ASSUME NEW s PROVE Q!Cardinality(s) = Cardinality(s)
BY DEF Q!Cardinality, Cardinality

\* A request is made after its parent.
LEMMA ParentsAreOlder ==
  ASSUME Q!ChainInvariant
  PROVE  /\ Len(made) \in Nat /\ Q!Ids = 1..Len(made)
         /\ \A r \in Q!Ids : made[r].parent \in Nat /\ made[r].parent < r /\ made[r].at \in Int
         /\ \A r \in Q!Ids : made[r].parent # 0 => made[r].parent \in Q!Ids
<1>1. made \in Seq([parent : Nat, at : 0 .. MaxClock])
  BY DEF Q!ChainInvariant
<1>2. Len(made) \in Nat /\ Q!Ids = 1..Len(made)
  BY <1>1 DEF Q!Ids
<1>3. ASSUME NEW r \in Q!Ids
      PROVE  made[r].parent \in Nat /\ made[r].parent < r /\ made[r].at \in Int
  <2>1. made[r].parent \in 0..r - 1 /\ r \in Nat
    BY <1>2 DEF Q!ChainInvariant, Q!TypeOK
  <2>2. made[r] \in [parent : Nat, at : 0 .. MaxClock]
    <3> DEFINE Made == [parent : Nat, at : 0 .. MaxClock]
    <3>1. made \in Seq(Made) /\ r \in 1..Len(made)
      BY <1>1, <1>2
    <3> HIDE DEF Made
    <3>2. made[r] \in Made
      BY <3>1
    <3>3. QED
      BY <3>2 DEF Made
  <2>3. made[r].at \in 0..MaxClock
    BY <2>2
  <2>4. QED
    BY <2>1, <2>3, ChainBounds
<1>4. ASSUME NEW r \in Q!Ids, made[r].parent # 0 PROVE made[r].parent \in Q!Ids
  BY <1>2, <1>3, <1>4
<1>5. QED
  BY <1>2, <1>3, <1>4

\* f has the paths of the first k requests.
Traced(f, k) ==
  f = [r \in 1..k |-> IF made[r].parent = 0 THEN <<r>> ELSE Append(f[made[r].parent], r)]

LEMMA PathsExist ==
  ASSUME Q!ChainInvariant
  PROVE  \A k \in 0..Len(made) : \E f : Traced(f, k)
<1> DEFINE Bad == {k \in 0..Len(made) : ~ \E f : Traced(f, k)}
<1>0. /\ Len(made) \in Nat
      /\ \A r \in 1..Len(made) : made[r].parent \in Nat /\ made[r].parent < r
  BY ParentsAreOlder
<1>1. SUFFICES ASSUME Bad # {} PROVE FALSE
  OBVIOUS
<1>2. PICK k \in Bad : \A m \in Bad : k <= m
  <2>1. Bad \in SUBSET Nat
    BY <1>0
  <2> HIDE DEF Bad
  <2>2. QED
    BY <1>1, <2>1, SmallestNumber
<1>3. k \in 0..Len(made) /\ ~ \E f : Traced(f, k)
  OBVIOUS
<1>4. CASE k = 0
  <2> DEFINE g == [r \in 1..0 |-> 0]
  <2>1. g = [r \in 1..0 |-> IF made[r].parent = 0 THEN <<r>> ELSE Append(g[made[r].parent], r)]
    OBVIOUS
  <2>2. Traced(g, 0)
    BY <2>1 DEF Traced
  <2>3. QED
    BY <1>3, <1>4, <2>2
<1>5. CASE k # 0
  <2>1. k - 1 \in 0..Len(made) /\ k \in 1..Len(made) /\ ~ (k <= k - 1)
    BY <1>0, <1>3, <1>5
  <2>2. k - 1 \notin Bad
    BY <1>2, <2>1
  <2>3. PICK f : Traced(f, k - 1)
    BY <2>1, <2>2
  <2> HIDE DEF Bad
  <2> DEFINE Step(h, r) == IF made[r].parent = 0 THEN <<r>> ELSE Append(h[made[r].parent], r)
             g == [r \in 1..k |-> IF r = k THEN Step(f, k) ELSE f[r]]
  <2>4. \A r \in 1..(k - 1) : f[r] = Step(f, r)
    <3>1. f = [r \in 1..(k - 1) |-> Step(f, r)]
      BY <2>3 DEF Traced
    <3> HIDE DEF Step
    <3>2. QED
      BY <3>1, Zenon
  <2>5. ASSUME NEW r \in 1..k PROVE g[r] = Step(g, r)
    <3>1. made[r].parent \in Nat /\ made[r].parent < r /\ r \in 1..k /\ r \in Int /\ k \in Int
      BY <1>0, <2>1
    <3>2. made[r].parent # 0 => made[r].parent \in 1..k /\ made[r].parent # k /\ g[made[r].parent] = f[made[r].parent]
      BY <3>1
    <3>3. Step(g, r) = Step(f, r)
      BY <3>2
    <3>4. r # k => g[r] = f[r] /\ f[r] = Step(f, r)
      <4>1. r # k => r \in 1..(k - 1)
        BY <3>1
      <4>2. r # k => g[r] = f[r]
        BY <3>1
      <4> HIDE DEF g, Step
      <4>3. QED
        BY <2>4, <4>1, <4>2
    <3>5. r = k => g[r] = Step(f, r)
      BY <3>1
    <3> HIDE DEF g, Step
    <3>6. QED
      BY <3>3, <3>4, <3>5
  <2>6. g = [r \in 1..k |-> Step(g, r)]
    <3>1. g = [r \in 1..k |-> g[r]]
      OBVIOUS
    <3> HIDE DEF g, Step
    <3>2. QED
      BY <2>5, <3>1
  <2>7. Traced(g, k)
    BY <2>6 DEF Traced
  <2>8. QED
    BY <1>3, <2>7
<1>6. QED
  BY <1>4, <1>5

LEMMA PathOf ==
  ASSUME Q!ChainInvariant, NEW r \in Q!Ids
  PROVE  Q!Path[r] = IF made[r].parent = 0 THEN <<r>> ELSE Append(Q!Path[made[r].parent], r)
<1>1. Len(made) \in Nat /\ Q!Ids = 1..Len(made) /\ Len(made) \in 0..Len(made)
  BY ParentsAreOlder
<1>2. \E f : f = [x \in Q!Ids |-> IF made[x].parent = 0 THEN <<x>> ELSE Append(f[made[x].parent], x)]
  BY <1>1, PathsExist DEF Traced
<1> DEFINE path == CHOOSE f : f = [x \in Q!Ids |-> IF made[x].parent = 0 THEN <<x>> ELSE Append(f[made[x].parent], x)]
<1>3. Q!Path = path
  BY DEF Q!Path
<1>4. path = [x \in Q!Ids |-> IF made[x].parent = 0 THEN <<x>> ELSE Append(path[made[x].parent], x)]
  BY <1>2
<1> HIDE DEF path
<1>5. path[r] = IF made[r].parent = 0 THEN <<r>> ELSE Append(path[made[r].parent], r)
  BY <1>4
<1>6. QED
  BY <1>3, <1>5

\* A path is a sequence of requests and ends with its own.
LEMMA PathTyped ==
  ASSUME Q!ChainInvariant
  PROVE  \A r \in Q!Ids : /\ Q!Path[r] \in Seq(Q!Ids) /\ Len(Q!Path[r]) \in Nat /\ Len(Q!Path[r]) > 0
                          /\ Q!Path[r][Len(Q!Path[r])] = r
<1> DEFINE Good(r) == /\ Q!Path[r] \in Seq(Q!Ids) /\ Len(Q!Path[r]) \in Nat /\ Len(Q!Path[r]) > 0
                      /\ Q!Path[r][Len(Q!Path[r])] = r
           Bad == {r \in Q!Ids : ~Good(r)}
<1>0. /\ Len(made) \in Nat /\ Q!Ids = 1..Len(made)
      /\ \A r \in Q!Ids : made[r].parent \in Nat /\ made[r].parent < r
      /\ \A r \in Q!Ids : made[r].parent # 0 => made[r].parent \in Q!Ids
  BY ParentsAreOlder
<1>1. SUFFICES ASSUME Bad # {} PROVE FALSE
  OBVIOUS
<1>2. PICK r \in Bad : \A m \in Bad : r <= m
  <2>1. Bad \in SUBSET Nat
    BY <1>0
  <2> HIDE DEF Bad
  <2>2. QED
    BY <1>1, <2>1, SmallestNumber
<1>3. r \in Q!Ids /\ r \in Nat
  BY <1>0
<1>4. ~Good(r)
  OBVIOUS
<1> DEFINE p == made[r].parent
<1>5. CASE p = 0
  <2>1. Q!Path[r] = <<r>>
    BY <1>3, <1>5, PathOf
  <2>2. QED
    BY <1>3, <1>4, <2>1
<1>6. CASE p # 0
  <2>1. p \in Q!Ids /\ p < r /\ p \in Nat
    BY <1>0, <1>3, <1>6
  <2>2. p \notin Bad
    <3>1. ~ (r <= p)
      BY <1>3, <2>1
    <3> HIDE DEF Bad, p
    <3>2. QED
      BY <1>2, <3>1
  <2>3. Good(p)
    BY <2>1, <2>2
  <2>4. Q!Path[r] = Append(Q!Path[p], r)
    BY <1>3, <1>6, PathOf
  <2> HIDE DEF p
  <2>5. /\ Append(Q!Path[p], r) \in Seq(Q!Ids) /\ Len(Append(Q!Path[p], r)) = Len(Q!Path[p]) + 1
        /\ Append(Q!Path[p], r)[Len(Q!Path[p]) + 1] = r
    BY <1>3, <2>3, AppendProperties
  <2>6. Good(r)
    BY <2>3, <2>4, <2>5
  <2>7. QED
    BY <1>4, <2>6
<1>7. QED
  BY <1>5, <1>6

\* A child has its parent's path and root.
LEMMA ChildOf ==
  ASSUME Q!ChainInvariant, NEW r \in Q!Ids, NEW p \in Q!Ids, made[r].parent = p
  PROVE  Len(Q!Path[r]) = Len(Q!Path[p]) + 1 /\ Q!Root(r) = Q!Root(p)
<1>1. p # 0
  BY ParentsAreOlder
<1>2. Q!Path[r] = Append(Q!Path[p], r)
  BY <1>1, PathOf
<1>3. Q!Path[p] \in Seq(Q!Ids) /\ Len(Q!Path[p]) \in Nat /\ Len(Q!Path[p]) > 0
  BY PathTyped
<1>4. /\ Len(Append(Q!Path[p], r)) = Len(Q!Path[p]) + 1
      /\ Append(Q!Path[p], r)[1] = Q!Path[p][1]
      /\ Append(Q!Path[p], r) \in Seq(Q!Ids)
  BY <1>3, AppendProperties
<1>5. QED
  BY <1>2, <1>3, <1>4 DEF Q!Root

\* Sequences by their length, then by their first difference.
Shorter(p, q) ==
  \/ Len(p) < Len(q)
  \/ Len(p) = Len(q) /\ \E i \in DOMAIN p : p[i] < q[i] /\ \A j \in 1 .. i - 1 : p[j] = q[j]

LEMMA ShorterOrders ==
  ASSUME NEW p \in Seq(Nat), NEW q \in Seq(Nat), NEW s \in Seq(Nat)
  PROVE  /\ ~Shorter(p, p)
         /\ p = q \/ Shorter(p, q) \/ Shorter(q, p)
         /\ Shorter(p, q) /\ Shorter(q, s) => Shorter(p, s)
<1>0. /\ Len(p) \in Nat /\ Len(q) \in Nat /\ Len(s) \in Nat
      /\ DOMAIN p = 1..Len(p) /\ DOMAIN q = 1..Len(q) /\ DOMAIN s = 1..Len(s)
      /\ \A i \in 1..Len(p) : p[i] \in Nat
      /\ \A i \in 1..Len(q) : q[i] \in Nat
      /\ \A i \in 1..Len(s) : s[i] \in Nat
  OBVIOUS
<1>1. ~Shorter(p, p)
  BY <1>0 DEF Shorter
<1>2. ASSUME p # q PROVE Shorter(p, q) \/ Shorter(q, p)
  <2>1. CASE Len(p) # Len(q)
    <3>1. Len(p) < Len(q) \/ Len(q) < Len(p)
      <4>1. Len(p) \in Nat /\ Len(q) \in Nat
        BY <1>0
      <4>2. QED
        BY <2>1, <4>1
    <3>2. QED
      BY <3>1, Zenon DEF Shorter
  <2>2. CASE Len(p) = Len(q)
    <3> DEFINE Differ == {i \in 1..Len(p) : p[i] # q[i]}
    <3>1. Differ # {}
      <4>1. SUFFICES ASSUME \A i \in 1..Len(p) : p[i] = q[i] PROVE FALSE
        OBVIOUS
      <4>2. p = q
        BY <1>0, <2>2, <4>1, SeqEqual
      <4>3. QED
        BY <1>2, <4>2
    <3>2. PICK i \in Differ : \A m \in Differ : i <= m
      <4>1. Differ \in SUBSET Nat
        OBVIOUS
      <4> HIDE DEF Differ
      <4>2. QED
        BY <3>1, <4>1, SmallestNumber
    <3>3. i \in 1..Len(p) /\ p[i] # q[i]
      OBVIOUS
    <3>4. ASSUME NEW j \in 1 .. i - 1 PROVE p[j] = q[j]
      <4>1. j \in 1..Len(p) /\ ~ (i <= j)
        BY <1>0, <3>3
      <4>2. j \notin Differ
        BY <3>2, <4>1
      <4>3. QED
        BY <4>1, <4>2
    <3>5. p[i] < q[i] \/ q[i] < p[i]
      BY <1>0, <2>2, <3>3
    <3> HIDE DEF Differ
    <3>6. QED
      BY <1>0, <2>2, <3>3, <3>4, <3>5 DEF Shorter
  <2>3. QED
    BY <2>1, <2>2
<1>3. ASSUME Shorter(p, q), Shorter(q, s) PROVE Shorter(p, s)
  <2>1. CASE Len(p) < Len(q) \/ Len(q) < Len(s)
    <3>1. /\ Len(p) < Len(q) \/ Len(p) = Len(q)
          /\ Len(q) < Len(s) \/ Len(q) = Len(s)
      BY <1>3, Zenon DEF Shorter
    <3>2. Len(p) < Len(s)
      <4>1. Len(p) \in Nat /\ Len(q) \in Nat /\ Len(s) \in Nat
        BY <1>0
      <4>2. QED
        BY <2>1, <3>1, <4>1
    <3>3. QED
      BY <3>2, Zenon DEF Shorter
  <2>2. CASE ~ (Len(p) < Len(q) \/ Len(q) < Len(s))
    <3>1. Len(p) = Len(q) /\ Len(q) = Len(s)
      BY <1>3, <2>2 DEF Shorter
    <3>2. PICK i \in DOMAIN p : p[i] < q[i] /\ \A j \in 1 .. i - 1 : p[j] = q[j]
      BY <1>3, <2>2 DEF Shorter
    <3>3. PICK k \in DOMAIN q : q[k] < s[k] /\ \A j \in 1 .. k - 1 : q[j] = s[j]
      BY <1>3, <2>2 DEF Shorter
    <3>4. i \in 1..Len(p) /\ k \in 1..Len(p) /\ i \in Nat /\ k \in Nat
      BY <1>0, <3>1
    <3>5. CASE i < k
      <4>1. i \in 1 .. k - 1 /\ q[i] = s[i]
        <5>1. i \in 1 .. k - 1
          BY <3>4, <3>5
        <5>2. QED
          BY <3>3, <5>1, Zenon
      <4>2. p[i] < s[i]
        BY <3>2, <4>1
      <4>3. \A j \in 1 .. i - 1 : j \in 1 .. k - 1
        BY <3>4, <3>5
      <4>4. \A j \in 1 .. i - 1 : p[j] = s[j]
        BY <3>2, <3>3, <4>3
      <4>5. QED
        BY <3>1, <4>2, <4>4 DEF Shorter
    <3>6. CASE k < i
      <4>1. k \in 1 .. i - 1 /\ p[k] = q[k]
        BY <3>2, <3>4, <3>6
      <4>2. p[k] < s[k] /\ k \in DOMAIN p
        BY <1>0, <3>3, <3>4, <4>1
      <4>3. \A j \in 1 .. k - 1 : j \in 1 .. i - 1
        BY <3>4, <3>6
      <4>4. \A j \in 1 .. k - 1 : p[j] = s[j]
        BY <3>2, <3>3, <4>3
      <4>5. QED
        BY <3>1, <4>2, <4>4 DEF Shorter
    <3>7. CASE i = k
      <4>1. p[i] \in Nat /\ q[i] \in Nat /\ s[i] \in Nat
        BY <1>0, <3>1, <3>4
      <4>2. p[i] < s[i]
        BY <3>2, <3>3, <3>7, <4>1
      <4>3. \A j \in 1 .. i - 1 : p[j] = s[j]
        BY <3>2, <3>3, <3>7
      <4>4. QED
        BY <3>1, <4>2, <4>3 DEF Shorter
    <3>8. QED
      BY <3>4, <3>5, <3>6, <3>7
  <2>3. QED
    BY <2>1, <2>2
<1>4. QED
  BY <1>1, <1>2, <1>3

\* Requests by the time they were made at, then by their paths.
Earlier == {x \in Q!Ids \X Q!Ids : Q!Before(x[1], x[2])}

LEMMA EarlierMeans ==
  ASSUME NEW a \in Q!Ids, NEW b \in Q!Ids
  PROVE  <<a, b>> \in Earlier <=>
           made[a].at < made[b].at \/ (made[a].at = made[b].at /\ Shorter(Q!Path[a], Q!Path[b]))
BY DEF Earlier, Q!Before, Q!Queued, Shorter

LEMMA RequestsOrdered ==
  ASSUME Q!ChainInvariant
  PROVE  Ordered(Q!Ids, Earlier)
<1>0. ASSUME NEW a \in Q!Ids
      PROVE  made[a].at \in Int /\ Q!Path[a] \in Seq(Nat)
             /\ Len(Q!Path[a]) \in Nat /\ Q!Path[a][Len(Q!Path[a])] = a
  <2>1. Q!Path[a] \in Seq(Q!Ids) /\ Q!Ids \subseteq Nat
    BY ParentsAreOlder, PathTyped
  <2>2. Q!Path[a] \in Seq(Nat)
    <3>1. ASSUME NEW i \in 1..Len(Q!Path[a]) PROVE Q!Path[a][i] \in Nat
      <4>1. Q!Path[a][i] \in Q!Ids
        <5> HIDE DEF Q!Ids
        <5>1. QED
          BY <2>1
      <4>2. QED
        BY <2>1, <4>1, Zenon
    <3>2. QED
      BY <2>1, <3>1
  <2>3. QED
    BY <2>2, ParentsAreOlder, PathTyped
<1>1. ASSUME NEW a \in Q!Ids PROVE <<a, a>> \notin Earlier
  <2>1. ~Shorter(Q!Path[a], Q!Path[a]) /\ made[a].at \in Int
    BY <1>0, ShorterOrders
  <2>2. QED
    BY <2>1, EarlierMeans
<1>2. ASSUME NEW a \in Q!Ids, NEW b \in Q!Ids, a # b PROVE <<a, b>> \in Earlier \/ <<b, a>> \in Earlier
  <2>1. Q!Path[a] # Q!Path[b]
    BY <1>0, <1>2
  <2>2. Shorter(Q!Path[a], Q!Path[b]) \/ Shorter(Q!Path[b], Q!Path[a])
    BY <1>0, <2>1, ShorterOrders
  <2>3. made[a].at \in Int /\ made[b].at \in Int
    BY <1>0
  <2>4. QED
    BY <2>2, <2>3, EarlierMeans
<1>3. ASSUME NEW a \in Q!Ids, NEW b \in Q!Ids, NEW c \in Q!Ids, <<a, b>> \in Earlier, <<b, c>> \in Earlier
      PROVE  <<a, c>> \in Earlier
  <2>1. made[a].at \in Int /\ made[b].at \in Int /\ made[c].at \in Int
    BY <1>0
  <2>2. Shorter(Q!Path[a], Q!Path[b]) /\ Shorter(Q!Path[b], Q!Path[c]) => Shorter(Q!Path[a], Q!Path[c])
    BY <1>0, ShorterOrders
  <2>3. /\ made[a].at < made[b].at \/ (made[a].at = made[b].at /\ Shorter(Q!Path[a], Q!Path[b]))
        /\ made[b].at < made[c].at \/ (made[b].at = made[c].at /\ Shorter(Q!Path[b], Q!Path[c]))
    BY <1>3, EarlierMeans
  <2>4. made[a].at < made[c].at \/ (made[a].at = made[c].at /\ Shorter(Q!Path[a], Q!Path[c]))
    BY <2>1, <2>2, <2>3
  <2>5. QED
    BY <2>4, EarlierMeans
<1>4. QED
  BY <1>1, <1>2, <1>3 DEF Ordered

\* The chain has every member once, in this order.
LEMMA ChainListed ==
  ASSUME Q!ChainInvariant, NEW r \in Q!Ids
  PROVE  /\ DOMAIN Q!Chain(r) = 1..Cardinality(Q!Members(r)) /\ Cardinality(Q!Members(r)) \in Nat
         /\ \A k \in DOMAIN Q!Chain(r) : Q!Chain(r)[k] \in Q!Members(r)
         /\ \A m \in Q!Members(r) : \E k \in DOMAIN Q!Chain(r) : Q!Chain(r)[k] = m
         /\ \A i, j \in DOMAIN Q!Chain(r) : <<Q!Chain(r)[i], Q!Chain(r)[j]>> \in Earlier => i < j
<1> DEFINE S == Q!Members(r)
           place == [m \in S |-> 1 + Cardinality({b \in S : <<b, m>> \in Earlier})]
           n == Cardinality(S)
<1>1. S \in SUBSET Q!Ids
  BY DEF Q!Members
<1>2. Ordered(S, Earlier)
  <2>1. Ordered(Q!Ids, Earlier)
    BY RequestsOrdered
  <2> HIDE DEF S
  <2>2. QED
    BY <1>1, <2>1 DEF Ordered
<1>3. IsFiniteSet(S)
  <2>1. Q!Ids = 1..Len(made) /\ Len(made) \in Int /\ 1 \in Int
    BY ParentsAreOlder
  <2>2. IsFiniteSet(Q!Ids)
    BY <2>1, FS_Interval
  <2>3. QED
    BY <1>1, <2>2, FS_Subset
<1>4. /\ n \in Nat /\ place \in [S -> 1..n]
      /\ \A a, b \in S : <<a, b>> \in Earlier => place[a] < place[b]
      /\ \A k \in 1..n : \E m \in S : place[m] = k
      /\ \A a, b \in S : place[a] = place[b] => a = b
  <2>1. place = [m \in S |-> 1 + Cardinality({b \in S : <<b, m>> \in Earlier})]
    OBVIOUS
  <2> HIDE DEF S, place
  <2>2. Placed(place, S, Earlier)
    BY <1>2, <1>3, <2>1, PlacesInOrder
  <2>3. QED
    BY <2>2 DEF Placed
<1>5. ASSUME NEW m \in S PROVE Q!Place(r, m) = place[m]
  <2>1. {b \in S : Q!Before(b, m)} = {b \in S : <<b, m>> \in Earlier}
    BY <1>1, <1>5 DEF Earlier
  <2>2. Q!Place(r, m) = 1 + Cardinality({b \in S : Q!Before(b, m)})
    BY ChainCounts DEF Q!Place
  <2>3. QED
    BY <2>1, <2>2
<1>6. Q!Chain(r) = [k \in 1..n |-> CHOOSE m \in S : place[m] = k]
  <2>1. Q!Chain(r) = [k \in 1..n |-> CHOOSE m \in S : Q!Place(r, m) = k]
    BY ChainCounts DEF Q!Chain
  <2>2. \A k \in 1..n : (CHOOSE m \in S : Q!Place(r, m) = k) = (CHOOSE m \in S : place[m] = k)
    BY <1>5
  <2>3. QED
    BY <2>1, <2>2
<1> HIDE DEF S, place, n
<1>7. /\ DOMAIN Q!Chain(r) = 1..n
      /\ \A k \in 1..n : Q!Chain(r)[k] \in S /\ place[Q!Chain(r)[k]] = k
  BY <1>4, <1>6
<1>8. \A m \in S : \E k \in 1..n : Q!Chain(r)[k] = m
  <2> TAKE m \in S
  <2>1. place[m] \in 1..n
    BY <1>4
  <2>2. Q!Chain(r)[place[m]] = m
    BY <1>4, <1>7, <2>1
  <2>3. QED
    BY <2>1, <2>2
<1>9. \A i, j \in 1..n : <<Q!Chain(r)[i], Q!Chain(r)[j]>> \in Earlier => i < j
  BY <1>4, <1>7
<1>10. QED
  BY <1>4, <1>7, <1>8, <1>9 DEF S, n

LEMMA ChainBegins ==
  ASSUME Q!Init PROVE Q!ChainInvariant
<1>1. made = <<>> /\ clock = 0 /\ MaxClock \in Nat /\ MaxMade \in Nat
  BY ChainBounds DEF Q!Init
<1> DEFINE Made == [parent : Nat, at : 0 .. MaxClock]
<1>2. made \in Seq(Made) /\ Len(made) = 0
  <2> HIDE DEF Made
  <2>1. QED
    BY <1>1
<1>3. clock \in 0 .. MaxClock /\ Len(made) <= MaxMade /\ Q!Ids = {}
  BY <1>1, <1>2 DEF Q!Ids
<1>4. QED
  BY <1>2, <1>3 DEF Q!ChainInvariant, Q!TypeOK

LEMMA ChainStays ==
  ASSUME Q!ChainInvariant, [Q!Next]_qVars
  PROVE  Q!ChainInvariant'
<1> DEFINE Made == [parent : Nat, at : 0 .. MaxClock]
<1>0. /\ made \in Seq(Made) /\ clock \in 0 .. MaxClock /\ Len(made) <= MaxMade /\ Len(made) \in Nat
      /\ MaxClock \in Nat /\ MaxMade \in Nat
  BY ChainBounds DEF Q!ChainInvariant, Q!TypeOK
<1>1. CASE Q!Create
  <2>1. PICK parent \in Q!Ids \cup {0} : made' = Append(made, [parent |-> parent, at |-> clock])
    BY <1>1 DEF Q!Create
  <2> DEFINE new == [parent |-> parent, at |-> clock]
  <2>2. Len(made) < MaxMade /\ clock' = clock
    BY <1>1 DEF Q!Create
  <2>3. Q!Ids = 1..Len(made) /\ parent \in 0..Len(made) /\ parent \in Nat
    BY <1>0, <2>1 DEF Q!Ids
  <2>4. new \in Made /\ new.parent = parent /\ new.at = clock
    BY <1>0, <2>3
  <2> HIDE DEF new, Made
  <2>5. /\ made' \in Seq(Made) /\ Len(made') = Len(made) + 1
        /\ made'[Len(made) + 1] = new
        /\ \A r \in 1..Len(made) : made'[r] = made[r]
    BY <1>0, <2>1, <2>4, AppendProperties DEF new
  <2>6. Q!Ids' = 1..(Len(made) + 1)
    BY <2>5 DEF Q!Ids
  <2>7. ASSUME NEW r \in Q!Ids'
        PROVE  made'[r].parent \in 0 .. r - 1 /\ made'[r].at \in 0 .. MaxClock
    <3>1. CASE r = Len(made) + 1
      BY <1>0, <2>3, <2>4, <2>5, <3>1
    <3>2. CASE r # Len(made) + 1
      <4>1. r \in 1..Len(made)
        BY <1>0, <2>6, <2>7, <3>2
      <4>2. made[r].parent \in 0 .. r - 1 /\ made[r].at \in 0 .. MaxClock
        BY <2>3, <4>1 DEF Q!ChainInvariant, Q!TypeOK
      <4>3. QED
        BY <2>5, <4>1, <4>2
    <3>3. QED
      BY <3>1, <3>2
  <2>8. clock' \in 0 .. MaxClock /\ Len(made') <= MaxMade
    BY <1>0, <2>2, <2>5
  <2>9. QED
    BY <2>5, <2>7, <2>8 DEF Q!ChainInvariant, Q!TypeOK, Made
<1>2. CASE Q!Clock
  <2>1. made' = made /\ clock' \in 0 .. MaxClock
    BY <1>2 DEF Q!Clock
  <2>2. QED
    BY <2>1 DEF Q!ChainInvariant, Q!TypeOK, Q!Ids
<1>3. CASE UNCHANGED qVars
  BY <1>3 DEF qVars, Q!ChainInvariant, Q!TypeOK, Q!Ids
<1>4. QED
  BY <1>1, <1>2, <1>3 DEF Q!Next

\* The members of a chain share their root, and with it their chain.
LEMMA MembersShare ==
  ASSUME NEW r \in Q!Ids, NEW m \in Q!Members(r)
  PROVE  m \in Q!Ids /\ Q!Members(m) = Q!Members(r) /\ Q!Chain(m) = Q!Chain(r)
<1>1. m \in Q!Ids /\ Q!Root(m) = Q!Root(r)
  BY DEF Q!Members
<1>2. Q!Members(m) = Q!Members(r)
  BY <1>1 DEF Q!Members
<1>3. \A x : Q!Place(m, x) = Q!Place(r, x)
  BY <1>2 DEF Q!Place
<1>4. Q!Chain(m) = Q!Chain(r)
  BY <1>2, <1>3 DEF Q!Chain
<1>5. QED
  BY <1>1, <1>2, <1>4

LEMMA ChainSuffices ==
  ASSUME Q!ChainInvariant PROVE Q!ChainIsShared
<1>1. SUFFICES ASSUME NEW r \in Q!Ids
               PROVE  /\ r \in Q!Range(Q!Chain(r))
                      /\ \A m \in Q!Range(Q!Chain(r)) : Q!Chain(m) = Q!Chain(r)
                      /\ \A i, j \in DOMAIN Q!Chain(r) :
                           made[Q!Chain(r)[j]].parent = Q!Chain(r)[i]
                             /\ made[Q!Chain(r)[i]].at <= made[Q!Chain(r)[j]].at => i < j
                      /\ \A m \in Q!Ids : made[m].parent = r => m \in Q!Range(Q!Chain(r))
  BY DEF Q!ChainIsShared
<1> DEFINE c == Q!Chain(r)
<1>2. /\ \A k \in DOMAIN c : c[k] \in Q!Members(r)
      /\ \A m \in Q!Members(r) : \E k \in DOMAIN c : c[k] = m
      /\ \A i, j \in DOMAIN c : <<c[i], c[j]>> \in Earlier => i < j
  BY ChainListed
<1> HIDE DEF c
<1>3. Q!Range(c) = Q!Members(r)
  BY <1>2 DEF Q!Range
<1>4. r \in Q!Members(r)
  BY DEF Q!Members
<1>5. \A m \in Q!Members(r) : Q!Chain(m) = c
  BY MembersShare DEF c
<1>6. ASSUME NEW i \in DOMAIN c, NEW j \in DOMAIN c,
             made[c[j]].parent = c[i], made[c[i]].at <= made[c[j]].at
      PROVE  i < j
  <2>1. c[i] \in Q!Ids /\ c[j] \in Q!Ids
    BY <1>2 DEF Q!Members
  <2>2. Len(Q!Path[c[j]]) = Len(Q!Path[c[i]]) + 1
    BY <1>6, <2>1, ChildOf
  <2>3. made[c[i]].at \in Int /\ made[c[j]].at \in Int
    BY <2>1, ParentsAreOlder
  <2>4. Len(Q!Path[c[i]]) \in Nat
    BY <2>1, PathTyped
  <2>5. Len(Q!Path[c[i]]) < Len(Q!Path[c[j]])
    BY <2>2, <2>4
  <2>6. made[c[i]].at < made[c[j]].at \/ made[c[i]].at = made[c[j]].at
    BY <1>6, <2>3
  <2>7. Shorter(Q!Path[c[i]], Q!Path[c[j]])
    BY <2>5 DEF Shorter
  <2>8. <<c[i], c[j]>> \in Earlier
    BY <2>1, <2>6, <2>7, EarlierMeans
  <2>9. QED
    BY <1>2, <2>8
<1>7. ASSUME NEW m \in Q!Ids, made[m].parent = r PROVE m \in Q!Members(r)
  <2>1. Q!Root(m) = Q!Root(r)
    BY <1>7, ChildOf
  <2>2. QED
    BY <2>1 DEF Q!Members
<1>8. QED
  BY <1>3, <1>4, <1>5, <1>6, <1>7 DEF c
=============================================================================
