---------------------------- MODULE Parts_proofs ----------------------------
(***************************************************************************)
(* Proofs about the parts that MCParts instantiates. A behaviour is one of *)
(* one part, so that a part's inductive invariant, under the condition     *)
(* that the behaviour is that part's, is one of MCParts: Init and each     *)
(* step are the part's, as far as the part's variables go.                 *)
(***************************************************************************)
EXTENDS MCParts, ClientParts_proofs, PlayerParts_proofs

LEMMA PartStays == [Next]_allVars => UNCHANGED part
BY DEF Next, allVars

LEMMA TokensMove ==
  [Next]_allVars /\ part' = "tokens" => [T!Next]_tVars
BY DEF Next, allVars, tVars

LEMMA TokensBegin == Init => T!Init
BY DEF Init

-----------------------------------------------------------------------------
(* Agents and their tokens (maestro-server.js). *)

LEMMA TokensTyped == part = "tokens" /\ Init => T!TypeOK
<1> SUFFICES ASSUME T!Init PROVE T!TypeOK
  BY TokensBegin
<1>1. mem \in T!Store /\ file = mem
  BY NoneIsNothing DEF T!Init, T!Store, T!Names
<1>2. issued \in Seq(Agents)
  BY DEF T!Init
<1>3. tFailures \in 0..MaxFailures /\ tCrashes \in 0..MaxCrashes
  BY PartBounds, ClientBounds DEF T!Init
<1>4. QED
  BY <1>1, <1>2, <1>3 DEF T!Init, T!TypeOK

(* What each action does to the stores. *)

LEMMA StoreOf ==
  ASSUME NEW m \in T!Store
  PROVE  /\ m.token \in [Agents -> (0..MaxTokens) \cup {None}]
         /\ m.agent \in [Requests -> T!Names \cup {None}]
         /\ m.by \in [Requests -> T!Who \cup {None}]
         /\ m.decided \in SUBSET Requests /\ m.acked \in SUBSET Requests
BY DEF T!Store

LEMMA TokenStored ==
  ASSUME NEW m \in T!Store, NEW a \in Agents, NEW t \in 0..MaxTokens
  PROVE  /\ [m EXCEPT !.token[a] = t] \in T!Store
         /\ [m EXCEPT !.token[a] = t].token = [m.token EXCEPT ![a] = t]
         /\ [m EXCEPT !.token[a] = t].agent = m.agent
         /\ [m EXCEPT !.token[a] = t].by = m.by
BY StoreOf DEF T!Store

LEMMA Persisted ==
  ASSUME T!TypeOK, NEW m \in T!Store, T!Persist(m)
  PROVE  /\ mem' = m /\ file' \in {file, m} /\ (~behind' => file' = m)
         /\ mem' \in T!Store /\ file' \in T!Store
         /\ behind' \in BOOLEAN /\ tFailures' \in 0..MaxFailures
<1>1. file \in T!Store /\ tFailures \in 0..MaxFailures /\ MaxFailures \in Nat
  BY PartBounds, ClientBounds DEF T!TypeOK
<1>2. mem' = m /\ file' \in {file, m} /\ tFailures' \in 0..MaxFailures
  BY <1>1 DEF T!Persist
<1>3. behind' \in BOOLEAN /\ (~behind' => file' = m)
  BY Zenon DEF T!Persist
<1>4. QED
  BY <1>1, <1>2, <1>3

\* The store after each action that saves one.
LEMMA RegisterStores ==
  ASSUME T!TypeOK, NEW a \in Agents, T!Register(a)
  PROVE  /\ mem' \in T!Store /\ file' \in T!Store
         /\ behind' \in BOOLEAN /\ tFailures' \in 0..MaxFailures
         /\ mem'.token = [mem.token EXCEPT ![a] = Len(issued) + 1]
         /\ mem'.agent = mem.agent /\ mem'.by = mem.by
         /\ file' \in {file, mem'} /\ (~behind' => file' = mem')
<1> DEFINE m == [mem EXCEPT !.token[a] = Len(issued) + 1]
<1>1. Len(issued) + 1 \in 0..MaxTokens /\ mem \in T!Store
  <2>1. mem \in T!Store
    BY DEF T!TypeOK
  <2>2. Len(issued) \in Nat /\ Len(issued) < MaxTokens
    BY LenProperties DEF T!TypeOK, T!Register
  <2>3. MaxTokens \in Nat
    BY PartBounds
  <2>4. QED
    BY <2>1, <2>2, <2>3
<1>2. m \in T!Store /\ m.token = [mem.token EXCEPT ![a] = Len(issued) + 1]
      /\ m.agent = mem.agent /\ m.by = mem.by
  BY <1>1, TokenStored
<1>3. T!Persist(m)
  BY DEF T!Register
<1> HIDE DEF m
<1>4. QED
  BY <1>2, <1>3, Persisted

LEMMA RevokeStores ==
  ASSUME T!TypeOK, NEW a \in Agents, T!Revoke(a)
  PROVE  /\ mem' \in T!Store /\ file' \in T!Store
         /\ behind' \in BOOLEAN /\ tFailures' \in 0..MaxFailures
         /\ mem'.token = [mem.token EXCEPT ![a] = 0]
         /\ mem'.agent = mem.agent /\ mem'.by = mem.by
         /\ file' \in {file, mem'} /\ (~behind' => file' = mem')
<1> DEFINE m == [mem EXCEPT !.token[a] = 0]
<1>1. 0 \in 0..MaxTokens /\ mem \in T!Store
  BY PartBounds, ClientBounds DEF T!TypeOK
<1>2. m \in T!Store /\ m.token = [mem.token EXCEPT ![a] = 0]
      /\ m.agent = mem.agent /\ m.by = mem.by
  BY <1>1, TokenStored
<1>3. T!Persist(m)
  BY DEF T!Revoke, T!Unissued
<1> HIDE DEF m
<1>4. QED
  BY <1>2, <1>3, Persisted

LEMMA SubmissionStores ==
  ASSUME T!TypeOK, NEW call \in tCalls, T!SubmitActs(call)
  PROVE  /\ mem' \in T!Store /\ file' \in T!Store
         /\ behind' \in BOOLEAN /\ tFailures' \in 0..MaxFailures
         /\ mem'.token = mem.token
         /\ mem'.agent = [mem.agent EXCEPT ![call.req] = T!AgentOf(call)]
         /\ mem'.by = [mem.by EXCEPT ![call.req] = call.who]
         /\ file' \in {file, mem'} /\ (~behind' => file' = mem')
<1> DEFINE m == [mem EXCEPT !.agent[call.req] = T!AgentOf(call), !.by[call.req] = call.who]
<1>1. /\ call.req \in Requests /\ call.who \in T!Who /\ mem \in T!Store
      /\ call.claims \in Agents \cup {None}
  BY DEF T!TypeOK, T!Call
<1>2. T!AgentOf(call) \in T!Names
  <2> DEFINE a == IF call.who \in Agents THEN call.who ELSE call.claims
  <2>1. a \in Agents \cup {None}
    BY <1>1
  <2>2. T!Stored(a) \in T!Names
    BY <2>1 DEF T!Stored, T!Names
  <2>3. QED
    BY <2>2 DEF T!AgentOf
<1>3. m \in T!Store /\ m.token = mem.token
      /\ m.agent = [mem.agent EXCEPT ![call.req] = T!AgentOf(call)]
      /\ m.by = [mem.by EXCEPT ![call.req] = call.who]
  <2> DEFINE r == call.req
             n == T!AgentOf(call)
             w == call.who
  <2>1. r \in Requests /\ n \in T!Names /\ w \in T!Who /\ mem \in T!Store
    BY <1>1, <1>2
  <2> HIDE DEF r, n, w
  <2>2. /\ [mem EXCEPT !.agent[r] = n, !.by[r] = w] \in T!Store
        /\ [mem EXCEPT !.agent[r] = n, !.by[r] = w].token = mem.token
        /\ [mem EXCEPT !.agent[r] = n, !.by[r] = w].agent = [mem.agent EXCEPT ![r] = n]
        /\ [mem EXCEPT !.agent[r] = n, !.by[r] = w].by = [mem.by EXCEPT ![r] = w]
    BY <2>1, StoreOf DEF T!Store
  <2>3. QED
    BY <2>2 DEF r, n, w
<1>4. T!Persist(m)
  BY DEF T!SubmitActs
<1> HIDE DEF m
<1>5. QED
  BY <1>3, <1>4, Persisted

LEMMA DecisionStores ==
  ASSUME T!TypeOK, NEW r \in Requests, T!Decide(r)
  PROVE  /\ mem' \in T!Store /\ file' \in T!Store
         /\ behind' \in BOOLEAN /\ tFailures' \in 0..MaxFailures
         /\ mem'.token = mem.token /\ mem'.agent = mem.agent /\ mem'.by = mem.by
         /\ file' \in {file, mem'} /\ (~behind' => file' = mem')
<1> DEFINE m == [mem EXCEPT !.decided = @ \cup {r}]
<1>1. mem \in T!Store
  BY DEF T!TypeOK
<1>2. m \in T!Store /\ m.token = mem.token /\ m.agent = mem.agent /\ m.by = mem.by
  BY <1>1 DEF T!Store
<1>3. T!Persist(m)
  BY DEF T!Decide
<1> HIDE DEF m
<1>4. QED
  BY <1>2, <1>3, Persisted

LEMMA TokensTypeStep ==
  ASSUME T!TypeOK, [T!Next]_tVars
  PROVE  T!TypeOK'
<1> USE DEF T!TypeOK
<1>1. ASSUME NEW a \in Agents, T!Register(a) \/ T!Revoke(a) PROVE T!TypeOK'
  <2>1. mem' \in T!Store /\ file' \in T!Store /\ behind' \in BOOLEAN /\ tFailures' \in 0..MaxFailures
    BY <1>1, RegisterStores, RevokeStores
  <2>2. UNCHANGED <<tUp, setup, tCalls, heard, mistaken, lost, tCrashes>>
    BY <1>1 DEF T!Register, T!Revoke
  <2>3. issued' \in Seq(Agents)
    <3>1. issued' = Append(issued, a) \/ issued' = issued
      BY <1>1 DEF T!Register, T!Revoke
    <3>2. QED
      BY <3>1
  <2>4. dead' \subseteq 1..MaxTokens
    BY <1>1 DEF T!Register, T!Revoke
  <2>5. QED
    BY <2>1, <2>2, <2>3, <2>4
<1>2. ASSUME NEW a \in Agents, NEW c \in T!Credentials, T!Heartbeat(a, c) PROVE T!TypeOK'
  <2>1. mem' \in T!Store /\ file' \in T!Store /\ behind' \in BOOLEAN /\ tFailures' \in 0..MaxFailures
    BY <1>2, Persisted DEF T!Heartbeat
  <2>2. QED
    BY <1>2, <2>1 DEF T!Heartbeat
<1>3. ASSUME NEW c \in T!Credentials, NEW who \in T!Who, NEW r \in Requests,
             NEW a \in Agents \cup {None},
             T!SubmitArrives(c, who, r, a) \/ T!AckArrives(c, who, r)
      PROVE  T!TypeOK'
  <2>1. tCalls' \subseteq T!Call
    <3>1. /\ [do |-> "submit", who |-> who, req |-> r, claims |-> a] \in T!Call
          /\ [do |-> "ack", who |-> who, req |-> r, claims |-> None] \in T!Call
      BY DEF T!Call
    <3>2. QED
      BY <1>3, <3>1 DEF T!SubmitArrives, T!AckArrives, T!Awaits
  <2>2. UNCHANGED <<tUp, setup, mem, file, issued, dead, heard, mistaken, behind, lost, tFailures,
                    tCrashes>>
    BY <1>3 DEF T!SubmitArrives, T!AckArrives, T!Awaits
  <2>3. QED
    BY <2>1, <2>2
<1>4. ASSUME NEW c \in T!Credentials, NEW who \in T!Who, NEW r \in Requests, T!Poll(c, who, r)
      PROVE  T!TypeOK'
  <2>1. heard' \subseteq Agents \X Requests /\ mistaken' \subseteq T!Who
    BY <1>4 DEF T!Poll
  <2>2. QED
    BY <1>4, <2>1 DEF T!Poll
<1>5. ASSUME NEW call \in tCalls, T!SubmitActs(call) PROVE T!TypeOK'
  <2>1. mem' \in T!Store /\ file' \in T!Store /\ behind' \in BOOLEAN /\ tFailures' \in 0..MaxFailures
    BY <1>5, SubmissionStores
  <2>2. QED
    BY <1>5, <2>1 DEF T!SubmitActs, T!Returns
<1>6. ASSUME NEW call \in tCalls, T!SubmitRefused(call) PROVE T!TypeOK'
  BY <1>6 DEF T!SubmitRefused, T!Returns
<1>7. ASSUME NEW call \in tCalls, T!AckActs(call) PROVE T!TypeOK'
  <2>1. mem' \in T!Store
    BY <1>7 DEF T!AckActs, T!Store
  <2>2. QED
    BY <1>7, <2>1 DEF T!AckActs, T!Returns
<1>8. ASSUME NEW r \in Requests, T!Decide(r) PROVE T!TypeOK'
  <2>1. mem' \in T!Store /\ file' \in T!Store /\ behind' \in BOOLEAN /\ tFailures' \in 0..MaxFailures
    BY <1>8, DecisionStores
  <2>2. QED
    BY <1>8, <2>1 DEF T!Decide
<1>9. CASE T!Crash
  <2>1. lost' \in BOOLEAN
    <3>1. lost' = TRUE \/ lost' = FALSE
      BY <1>9 DEF T!Crash
    <3>2. QED
      BY <3>1
  <2>2. tCrashes' \in 0..MaxCrashes
    BY <1>9, PartBounds, ClientBounds DEF T!Crash
  <2>3. UNCHANGED <<setup, mem, file, issued, dead, heard, mistaken, behind, tFailures>>
        /\ tUp' = FALSE /\ tCalls' = {}
    BY <1>9 DEF T!Crash
  <2>4. QED
    BY <2>1, <2>2, <2>3
<1>10. CASE T!Start
  BY <1>10 DEF T!Start
<1>11. CASE UNCHANGED tVars
  BY <1>11 DEF tVars
<1>12. QED
  BY <1>1, <1>2, <1>3, <1>4, <1>5, <1>6, <1>7, <1>8, <1>9, <1>10, <1>11 DEF T!Next

\* A token that was issued before belongs to the same agent when another one is issued.
LEMMA IssuedStay ==
  ASSUME issued \in Seq(Agents), NEW a \in Agents, issued' = Append(issued, a)
  PROVE  /\ Len(issued') = Len(issued) + 1 /\ issued'[Len(issued) + 1] = a
         /\ \A i \in 1..Len(issued) : issued'[i] = issued[i]
OBVIOUS

\* Of two agents one at most has a token.
LEMMA TokensDiffer ==
  ASSUME T!TypeOK, T!TokensInv, NEW a \in Agents, NEW b \in Agents, mem.token[a] = mem.token[b],
         mem.token[a] \in 1..Len(issued)
  PROVE  a = b
BY DEF T!TokensInv, T!Owned

LEMMA RegisterKeepsTokens ==
  ASSUME T!TypeOK, T!TokensInv, NEW a \in Agents, T!Register(a)
  PROVE  T!TokensInv'
<1> DEFINE t == Len(issued) + 1
<1>1. /\ mem.token \in [Agents -> (0..MaxTokens) \cup {None}]
      /\ file.token \in [Agents -> (0..MaxTokens) \cup {None}]
      /\ MaxTokens \in Nat /\ Len(issued) \in Nat /\ issued \in Seq(Agents)
  BY StoreOf, PartBounds, ClientBounds DEF T!TypeOK
<1>2. /\ Len(issued') = t /\ issued'[t] = a /\ \A i \in 1..Len(issued) : issued'[i] = issued[i]
  <2>1. issued' = Append(issued, a)
    BY DEF T!Register
  <2>2. QED
    BY <1>1, <2>1, IssuedStay
<1>3. /\ mem'.token = [mem.token EXCEPT ![a] = t]
      /\ file' \in {file, mem'} /\ (~behind' => file' = mem')
  BY RegisterStores
<1>4. T!Owned(mem) /\ T!Owned(file) /\ dead \subseteq 1..Len(issued)
  BY DEF T!TokensInv
<1>5. T!Owned(mem)'
  <2>1. ASSUME NEW b \in Agents
        PROVE  /\ mem'.token[b] \in (0..Len(issued')) \cup {None}
               /\ mem'.token[b] \in 1..Len(issued') => issued'[mem'.token[b]] = b
    <3>1. CASE b = a
      BY <1>1, <1>2, <1>3, <3>1
    <3>2. CASE b # a
      <4>1. mem'.token[b] = mem.token[b]
        BY <1>1, <1>3, <3>2
      <4>2. mem.token[b] \in (0..Len(issued)) \cup {None}
        BY <1>4 DEF T!Owned
      <4>3. CASE mem.token[b] \in 1..Len(issued)
        BY <1>1, <1>2, <1>4, <4>1, <4>3 DEF T!Owned
      <4>4. CASE mem.token[b] \notin 1..Len(issued)
        BY <1>1, <1>2, <4>1, <4>2, <4>4, NoneIsNothing DEF T!Register
      <4>5. QED
        BY <4>3, <4>4
    <3>3. QED
      BY <3>1, <3>2
  <2>2. QED
    BY <2>1 DEF T!Owned
<1>6. T!Owned(file)'
  <2>1. CASE file' = mem'
    BY <1>5, <2>1 DEF T!Owned
  <2>2. CASE file' = file
    <3>1. ASSUME NEW b \in Agents
          PROVE  /\ file'.token[b] \in (0..Len(issued')) \cup {None}
                 /\ file'.token[b] \in 1..Len(issued') => issued'[file'.token[b]] = b
      <4>1. file.token[b] \in (0..Len(issued)) \cup {None}
        BY <1>4 DEF T!Owned
      <4>2. CASE file.token[b] \in 1..Len(issued)
        BY <1>1, <1>2, <1>4, <2>2, <4>2 DEF T!Owned
      <4>3. CASE file.token[b] \notin 1..Len(issued)
        BY <1>1, <1>2, <2>2, <4>1, <4>3, NoneIsNothing DEF T!Register
      <4>4. QED
        BY <4>2, <4>3
    <3>2. QED
      BY <3>1 DEF T!Owned
  <2>3. QED
    BY <1>3, <2>1, <2>2
<1>7. dead' = dead \cup ({mem.token[a]} \cap 1..MaxTokens) /\ lost' = lost /\ tUp' = tUp /\ tUp
  BY DEF T!Register
<1>8. dead' \subseteq 1..Len(issued') /\ Len(issued') <= MaxTokens
  <2>1. mem.token[a] \in (0..Len(issued)) \cup {None}
    BY <1>4 DEF T!Owned
  <2>2. QED
    BY <1>1, <1>2, <1>4, <1>7, <2>1, NoneIsNothing DEF T!Register
<1>9. ASSUME ~lost, NEW b \in Agents PROVE mem'.token[b] \notin dead'
  <2>1. CASE b = a
    <3>1. mem'.token[b] = t /\ t \notin dead /\ mem.token[a] # t
      <4>1. mem.token[a] \in (0..Len(issued)) \cup {None}
        BY <1>4 DEF T!Owned
      <4>2. QED
        BY <1>1, <1>3, <1>4, <2>1, <4>1, NoneIsNothing DEF T!Register
    <3>2. QED
      BY <1>7, <3>1
  <2>2. CASE b # a
    <3>1. mem'.token[b] = mem.token[b] /\ mem.token[b] \notin dead
      BY <1>1, <1>3, <1>9, <2>2 DEF T!TokensInv
    <3>2. mem.token[b] = mem.token[a] => mem.token[a] \notin 1..Len(issued)
      BY <2>2, TokensDiffer
    <3>3. mem.token[a] \in 1..MaxTokens => mem.token[a] \in 1..Len(issued)
      BY <1>1, <1>4, NoneIsNothing DEF T!Owned
    <3>4. QED
      BY <1>7, <3>1, <3>2, <3>3
  <2>3. QED
    BY <2>1, <2>2
<1>10. QED
  BY <1>3, <1>5, <1>6, <1>7, <1>8, <1>9 DEF T!TokensInv

LEMMA RevokeKeepsTokens ==
  ASSUME T!TypeOK, T!TokensInv, NEW a \in Agents, T!Revoke(a)
  PROVE  T!TokensInv'
<1>1. /\ mem.token \in [Agents -> (0..MaxTokens) \cup {None}]
      /\ MaxTokens \in Nat /\ Len(issued) \in Nat
  BY StoreOf, PartBounds, ClientBounds DEF T!TypeOK
<1>2. /\ mem'.token = [mem.token EXCEPT ![a] = 0]
      /\ file' \in {file, mem'} /\ (~behind' => file' = mem')
  BY RevokeStores
<1>3. /\ T!Owned(mem) /\ T!Owned(file) /\ dead \subseteq 1..Len(issued) /\ Len(issued) <= MaxTokens
  BY DEF T!TokensInv
<1>4. /\ dead' = dead \cup ({mem.token[a]} \cap 1..MaxTokens)
      /\ UNCHANGED <<issued, lost, tUp>> /\ tUp
  <2>1. tUp /\ dead' = dead \cup ({mem.token[a]} \cap 1..MaxTokens)
    BY DEF T!Revoke
  <2>2. issued' = issued /\ lost' = lost /\ tUp' = tUp
    BY DEF T!Revoke
  <2>3. QED
    BY <2>1, <2>2
<1>5. T!Owned(mem)'
  <2>1. ASSUME NEW b \in Agents
        PROVE  /\ mem'.token[b] \in (0..Len(issued)) \cup {None}
               /\ mem'.token[b] \in 1..Len(issued) => issued[mem'.token[b]] = b
    BY <1>1, <1>2, <1>3 DEF T!Owned
  <2>2. QED
    BY <1>4, <2>1 DEF T!Owned
<1>6. T!Owned(file)'
  BY <1>2, <1>3, <1>4, <1>5 DEF T!Owned
<1>7. dead' \subseteq 1..Len(issued')
  <2>1. mem.token[a] \in (0..Len(issued)) \cup {None}
    BY <1>3 DEF T!Owned
  <2>2. mem.token[a] \in 1..MaxTokens => mem.token[a] \in 1..Len(issued)
    BY <1>1, <2>1, NoneIsNothing
  <2>3. issued' = issued
    BY <1>4
  <2>4. QED
    BY <1>3, <1>4, <2>2, <2>3
<1>8. ASSUME ~lost, NEW b \in Agents PROVE mem'.token[b] \notin dead'
  <2>1. CASE b = a
    BY <1>1, <1>2, <1>3, <1>4, <2>1
  <2>2. CASE b # a
    <3>1. mem'.token[b] = mem.token[b] /\ mem.token[b] \notin dead
      BY <1>1, <1>2, <1>8, <2>2 DEF T!TokensInv
    <3>2. mem.token[b] = mem.token[a] => mem.token[a] \notin 1..Len(issued)
      BY <2>2, TokensDiffer
    <3>3. mem.token[a] \in 1..MaxTokens => mem.token[a] \in 1..Len(issued)
      BY <1>1, <1>3, NoneIsNothing DEF T!Owned
    <3>4. QED
      BY <1>4, <3>1, <3>2, <3>3
  <2>3. QED
    BY <2>1, <2>2
<1>9. QED
  BY <1>2, <1>3, <1>4, <1>5, <1>6, <1>7, <1>8 DEF T!TokensInv

\* A step that leaves the tokens in memory alone and saves memory or nothing.
LEMMA SavesKeepTokens ==
  ASSUME T!TokensInv, mem'.token = mem.token, UNCHANGED <<issued, dead, lost, tUp>>,
         \/ file' \in {file, mem'} /\ (~behind' => file' = mem') /\ tUp
         \/ UNCHANGED <<file, behind>>
  PROVE  T!TokensInv'
<1>1. T!Owned(mem)'
  BY DEF T!TokensInv, T!Owned
<1>2. T!Owned(file)'
  BY <1>1 DEF T!TokensInv, T!Owned
<1>3. ~behind' => file'.token = mem'.token
  BY DEF T!TokensInv
<1>4. ~lost' => (tUp' \/ ~behind') /\ \A a \in Agents : mem'.token[a] \notin dead'
  BY DEF T!TokensInv
<1>5. QED
  BY <1>1, <1>2, <1>3, <1>4 DEF T!TokensInv

LEMMA CrashKeepsTokens ==
  ASSUME T!TokensInv, T!Crash
  PROVE  T!TokensInv'
<1>1. UNCHANGED <<mem, file, issued, dead, behind>>
  BY DEF T!Crash
<1>2. T!Owned(mem)' /\ T!Owned(file)'
  BY <1>1 DEF T!TokensInv, T!Owned
<1>3. ~lost' => ~lost /\ ~behind
  BY DEF T!Crash
<1>4. QED
  BY <1>1, <1>2, <1>3 DEF T!TokensInv

LEMMA StartKeepsTokens ==
  ASSUME T!TokensInv, T!Start
  PROVE  T!TokensInv'
<1>1. mem' = file /\ file' = file /\ ~behind' /\ tUp' /\ ~tUp /\ UNCHANGED <<issued, dead, lost>>
  BY DEF T!Start
<1>2. T!Owned(mem)' /\ T!Owned(file)'
  BY <1>1 DEF T!TokensInv, T!Owned
<1>3. ~lost => file.token = mem.token
  BY <1>1 DEF T!TokensInv
<1>4. QED
  BY <1>1, <1>2, <1>3 DEF T!TokensInv

LEMMA TokensStep ==
  ASSUME T!TypeOK, T!TokensInv, [T!Next]_tVars
  PROVE  T!TokensInv'
<1>1. ASSUME NEW a \in Agents, T!Register(a) \/ T!Revoke(a) PROVE T!TokensInv'
  BY <1>1, RegisterKeepsTokens, RevokeKeepsTokens
<1>2. ASSUME NEW a \in Agents, NEW c \in T!Credentials, T!Heartbeat(a, c) PROVE T!TokensInv'
  <2>1. mem' = mem /\ file' \in {file, mem'} /\ (~behind' => file' = mem')
    BY <1>2, Persisted DEF T!Heartbeat, T!TypeOK
  <2>2. QED
    BY <1>2, <2>1, SavesKeepTokens DEF T!Heartbeat
<1>3. ASSUME NEW c \in T!Credentials, NEW who \in T!Who, NEW r \in Requests,
             NEW a \in Agents \cup {None},
             T!SubmitArrives(c, who, r, a) \/ T!AckArrives(c, who, r) \/ T!Poll(c, who, r)
      PROVE  T!TokensInv'
  <2>1. UNCHANGED <<mem, file, issued, dead, behind, lost, tUp>>
    BY <1>3 DEF T!SubmitArrives, T!AckArrives, T!Awaits, T!Poll
  <2>2. QED
    BY <2>1, SavesKeepTokens
<1>4. ASSUME NEW call \in tCalls, T!SubmitActs(call) PROVE T!TokensInv'
  <2>1. mem'.token = mem.token /\ file' \in {file, mem'} /\ (~behind' => file' = mem')
    BY <1>4, SubmissionStores
  <2>2. UNCHANGED <<issued, dead, lost, tUp>> /\ tUp
    BY <1>4 DEF T!SubmitActs, T!Returns
  <2>3. QED
    BY <2>1, <2>2, SavesKeepTokens
<1>5. ASSUME NEW call \in tCalls, T!SubmitRefused(call) \/ T!AckActs(call) PROVE T!TokensInv'
  <2>1. mem'.token = mem.token
    BY <1>5 DEF T!SubmitRefused, T!AckActs, T!TypeOK, T!Store
  <2>2. UNCHANGED <<file, issued, dead, behind, lost, tUp>>
    BY <1>5 DEF T!SubmitRefused, T!AckActs, T!Returns
  <2>3. QED
    BY <2>1, <2>2, SavesKeepTokens
<1>6. ASSUME NEW r \in Requests, T!Decide(r) PROVE T!TokensInv'
  <2>1. mem'.token = mem.token /\ file' \in {file, mem'} /\ (~behind' => file' = mem')
    BY <1>6, DecisionStores
  <2>2. UNCHANGED <<issued, dead, lost, tUp>> /\ tUp
    BY <1>6 DEF T!Decide
  <2>3. QED
    BY <2>1, <2>2, SavesKeepTokens
<1>7. CASE T!Crash
  BY <1>7, CrashKeepsTokens
<1>8. CASE T!Start
  BY <1>8, StartKeepsTokens
<1>9. CASE UNCHANGED tVars
  BY <1>9, SavesKeepTokens DEF tVars
<1>10. QED
  BY <1>1, <1>2, <1>3, <1>4, <1>5, <1>6, <1>7, <1>8, <1>9 DEF T!Next

\* A submission is stored under the agent that signed it, or under the server's claim.
LEMMA SignedStep ==
  ASSUME T!TypeOK, T!SignedInv, [T!Next]_tVars
  PROVE  T!SignedInv'
<1>1. ASSUME mem'.agent = mem.agent, mem'.by = mem.by, file' \in {file, mem'},
             UNCHANGED mistaken
      PROVE  T!SignedInv'
  BY <1>1 DEF T!SignedInv, T!Signed, T!OwnRequestsAreServed
<1>2. ASSUME NEW a \in Agents, T!Register(a) \/ T!Revoke(a) PROVE T!SignedInv'
  <2>1. mem'.agent = mem.agent /\ mem'.by = mem.by /\ file' \in {file, mem'}
    BY <1>2, RegisterStores, RevokeStores
  <2>2. QED
    BY <1>1, <1>2, <2>1 DEF T!Register, T!Revoke
<1>3. ASSUME NEW a \in Agents, NEW c \in T!Credentials, T!Heartbeat(a, c) PROVE T!SignedInv'
  <2>1. mem' = mem /\ file' \in {file, mem'}
    BY <1>3, Persisted DEF T!Heartbeat, T!TypeOK
  <2>2. QED
    BY <1>1, <1>3, <2>1 DEF T!Heartbeat
<1>4. ASSUME NEW c \in T!Credentials, NEW who \in T!Who, NEW r \in Requests,
             NEW a \in Agents \cup {None},
             T!SubmitArrives(c, who, r, a) \/ T!AckArrives(c, who, r)
      PROVE  T!SignedInv'
  BY <1>1, <1>4 DEF T!SubmitArrives, T!AckArrives, T!Awaits
<1>5. ASSUME NEW c \in T!Credentials, NEW who \in T!Who, NEW r \in Requests, T!Poll(c, who, r)
      PROVE  T!SignedInv'
  <2>1. mem' = mem /\ file' = file
    BY <1>5 DEF T!Poll
  <2>2. ASSUME ~T!MayPoll(who, r), mem.by[r] = who PROVE who \in Long
    <3>1. who \in Agents /\ mem.agent[r] # who /\ mem.agent[r] = T!Stored(who)
      BY <2>2 DEF T!MayPoll, T!SignedInv, T!Signed
    <3>2. QED
      BY <3>1, NoneIsNothing DEF T!Stored
  <2>3. mistaken' \subseteq Long
    BY <1>5, <2>2 DEF T!Poll, T!SignedInv, T!OwnRequestsAreServed
  <2>4. QED
    BY <2>1, <2>3 DEF T!SignedInv, T!Signed, T!OwnRequestsAreServed
<1>6. ASSUME NEW call \in tCalls, T!SubmitActs(call) PROVE T!SignedInv'
  <2>1. /\ mem'.agent = [mem.agent EXCEPT ![call.req] = T!AgentOf(call)]
        /\ mem'.by = [mem.by EXCEPT ![call.req] = call.who]
        /\ file' \in {file, mem'}
    BY <1>6, SubmissionStores
  <2>2. mem.agent \in [Requests -> T!Names \cup {None}] /\ mem.by \in [Requests -> T!Who \cup {None}]
    BY StoreOf DEF T!TypeOK
  <2>3. T!Signed(mem)'
    BY <2>1, <2>2 DEF T!SignedInv, T!Signed, T!AgentOf
  <2>4. T!Signed(file)'
    BY <2>1, <2>3 DEF T!SignedInv, T!Signed
  <2>5. QED
    BY <1>6, <2>3, <2>4 DEF T!SignedInv, T!OwnRequestsAreServed, T!SubmitActs, T!Returns
<1>7. ASSUME NEW call \in tCalls, T!SubmitRefused(call) \/ T!AckActs(call) PROVE T!SignedInv'
  <2>1. mem'.agent = mem.agent /\ mem'.by = mem.by
    BY <1>7 DEF T!SubmitRefused, T!AckActs, T!TypeOK, T!Store
  <2>2. QED
    BY <1>1, <1>7, <2>1 DEF T!SubmitRefused, T!AckActs, T!Returns
<1>8. ASSUME NEW r \in Requests, T!Decide(r) PROVE T!SignedInv'
  <2>1. mem'.agent = mem.agent /\ mem'.by = mem.by /\ file' \in {file, mem'}
    BY <1>8, DecisionStores
  <2>2. QED
    BY <1>1, <1>8, <2>1 DEF T!Decide
<1>9. CASE T!Crash
  BY <1>1, <1>9 DEF T!Crash
<1>10. CASE T!Start
  BY <1>10 DEF T!Start, T!SignedInv, T!Signed, T!OwnRequestsAreServed
<1>11. CASE UNCHANGED tVars
  BY <1>1, <1>11 DEF tVars
<1>12. QED
  BY <1>2, <1>3, <1>4, <1>5, <1>6, <1>7, <1>8, <1>9, <1>10, <1>11 DEF T!Next

-----------------------------------------------------------------------------
\* The part's invariant, for its behaviours.
TokensPart == part = "tokens" => T!TypeOK /\ T!TokensInv /\ T!SignedInv

LEMMA TokensAlways == Spec => []TokensPart
<1>1. Init => TokensPart
  <2> SUFFICES ASSUME Init, part = "tokens" PROVE T!TypeOK /\ T!TokensInv /\ T!SignedInv
    BY DEF TokensPart
  <2>1. T!TypeOK /\ T!Init
    BY TokensTyped, TokensBegin
  <2>2. T!TokensInv
    BY <2>1, PartBounds, ClientBounds, NoneIsNothing DEF T!Init, T!TokensInv, T!Owned
  <2>3. T!SignedInv
    BY <2>1, NoneIsNothing DEF T!Init, T!SignedInv, T!Signed, T!OwnRequestsAreServed
  <2>4. QED
    BY <2>1, <2>2, <2>3
<1>2. TokensPart /\ [Next]_allVars => TokensPart'
  <2> SUFFICES ASSUME TokensPart, [Next]_allVars, part' = "tokens"
               PROVE  T!TypeOK' /\ T!TokensInv' /\ T!SignedInv'
    BY DEF TokensPart
  <2>1. [T!Next]_tVars /\ T!TypeOK /\ T!TokensInv /\ T!SignedInv
    BY TokensMove, PartStays DEF TokensPart
  <2>2. QED
    BY <2>1, TokensTypeStep, TokensStep, SignedStep
<1>3. QED
  BY <1>1, <1>2, PTL DEF Spec

\* A token admits the agent it was issued to and no other; replaced or revoked, it admits nobody
\* again, through failed saves and restarts, unless the process died after a save that failed; and
\* only an agent whose id is cut is refused the decision on a request it has signed
\* (maestro-server.js).
THEOREM TokensAlwaysHold == Spec => []TokensHold
<1>1. TokensPart => TokensHold
  BY DEF TokensPart, TokensHold, T!TokensInv, T!SignedInv, T!Owned, T!TokensHold
<1>2. QED
  BY <1>1, TokensAlways, PTL

-----------------------------------------------------------------------------
(* Who starts and stops the approval server (vscode-extension, lib, bin, scripts). *)

LEMMA LauncherMoves ==
  [Next]_allVars /\ part' = "launcher" => [L!Next]_lVars
BY DEF Next, allVars, lVars

LEMMA LauncherBegins == Init => L!Init
BY DEF Init

LEMMA LauncherTypeStep ==
  ASSUME L!TypeOK, L!ChildrenInv, [L!Next]_lVars
  PROVE  L!TypeOK'
<1> USE DEF L!TypeOK, L!Servers
<1>1. Len(proc) \in Nat /\ MaxServers \in Nat /\ MaxFailures \in Nat
  BY PartBounds, ClientBounds
<1>2. ASSUME NEW w \in L!Owners, L!Start(w) \/ L!Refuses(w) \/ L!Asks(w) \/ L!NotReady(w) \/ L!Fails(w)
      PROVE  L!TypeOK'
  BY <1>2 DEF L!Start, L!Refuses, L!Asks, L!NotReady, L!Fails, L!Owners
<1>3. ASSUME NEW w \in L!Owners, L!Reuses(w) PROVE L!TypeOK'
  BY <1>3 DEF L!Reuses
<1>4. ASSUME NEW w \in L!Owners, L!StartsServer(w) \/ L!AppStarts(w) PROVE L!TypeOK'
  <2>1. L!Spawns(w) /\ lFailures' \in 0..MaxFailures
    BY <1>1, <1>4 DEF L!StartsServer, L!AppStarts
  <2>2. /\ proc' \in Seq({"booting", "serving", "dead"}) /\ Len(proc') = Len(proc) + 1
        /\ Len(proc') <= MaxServers
    BY <1>1, <2>1 DEF L!Spawns
  <2>3. child' \in [L!Owners -> (1..Len(proc')) \cup {None}]
    BY <1>1, <2>1, <2>2 DEF L!Spawns
  <2>4. handle' \in [L!Owners -> (1..Len(proc')) \cup {None, Reused}]
    BY <1>1, <2>1, <2>2 DEF L!Spawns
  <2>5. term' \subseteq 1..Len(proc') /\ left' \subseteq 1..Len(proc') /\ misled' \subseteq 1..Len(proc')
    BY <1>1, <2>1, <2>2 DEF L!Spawns
  <2>6. lStage' \in [L!Owners -> {"off", "probe", "wait", "ask", "abort"}]
    BY <2>1 DEF L!Spawns
  <2>7. UNCHANGED <<foreign, gone>>
    BY <2>1 DEF L!Spawns
  <2>8. QED
    BY <2>1, <2>2, <2>3, <2>4, <2>5, <2>6, <2>7
<1>5. ASSUME NEW n \in 1..Len(proc), L!Listens(n) \/ L!Terminates(n) \/ L!Dies(n) PROVE L!TypeOK'
  <2>1. proc' \in Seq({"booting", "serving", "dead"}) /\ Len(proc') = Len(proc)
    BY <1>5 DEF L!Listens, L!Terminates, L!Dies
  <2>2. lFailures' \in 0..MaxFailures
    BY <1>1, <1>5 DEF L!Listens, L!Terminates, L!Dies
  <2>3. UNCHANGED <<foreign, lStage, child, handle, term, left, misled, gone>>
    BY <1>5 DEF L!Listens, L!Terminates, L!Dies
  <2>4. QED
    BY <2>1, <2>2, <2>3
<1>6. ASSUME NEW w \in L!Owners, L!Ready(w) PROVE L!TypeOK'
  <2>1. child[w] \in 1..Len(proc)
    BY <1>6 DEF L!Ready, L!ChildrenInv
  <2>2. misled' \subseteq 1..Len(proc)
    BY <1>6, <2>1 DEF L!Ready
  <2>3. handle' \in [L!Owners -> (1..Len(proc)) \cup {None, Reused}]
    BY <1>6, <2>1 DEF L!Ready
  <2>4. QED
    BY <1>6, <2>2, <2>3 DEF L!Ready
<1>7. ASSUME NEW w \in L!Owners, L!GivesUp(w) PROVE L!TypeOK'
  <2>1. child[w] \in 1..Len(proc)
    BY <1>7 DEF L!GivesUp, L!ChildrenInv
  <2>2. QED
    BY <1>7, <2>1 DEF L!GivesUp
<1>8. ASSUME NEW w \in L!Owners, L!Stop(w) PROVE L!TypeOK'
  BY <1>8 DEF L!Stop, L!Own
<1>9. ASSUME NEW w \in L!Owners, L!Ends(w) PROVE L!TypeOK'
  <2>1. lStage[w] \in {"wait", "ask"} => child[w] \in 1..Len(proc)
    BY DEF L!ChildrenInv
  <2>2. term' \subseteq 1..Len(proc) /\ left' \subseteq 1..Len(proc)
    BY <1>9, <2>1 DEF L!Ends, L!Own
  <2>3. QED
    BY <1>9, <2>2 DEF L!Ends
<1>10. ASSUME NEW w \in L!Owners, L!EndsWithServer(w) PROVE L!TypeOK'
  BY <1>10 DEF L!EndsWithServer
<1>11. CASE UNCHANGED lVars
  BY <1>11 DEF lVars
<1>12. QED
  BY <1>2, <1>3, <1>4, <1>5, <1>6, <1>7, <1>8, <1>9, <1>10, <1>11 DEF L!Next

Begun == {"wait", "ask", "abort"}

\* The types of the launcher's functions, unfolded.
LEMMA LauncherTyped ==
  ASSUME L!TypeOK
  PROVE  /\ Len(proc) \in Nat /\ Len(proc) <= MaxServers /\ proc \in Seq({"booting", "serving", "dead"})
         /\ lStage \in [L!Owners -> {"off", "probe", "wait", "ask", "abort"}]
         /\ child \in [L!Owners -> 1..Len(proc) \cup {None}]
         /\ handle \in [L!Owners -> 1..Len(proc) \cup {None, Reused}]
         /\ term \subseteq 1..Len(proc)
         /\ None \notin 1..Len(proc) /\ Reused \notin 1..Len(proc)
<1>1. Len(proc) \in Nat /\ Len(proc) <= MaxServers /\ MaxServers \in Nat
  BY PartBounds, ClientBounds DEF L!TypeOK
<1>2. None \notin 1..Len(proc) /\ Reused \notin 1..Len(proc)
  BY <1>1, NoneIsNothing, ReusedIsNoServer
<1>3. QED
  BY <1>1, <1>2 DEF L!TypeOK, L!Servers

\* Nothing but the new server changes hands when one is spawned.
LEMMA SpawnKeepsChildren ==
  ASSUME L!TypeOK, L!ChildrenInv, NEW w \in L!Owners, L!Spawns(w),
         handle[w] \notin 1..Len(proc)
  PROVE  L!ChildrenInv'
<1> DEFINE n == Len(proc) + 1
<1>1. /\ Len(proc') = n /\ \A i \in 1..Len(proc) : proc'[i] = proc[i]
      /\ n \notin 1..Len(proc) /\ n \in 1..Len(proc')
      /\ \A i \in 1..Len(proc') : i # n => i \in 1..Len(proc)
  BY LauncherTyped DEF L!Spawns
<1>2. /\ child' = [child EXCEPT ![w] = n] /\ lStage' = [lStage EXCEPT ![w] = "wait"]
      /\ UNCHANGED <<handle, term, misled>>
  BY DEF L!Spawns
<1>3. MaxServers \in Nat /\ n <= MaxServers
  BY LauncherTyped, PartBounds, ClientBounds DEF L!Spawns
<1>4. n # None /\ n # Reused
  BY <1>3, NoneIsNothing, ReusedIsNoServer, LauncherTyped
<1>5. ASSUME NEW v \in L!Owners
      PROVE  /\ lStage'[v] \in Begun => child'[v] \in 1..Len(proc')
             /\ lStage'[v] = "abort" => child'[v] \in term'
             /\ handle'[v] \in 1..Len(proc') =>
                  /\ lStage'[v] = "off" /\ handle'[v] = child'[v]
                  /\ proc'[handle'[v]] # "booting" \/ handle'[v] \in misled'
             /\ child'[v] \in 1..Len(proc') => \A u \in L!Owners \ {v} : child'[u] # child'[v]
  <2>1. handle[v] \in 1..Len(proc') => handle[v] \in 1..Len(proc)
    BY <1>1, <1>4, LauncherTyped
  <2>2. CASE v = w
    <3>1. child'[w] = n /\ lStage'[w] = "wait" /\ handle'[w] = handle[w]
      BY <1>2, LauncherTyped
    <3>2. \A u \in L!Owners \ {w} : child'[u] = child[u] /\ child[u] # n
      BY <1>1, <1>2, <1>4, LauncherTyped
    <3>3. QED
      BY <1>1, <2>1, <2>2, <3>1, <3>2 DEF Begun
  <2>3. CASE v # w
    <3>1. child'[v] = child[v] /\ lStage'[v] = lStage[v] /\ handle'[v] = handle[v]
          /\ child[v] # n
      BY <1>1, <1>2, <1>4, <2>3, LauncherTyped
    <3>2. lStage'[v] \in Begun => child'[v] \in 1..Len(proc')
      BY <1>1, <3>1, LauncherTyped DEF L!ChildrenInv, L!Servers, Begun
    <3>3. lStage'[v] = "abort" => child'[v] \in term'
      BY <1>2, <3>1 DEF L!ChildrenInv
    <3>4. handle'[v] \in 1..Len(proc') =>
                  /\ lStage'[v] = "off" /\ handle'[v] = child'[v]
                  /\ proc'[handle'[v]] # "booting" \/ handle'[v] \in misled'
      BY <1>1, <1>2, <2>1, <3>1 DEF L!ChildrenInv, L!Servers
    <3>5. ASSUME child'[v] \in 1..Len(proc'), NEW u \in L!Owners \ {v} PROVE child'[u] # child'[v]
      <4>1. child[v] \in 1..Len(proc)
        BY <1>1, <3>1, <3>5
      <4>2. child[u] # child[v]
        BY <4>1 DEF L!ChildrenInv, L!Servers
      <4>3. child'[u] = child[u] \/ child'[u] = n
        BY <1>2, LauncherTyped
      <4>4. QED
        BY <3>1, <4>2, <4>3
    <3>6. QED
      BY <3>2, <3>3, <3>4, <3>5
  <2>4. QED
    BY <2>2, <2>3
<1>6. QED
  BY <1>5 DEF L!ChildrenInv, L!Servers, Begun

\* Another step changes the stage, the child's handle or the server of one owner at most.
LEMMA OthersKeepChildren ==
  ASSUME L!TypeOK, L!ChildrenInv, Len(proc') = Len(proc), child' = child,
         term \subseteq term', misled \subseteq misled',
         \A i \in 1..Len(proc) : proc'[i] = "booting" => proc[i] = "booting",
         \A v \in L!Owners :
           \/ lStage'[v] = lStage[v] /\ handle'[v] = handle[v]
           \/ /\ lStage'[v] \in Begun =>
                   child[v] \in 1..Len(proc) /\ (lStage'[v] = "abort" => child[v] \in term')
              /\ handle'[v] \in 1..Len(proc) =>
                   /\ lStage'[v] = "off" /\ handle'[v] = child[v]
                   /\ proc[handle'[v]] # "booting" \/ handle'[v] \in misled'
  PROVE  L!ChildrenInv'
<1>1. ASSUME NEW v \in L!Owners
      PROVE  /\ lStage'[v] \in Begun => child[v] \in 1..Len(proc)
             /\ lStage'[v] = "abort" => child[v] \in term'
             /\ handle'[v] \in 1..Len(proc) =>
                  /\ lStage'[v] = "off" /\ handle'[v] = child[v]
                  /\ proc'[handle'[v]] # "booting" \/ handle'[v] \in misled'
             /\ child[v] \in 1..Len(proc) => \A u \in L!Owners \ {v} : child[u] # child[v]
  BY <1>1 DEF L!ChildrenInv, L!Servers, Begun
<1>2. QED
  BY <1>1 DEF L!ChildrenInv, L!Servers, Begun

LEMMA ChildrenStep ==
  ASSUME L!TypeOK, L!ChildrenInv, [L!Next]_lVars
  PROVE  L!ChildrenInv'
<1> USE LauncherTyped
<1>1. ASSUME NEW w \in L!Owners, L!Start(w) \/ L!Reuses(w) \/ L!Refuses(w) \/ L!Fails(w)
      PROVE  L!ChildrenInv'
  <2>1. \A v \in L!Owners :
          \/ lStage'[v] = lStage[v] /\ handle'[v] = handle[v]
          \/ lStage'[v] \notin Begun /\ (handle'[v] = handle[v] \/ handle'[v] = Reused)
             /\ lStage[v] # "off" 
          \/ lStage'[v] = "probe" /\ handle'[v] = None
    BY <1>1 DEF L!Start, L!Reuses, L!Refuses, L!Fails, Begun
  <2>2. \A v \in L!Owners : lStage[v] # "off" => handle[v] \notin 1..Len(proc)
    BY DEF L!ChildrenInv, L!Servers
  <2>3. \A v \in L!Owners :
          (lStage'[v] = lStage[v] /\ handle'[v] = handle[v])
          \/ (lStage'[v] \notin Begun /\ handle'[v] \notin 1..Len(proc))
    BY <2>1, <2>2 DEF Begun
  <2>4. UNCHANGED <<proc, child, term, misled>>
    BY <1>1 DEF L!Start, L!Reuses, L!Refuses, L!Fails
  <2>5. QED
    BY <2>3, <2>4, OthersKeepChildren DEF Begun
<1>2. ASSUME NEW w \in L!Owners, L!StartsServer(w) \/ L!AppStarts(w) PROVE L!ChildrenInv'
  <2>1. L!Spawns(w) /\ (lStage[w] = "probe" \/ child[w] = None)
    BY <1>2 DEF L!StartsServer, L!AppStarts
  <2>2. handle[w] \notin 1..Len(proc)
    BY <2>1 DEF L!ChildrenInv, L!Servers
  <2>3. QED
    BY <2>1, <2>2, SpawnKeepsChildren
<1>3. ASSUME NEW n \in 1..Len(proc), L!Listens(n) \/ L!Terminates(n) \/ L!Dies(n)
      PROVE  L!ChildrenInv'
  <2>1. \A i \in 1..Len(proc) : proc'[i] = "booting" => proc[i] = "booting"
    BY <1>3 DEF L!Listens, L!Terminates, L!Dies
  <2>2. Len(proc') = Len(proc) /\ UNCHANGED <<lStage, child, handle, term, misled>>
    BY <1>3 DEF L!Listens, L!Terminates, L!Dies
  <2>3. QED
    BY <2>1, <2>2, OthersKeepChildren
<1>4. ASSUME NEW w \in L!Owners, L!Asks(w) \/ L!NotReady(w) \/ L!GivesUp(w) PROVE L!ChildrenInv'
  <2>1. child[w] \in 1..Len(proc) /\ handle[w] \notin 1..Len(proc)
    BY <1>4 DEF L!Asks, L!NotReady, L!GivesUp, L!ChildrenInv, L!Servers
  <2>2. /\ lStage'[w] \in {"ask", "wait"} \/ (lStage'[w] = "abort" /\ child[w] \in term')
        /\ \A v \in L!Owners : v # w => lStage'[v] = lStage[v]
        /\ term \subseteq term' /\ UNCHANGED <<proc, child, handle, misled>>
    BY <1>4 DEF L!Asks, L!NotReady, L!GivesUp
  <2>3. QED
    BY <2>1, <2>2, OthersKeepChildren DEF Begun
<1>5. ASSUME NEW w \in L!Owners, L!Ready(w) PROVE L!ChildrenInv'
  <2>1. child[w] \in 1..Len(proc)
    BY <1>5 DEF L!Ready, L!ChildrenInv, L!Servers
  <2>2. /\ lStage'[w] = "off" /\ handle'[w] = child[w]
        /\ proc[child[w]] = "serving" \/ child[w] \in misled'
        /\ \A v \in L!Owners : v # w => lStage'[v] = lStage[v] /\ handle'[v] = handle[v]
        /\ misled \subseteq misled' /\ UNCHANGED <<proc, child, term>>
    BY <1>5 DEF L!Ready, L!Serving
  <2>3. QED
    BY <2>1, <2>2, OthersKeepChildren DEF Begun
<1>6. ASSUME NEW w \in L!Owners, L!Stop(w) \/ L!Ends(w) \/ L!EndsWithServer(w)
      PROVE  L!ChildrenInv'
  <2>1. /\ handle'[w] = None /\ (lStage'[w] = lStage[w] \/ lStage'[w] = "off")
        /\ \A v \in L!Owners : v # w => lStage'[v] = lStage[v] /\ handle'[v] = handle[v]
    BY <1>6 DEF L!Stop, L!Ends, L!EndsWithServer
  <2>2. term \subseteq term' /\ UNCHANGED <<proc, child, misled>>
    BY <1>6 DEF L!Stop, L!Ends, L!EndsWithServer
  <2>3. lStage[w] \in Begun =>
          child[w] \in 1..Len(proc) /\ (lStage[w] = "abort" => child[w] \in term)
    BY DEF L!ChildrenInv, L!Servers, Begun
  <2>4. QED
    BY <2>1, <2>2, <2>3, OthersKeepChildren DEF Begun
<1>7. CASE UNCHANGED lVars
  BY <1>7, OthersKeepChildren DEF lVars
<1>8. QED
  BY <1>1, <1>2, <1>3, <1>4, <1>5, <1>6, <1>7 DEF L!Next, L!Servers

\* A server keeps who answers for it unless it dies or is stopped, or left behind.
LEMMA OwnersStep ==
  ASSUME L!TypeOK, L!ChildrenInv, L!OwnersInv, [L!Next]_lVars
  PROVE  L!OwnersInv'
<1> USE LauncherTyped
<1>1. ASSUME Len(proc') = Len(proc), child' = child,
             \A i \in 1..Len(proc) : proc'[i] # "dead" => proc[i] # "dead",
             term \subseteq term', left \subseteq left',
             \A v \in L!Owners :
               \/ lStage'[v] = lStage[v] /\ handle'[v] = handle[v]
               \/ /\ handle[v] \in 1..Len(proc) =>
                       handle[v] \in term' \/ proc[handle[v]] = "dead"
                  /\ lStage[v] \in Begun =>
                       \/ lStage'[v] \in Begun \/ handle'[v] = child[v]
                       \/ child[v] \in term' \cup left' \/ proc[child[v]] = "dead"
      PROVE  L!OwnersInv'
  <2>1. ASSUME NEW n \in 1..Len(proc), proc'[n] # "dead"
        PROVE  n \in term' \cup left' \/ \E v \in L!Owners : handle'[v] = n \/ L!Starting(v, n)'
    <3>1. proc[n] # "dead"
      BY <1>1, <2>1
    <3>2. CASE n \in term \cup left
      BY <1>1, <3>2
    <3>3. ASSUME NEW v \in L!Owners, handle[v] = n
          PROVE  n \in term' \cup left' \/ handle'[v] = n
      BY <1>1, <3>1, <3>3
    <3>4. ASSUME NEW v \in L!Owners, L!Starting(v, n)
          PROVE  n \in term' \cup left' \/ handle'[v] = n \/ L!Starting(v, n)'
      <4>1. lStage[v] \in Begun /\ child[v] = n
        BY <3>4 DEF L!Starting, Begun
      <4>2. QED
        BY <1>1, <3>1, <4>1 DEF L!Starting, Begun
    <3>5. QED
      BY <3>1, <3>2, <3>3, <3>4 DEF L!OwnersInv, L!Servers, L!Alive
  <2>2. QED
    BY <1>1, <2>1 DEF L!OwnersInv, L!Servers, L!Alive
<1>2. ASSUME NEW w \in L!Owners, L!Start(w) \/ L!Reuses(w) \/ L!Refuses(w) PROVE L!OwnersInv'
  <2>1. /\ lStage[w] = "probe" \/ (lStage[w] = "off" /\ handle[w] = None)
        /\ \A v \in L!Owners : v # w => lStage'[v] = lStage[v] /\ handle'[v] = handle[v]
        /\ UNCHANGED <<proc, child, term, left>>
    BY <1>2 DEF L!Start, L!Reuses, L!Refuses
  <2>2. handle[w] \notin 1..Len(proc)
    BY <2>1 DEF L!ChildrenInv, L!Servers
  <2>3. QED
    BY <1>1, <2>1, <2>2 DEF Begun
<1>3. ASSUME NEW w \in L!Owners, L!StartsServer(w) \/ L!AppStarts(w) PROVE L!OwnersInv'
  <2> DEFINE n == Len(proc) + 1
  <2>1. L!Spawns(w) /\ (lStage[w] = "probe" \/ child[w] = None)
    BY <1>3 DEF L!StartsServer, L!AppStarts
  <2>2. ASSUME NEW i \in 1..Len(proc) PROVE ~L!Starting(w, i)
    BY <2>1 DEF L!Starting
  <2>3. /\ Len(proc') = n /\ \A i \in 1..Len(proc) : proc'[i] = proc[i]
        /\ child' = [child EXCEPT ![w] = n] /\ lStage' = [lStage EXCEPT ![w] = "wait"]
        /\ UNCHANGED <<handle, term, left>>
    BY <2>1 DEF L!Spawns
  <2>4. ASSUME NEW i \in 1..Len(proc'), proc'[i] # "dead"
        PROVE  i \in term' \cup left' \/ \E v \in L!Owners : handle'[v] = i \/ L!Starting(v, i)'
    <3>1. CASE i = n
      <4>1. child'[w] = n /\ lStage'[w] = "wait"
        BY <2>3
      <4>2. QED
        BY <3>1, <4>1 DEF L!Starting
    <3>2. CASE i # n
      <4>1. i \in 1..Len(proc) /\ proc[i] # "dead"
        BY <2>3, <2>4, <3>2
      <4>2. \A v \in L!Owners : L!Starting(v, i) => L!Starting(v, i)'
        <5>1. SUFFICES ASSUME NEW v \in L!Owners, L!Starting(v, i) PROVE L!Starting(v, i)'
          OBVIOUS
        <5>2. v # w
          BY <2>2, <4>1, <5>1
        <5>3. QED
          BY <2>3, <5>1, <5>2 DEF L!Starting
      <4>3. QED
        BY <2>3, <4>1, <4>2 DEF L!OwnersInv, L!Servers, L!Alive
    <3>3. QED
      BY <3>1, <3>2
  <2>5. QED
    BY <2>4 DEF L!OwnersInv, L!Servers, L!Alive
<1>4. ASSUME NEW m \in 1..Len(proc), L!Listens(m) \/ L!Terminates(m) \/ L!Dies(m)
      PROVE  L!OwnersInv'
  <2>1. \A i \in 1..Len(proc) : proc'[i] # "dead" => proc[i] # "dead"
    BY <1>4 DEF L!Listens, L!Terminates, L!Dies
  <2>2. Len(proc') = Len(proc) /\ UNCHANGED <<lStage, child, handle, term, left>>
    BY <1>4 DEF L!Listens, L!Terminates, L!Dies
  <2>3. QED
    BY <1>1, <2>1, <2>2
<1>5. ASSUME NEW w \in L!Owners, L!Asks(w) \/ L!NotReady(w) \/ L!GivesUp(w) PROVE L!OwnersInv'
  <2>1. /\ lStage'[w] \in Begun
        /\ \A v \in L!Owners : v # w => lStage'[v] = lStage[v]
        /\ term \subseteq term' /\ UNCHANGED <<proc, child, handle, left>>
    BY <1>5 DEF L!Asks, L!NotReady, L!GivesUp, Begun
  <2>2. handle[w] \notin 1..Len(proc)
    BY <1>5 DEF L!Asks, L!NotReady, L!GivesUp, L!ChildrenInv, L!Servers
  <2>3. QED
    BY <1>1, <2>1, <2>2
<1>6. ASSUME NEW w \in L!Owners, L!Ready(w) PROVE L!OwnersInv'
  <2>1. /\ handle'[w] = child[w]
        /\ \A v \in L!Owners : v # w => lStage'[v] = lStage[v] /\ handle'[v] = handle[v]
        /\ UNCHANGED <<proc, child, term, left>>
    BY <1>6 DEF L!Ready
  <2>2. handle[w] \notin 1..Len(proc)
    BY <1>6 DEF L!Ready, L!ChildrenInv, L!Servers
  <2>3. QED
    BY <1>1, <2>1, <2>2
<1>7. ASSUME NEW w \in L!Owners, L!Fails(w) PROVE L!OwnersInv'
  <2>1. /\ proc[child[w]] = "dead" /\ lStage[w] = "abort"
        /\ \A v \in L!Owners : v # w => lStage'[v] = lStage[v]
        /\ UNCHANGED <<proc, child, handle, term, left>>
    BY <1>7 DEF L!Fails, L!Alive
  <2>2. handle[w] \notin 1..Len(proc)
    BY <2>1 DEF L!ChildrenInv, L!Servers
  <2>3. QED
    BY <1>1, <2>1, <2>2
<1>8. ASSUME NEW w \in L!Owners, L!Stop(w) PROVE L!OwnersInv'
  <2>1. /\ handle[w] \in 1..Len(proc) => handle[w] \in term'
        /\ \A v \in L!Owners : v # w => handle'[v] = handle[v]
        /\ term \subseteq term' /\ UNCHANGED <<proc, lStage, child, left>>
    BY <1>8 DEF L!Stop, L!Own, L!Servers
  <2>2. QED
    BY <1>1, <2>1
<1>9. ASSUME NEW w \in L!Owners, L!Ends(w) PROVE L!OwnersInv'
  <2>1. /\ handle[w] \in 1..Len(proc) => handle[w] \in term'
        /\ \A v \in L!Owners : v # w => lStage'[v] = lStage[v] /\ handle'[v] = handle[v]
        /\ term \subseteq term' /\ left \subseteq left' /\ UNCHANGED <<proc, child>>
    BY <1>9 DEF L!Ends, L!Own, L!Servers
  <2>2. lStage[w] \in {"wait", "ask"} => child[w] \in term' \cup left'
    BY <1>9 DEF L!Ends
  <2>3. lStage[w] = "abort" => child[w] \in term
    BY DEF L!ChildrenInv
  <2>4. lStage[w] \in Begun => child[w] \in term' \cup left'
    BY <2>1, <2>2, <2>3 DEF Begun
  <2>5. QED
    BY <1>1, <2>1, <2>4
<1>10. ASSUME NEW w \in L!Owners, L!EndsWithServer(w) PROVE L!OwnersInv'
  <2>1. /\ proc[child[w]] = "dead"
        /\ \A v \in L!Owners : v # w => lStage'[v] = lStage[v] /\ handle'[v] = handle[v]
        /\ UNCHANGED <<proc, child, term, left>>
    BY <1>10 DEF L!EndsWithServer, L!Alive
  <2>2. handle[w] \in 1..Len(proc) => handle[w] = child[w]
    BY DEF L!ChildrenInv, L!Servers
  <2>3. QED
    BY <1>1, <2>1, <2>2
<1>11. CASE UNCHANGED lVars
  BY <1>1, <1>11 DEF lVars
<1>12. QED
  BY <1>2, <1>3, <1>4, <1>5, <1>6, <1>7, <1>8, <1>9, <1>10, <1>11 DEF L!Next, L!Servers

-----------------------------------------------------------------------------
\* The part's invariant, for its behaviours.
LauncherPart == part = "launcher" => L!TypeOK /\ L!ChildrenInv /\ L!OwnersInv

LEMMA LauncherAlways == Spec => []LauncherPart
<1>1. Init => LauncherPart
  <2> SUFFICES ASSUME L!Init PROVE L!TypeOK /\ L!ChildrenInv /\ L!OwnersInv
    BY LauncherBegins DEF LauncherPart
  <2>1. proc = <<>> /\ Len(proc) = 0 /\ proc \in Seq({"booting", "serving", "dead"})
    BY DEF L!Init
  <2>2. L!TypeOK
    BY <2>1, PartBounds, ClientBounds DEF L!Init, L!TypeOK, L!Servers
  <2>3. L!ChildrenInv /\ L!OwnersInv
    BY <2>1 DEF L!Init, L!ChildrenInv, L!OwnersInv, L!Servers
  <2>4. QED
    BY <2>2, <2>3
<1>2. LauncherPart /\ [Next]_allVars => LauncherPart'
  <2> SUFFICES ASSUME LauncherPart, [Next]_allVars, part' = "launcher"
               PROVE  L!TypeOK' /\ L!ChildrenInv' /\ L!OwnersInv'
    BY DEF LauncherPart
  <2>1. [L!Next]_lVars /\ L!TypeOK /\ L!ChildrenInv /\ L!OwnersInv
    BY LauncherMoves, PartStays DEF LauncherPart
  <2>2. QED
    BY <2>1, LauncherTypeStep, ChildrenStep, OwnersStep
<1>3. QED
  BY <1>1, <1>2, PTL DEF Spec

\* A server that runs belongs to somebody who can stop it, was told to stop or was left behind by
\* whoever ended while starting it; and a handle is on the server its holder has started last, on
\* nobody else's, and not on one that never listened unless another answered for it
\* (vscode-extension/lifecycle.cjs, lib/server-embed.mjs, scripts/start-app.mjs).
THEOREM LaunchersAlwaysHold == Spec => []LaunchersHold
<1>1. LauncherPart => LaunchersHold
  <2> SUFFICES ASSUME L!TypeOK, L!ChildrenInv, L!OwnersInv PROVE L!NoOrphans /\ L!HandlesAreOwn
    BY DEF LauncherPart, LaunchersHold
  <2>1. L!NoOrphans
    BY DEF L!OwnersInv, L!NoOrphans, L!Starting
  <2>2. L!HandlesAreOwn
    <3>1. SUFFICES ASSUME NEW w \in L!Owners, handle[w] \in L!Servers, NEW v \in L!Owners \ {w}
                   PROVE  handle[v] # handle[w]
      BY DEF L!ChildrenInv, L!HandlesAreOwn
    <3>2. child[v] # child[w] /\ handle[w] = child[w]
      BY <3>1 DEF L!ChildrenInv
    <3>3. handle[v] \in L!Servers => handle[v] = child[v]
      BY <3>1 DEF L!ChildrenInv
    <3>4. QED
      BY <3>1, <3>2, <3>3
  <2>3. QED
    BY <2>1, <2>2
<1>2. QED
  BY <1>1, LauncherAlways, PTL

-----------------------------------------------------------------------------
(* The connector (email-connector/lib.mjs). *)

LEMMA ConnectorMoves ==
  [Next]_allVars /\ part' = "connector" => [E!Next]_eVars
BY DEF Next, allVars, eVars

LEMMA ConnectorBegins == Init => E!Init
BY DEF Init

\* The types of the connector's variables, unfolded.
LEMMA ConnectorTyped ==
  ASSUME E!TypeOK
  PROVE  /\ Len(eAsked) \in Nat /\ eAsked \in Seq(E!Request)
         /\ \A i \in 1..Len(eAsked) :
              /\ eAsked[i].mail \in Mails /\ eAsked[i].stage \in {"triage", "reply"}
              /\ eAsked[i].verdict \in {"approve", "reject"} \cup {None} /\ eAsked[i].acked \in BOOLEAN
         /\ eRequest \in 0..Len(eAsked) /\ received \subseteq 1..Len(eAsked)
         /\ MaxRequests \in Nat /\ MaxRuns \in Nat /\ MaxFailures \in Nat
<1>1. eAsked \in Seq(E!Request) /\ Len(eAsked) \in Nat
  BY DEF E!TypeOK
<1>2. \A i \in 1..Len(eAsked) : eAsked[i] \in E!Request
  BY <1>1
<1>3. QED
  BY <1>1, <1>2, PartBounds, ClientBounds DEF E!TypeOK, E!Request, E!Verdicts

Fresh == [mail |-> mail, stage |-> E!Stage, verdict |-> None, acked |-> FALSE]

\* Requests are added, decided and acknowledged.
LEMMA AskedAdded ==
  ASSUME E!TypeOK, mail \in Mails, eAsked' = Append(eAsked, Fresh)
  PROVE  /\ eAsked' \in Seq(E!Request) /\ Len(eAsked') = Len(eAsked) + 1
         /\ eAsked'[Len(eAsked) + 1] = Fresh
         /\ \A i \in 1..Len(eAsked) : eAsked'[i] = eAsked[i]
<1>1. Fresh \in E!Request
  BY DEF Fresh, E!Stage, E!Request
<1> HIDE DEF Fresh
<1>2. QED
  BY <1>1, ConnectorTyped

LEMMA AskedReplaced ==
  ASSUME E!TypeOK, NEW i \in 1..Len(eAsked), NEW q \in E!Request, eAsked' = [eAsked EXCEPT ![i] = q]
  PROVE  /\ eAsked' \in Seq(E!Request) /\ Len(eAsked') = Len(eAsked) /\ eAsked'[i] = q
         /\ \A j \in 1..Len(eAsked) : j # i => eAsked'[j] = eAsked[j]
BY ConnectorTyped

LEMMA AskedDecided ==
  ASSUME E!TypeOK, NEW i \in 1..Len(eAsked), NEW v \in {"approve", "reject"},
         eAsked' = [eAsked EXCEPT ![i].verdict = v]
  PROVE  /\ eAsked' \in Seq(E!Request) /\ Len(eAsked') = Len(eAsked)
         /\ \A j \in 1..Len(eAsked) : j # i => eAsked'[j] = eAsked[j]
         /\ eAsked'[i].verdict = v /\ eAsked'[i].mail = eAsked[i].mail
         /\ eAsked'[i].stage = eAsked[i].stage /\ eAsked'[i].acked = eAsked[i].acked
<1> DEFINE q == [eAsked[i] EXCEPT !.verdict = v]
<1>1. eAsked[i] \in E!Request
  BY ConnectorTyped
<1>2. /\ q \in E!Request /\ q.verdict = v /\ q.mail = eAsked[i].mail /\ q.stage = eAsked[i].stage
      /\ q.acked = eAsked[i].acked
  BY <1>1 DEF E!Request, E!Verdicts
<1>3. eAsked' = [eAsked EXCEPT ![i] = q]
  OBVIOUS
<1> HIDE DEF q
<1>4. /\ eAsked' \in Seq(E!Request) /\ Len(eAsked') = Len(eAsked) /\ eAsked'[i] = q
      /\ \A j \in 1..Len(eAsked) : j # i => eAsked'[j] = eAsked[j]
  BY <1>2, <1>3, AskedReplaced, Zenon
<1>5. QED
  BY <1>2, <1>4, Zenon

LEMMA AskedAcked ==
  ASSUME E!TypeOK, NEW i \in 1..Len(eAsked), eAsked' = [eAsked EXCEPT ![i].acked = TRUE]
  PROVE  /\ eAsked' \in Seq(E!Request) /\ Len(eAsked') = Len(eAsked)
         /\ \A j \in 1..Len(eAsked) : j # i => eAsked'[j] = eAsked[j]
         /\ eAsked'[i].acked /\ eAsked'[i].mail = eAsked[i].mail
         /\ eAsked'[i].stage = eAsked[i].stage /\ eAsked'[i].verdict = eAsked[i].verdict
<1> DEFINE q == [eAsked[i] EXCEPT !.acked = TRUE]
<1>1. eAsked[i] \in E!Request
  BY ConnectorTyped
<1>2. q \in E!Request
  BY <1>1 DEF E!Request
<1>3. /\ q.acked /\ q.mail = eAsked[i].mail /\ q.stage = eAsked[i].stage
       /\ q.verdict = eAsked[i].verdict
  BY <1>1 DEF E!Request
<1>4. eAsked' = [eAsked EXCEPT ![i] = q]
  OBVIOUS
<1> HIDE DEF q
<1>5. /\ eAsked' \in Seq(E!Request) /\ Len(eAsked') = Len(eAsked) /\ eAsked'[i] = q
      /\ \A j \in 1..Len(eAsked) : j # i => eAsked'[j] = eAsked[j]
  BY <1>2, <1>4, AskedReplaced, Zenon
<1>6. QED
  BY <1>3, <1>5, Zenon

\* Stages of a run, and what an action may do to the list of requests.
LEMMA ConnectorTypeStep ==
  ASSUME E!TypeOK, E!RequestInv, E!TodoInv, [E!Next]_eVars
  PROVE  E!TypeOK'
<1> USE DEF E!TypeOK
<1>1. CASE E!Register
  BY <1>1, ConnectorTyped DEF E!Register, E!mailbox
<1>2. CASE E!Connected
  BY <1>2 DEF E!Connected, E!mailbox
<1>3. CASE E!SocketCloses
  BY <1>3 DEF E!SocketCloses, E!mailbox, E!here
<1>4. CASE E!Rival
  <2>1. current' \in BOOLEAN
    BY <1>4, Zenon DEF E!Rival
  <2>2. eFailures' \in 0..MaxFailures
    BY <1>4, ConnectorTyped DEF E!Rival
  <2>3. UNCHANGED <<pc, mail, todo, eRequest, eAsked, eSocket, received, processed, sent, torn, runs>>
    BY <1>4 DEF E!Rival, E!mailbox, E!here
  <2>4. QED
    BY <2>1, <2>2, <2>3
<1>5. CASE E!NextMail
  BY <1>5 DEF E!NextMail, E!EndsRun, E!mailbox, E!here
<1>6. CASE E!Asks
  <2>1. eAsked' = Append(eAsked, Fresh) /\ mail \in Mails
    BY <1>6 DEF E!Asks, Fresh, E!TodoInv
  <2>2. eAsked' \in Seq(E!Request) /\ Len(eAsked') = Len(eAsked) + 1
    BY <2>1, AskedAdded
  <2>3. Len(eAsked') <= MaxRequests /\ eRequest' \in 0..Len(eAsked') /\ received' \subseteq 1..Len(eAsked')
    BY <1>6, <2>2, ConnectorTyped DEF E!Asks
  <2>4. pc' \in {"awaitTriage", "awaitReply"}
    BY <1>6 DEF E!Asks
  <2>5. UNCHANGED <<mail, todo, eSocket, current, processed, sent, torn, runs, eFailures>>
    BY <1>6 DEF E!Asks, E!mailbox
  <2>6. QED
    BY <2>2, <2>3, <2>4, <2>5
<1>7. CASE E!Hears
  BY <1>7 DEF E!Hears, E!mailbox, E!here
<1>8. CASE E!TimesOut
  BY <1>8 DEF E!TimesOut, E!EndsRun, E!mailbox, E!here
<1>9. CASE E!Acks
  <2>1. eRequest \in 1..Len(eAsked)
    BY <1>9 DEF E!Acks, E!RequestInv, E!Waiting
  <2>2. eAsked' \in Seq(E!Request) /\ Len(eAsked') = Len(eAsked)
    BY <1>9, <2>1, AskedAcked DEF E!Acks
  <2>3. pc' \in {"mark", "askReply", "send"}
    BY <1>9 DEF E!Acks, E!After
  <2>4. QED
    BY <1>9, <2>2, <2>3 DEF E!Acks, E!mailbox, E!here
<1>10. CASE E!Sends
  <2>1. mail \in Mails
    BY <1>10 DEF E!Sends, E!TodoInv
  <2>2. sent' \in [Mails -> Nat]
    BY <1>10, <2>1 DEF E!Sends
  <2>3. QED
    BY <1>10, <2>2 DEF E!Sends, E!here
<1>11. CASE E!Marks
  <2>1. mail \in Mails
    BY <1>11 DEF E!Marks, E!TodoInv
  <2>2. QED
    BY <1>11, <2>1 DEF E!Marks, E!here
<1>12. CASE E!CallFails
  <2>1. eFailures' \in 0..MaxFailures
    BY <1>12, ConnectorTyped DEF E!CallFails
  <2>2. eAsked' \in Seq(E!Request) /\ Len(eAsked') >= Len(eAsked) /\ Len(eAsked') <= MaxRequests
    <3>1. CASE UNCHANGED eAsked
      BY <3>1, ConnectorTyped
    <3>2. CASE pc \in {"askTriage", "askReply"} /\ Len(eAsked) < MaxRequests
               /\ eAsked' = Append(eAsked, Fresh)
      <4>1. mail \in Mails
        BY <3>2 DEF E!TodoInv
      <4>2. eAsked' \in Seq(E!Request) /\ Len(eAsked') = Len(eAsked) + 1
        BY <3>2, <4>1, AskedAdded
      <4>3. QED
        BY <3>2, <4>2, ConnectorTyped
    <3>3. CASE pc \in {"ackTriage", "ackReply"} /\ eAsked' = [eAsked EXCEPT ![eRequest].acked = TRUE]
      <4>1. eRequest \in 1..Len(eAsked)
        BY <3>3 DEF E!RequestInv, E!Waiting
      <4>2. eAsked' \in Seq(E!Request) /\ Len(eAsked') = Len(eAsked)
        BY <3>3, <4>1, AskedAcked
      <4>3. QED
        BY <4>2, ConnectorTyped
    <3>4. QED
      BY <1>12, <3>1, <3>2, <3>3 DEF E!CallFails, Fresh
  <2>3. eRequest' \in 0..Len(eAsked') /\ received' \subseteq 1..Len(eAsked')
    BY <1>12, <2>2, ConnectorTyped DEF E!CallFails, E!EndsRun, E!here
  <2>4. QED
    BY <1>12, <2>1, <2>2, <2>3 DEF E!CallFails, E!EndsRun, E!mailbox, E!here
<1>13. CASE E!Dies
  <2>1. torn' = [torn EXCEPT ![mail] = @ + 1] \/ torn' = torn
    BY <1>13, Zenon DEF E!Dies
  <2>2. torn' \in [Mails -> Nat]
    BY <2>1
  <2>3. UNCHANGED <<eAsked, processed, sent, eFailures, mail, todo, eRequest, received, current, runs>>
        /\ pc' = "ended" /\ eSocket' = "closed"
    BY <1>13 DEF E!Dies, E!EndsRun, E!here
  <2>4. QED
    BY <2>2, <2>3
<1>14. ASSUME NEW i \in 1..Len(eAsked), E!Decide(i) PROVE E!TypeOK'
  <2>1. PICK v \in {"approve", "reject"} : eAsked' = [eAsked EXCEPT ![i].verdict = v]
    BY <1>14 DEF E!Decide, E!Verdicts
  <2>2. eAsked' \in Seq(E!Request) /\ Len(eAsked') = Len(eAsked)
    BY <2>1, AskedDecided
  <2>3. received' \subseteq 1..Len(eAsked)
    BY <1>14 DEF E!Decide
  <2>4. QED
    BY <1>14, <2>2, <2>3 DEF E!Decide, E!mailbox, E!here
<1>15. CASE UNCHANGED eVars
  BY <1>15 DEF eVars
<1>16. QED
  BY <1>1, <1>2, <1>3, <1>4, <1>5, <1>6, <1>7, <1>8, <1>9, <1>10, <1>11, <1>12, <1>13, <1>14, <1>15
  DEF E!Next

\* A request keeps its mail, its stage, its decision and its acknowledgement.
LEMMA AskedGrow ==
  ASSUME E!TypeOK, E!RequestInv, E!TodoInv, [E!Next]_eVars
  PROVE  /\ Len(eAsked') \in Nat /\ Len(eAsked) <= Len(eAsked')
         /\ \A i \in 1..Len(eAsked) : eAsked'[i].mail = eAsked[i].mail /\ eAsked'[i].stage = eAsked[i].stage
         /\ \A i \in 1..Len(eAsked) : eAsked[i].verdict # None => eAsked'[i].verdict = eAsked[i].verdict
         /\ \A i \in 1..Len(eAsked) : eAsked[i].acked => eAsked'[i].acked
<1> DEFINE Goal == /\ Len(eAsked') \in Nat /\ Len(eAsked) <= Len(eAsked')
                   /\ \A i \in 1..Len(eAsked) : eAsked'[i].mail = eAsked[i].mail /\ eAsked'[i].stage = eAsked[i].stage
                   /\ \A i \in 1..Len(eAsked) : eAsked[i].verdict # None => eAsked'[i].verdict = eAsked[i].verdict
                   /\ \A i \in 1..Len(eAsked) : eAsked[i].acked => eAsked'[i].acked
<1>1. CASE UNCHANGED eAsked
  BY <1>1, ConnectorTyped
<1>2. CASE mail \in Mails /\ eAsked' = Append(eAsked, Fresh)
  <2>1. /\ Len(eAsked') = Len(eAsked) + 1 /\ \A i \in 1..Len(eAsked) : eAsked'[i] = eAsked[i]
    BY <1>2, AskedAdded
  <2>2. QED
    BY <2>1, ConnectorTyped
<1>3. ASSUME NEW j \in 1..Len(eAsked), eAsked' = [eAsked EXCEPT ![j].acked = TRUE] PROVE Goal
  <2>1. Len(eAsked') = Len(eAsked) /\ \A i \in 1..Len(eAsked) : i # j => eAsked'[i] = eAsked[i]
    BY <1>3, AskedAcked
  <2>2. /\ eAsked'[j].acked /\ eAsked'[j].mail = eAsked[j].mail
        /\ eAsked'[j].stage = eAsked[j].stage /\ eAsked'[j].verdict = eAsked[j].verdict
    BY <1>3, AskedAcked
  <2>3. \A i \in 1..Len(eAsked) : /\ eAsked'[i].mail = eAsked[i].mail
                                  /\ eAsked'[i].stage = eAsked[i].stage
                                  /\ eAsked'[i].verdict = eAsked[i].verdict
                                  /\ eAsked[i].acked => eAsked'[i].acked
    <3>1. TAKE i \in 1..Len(eAsked)
    <3>2. CASE i = j
      BY <2>2, <3>2, Zenon
    <3>3. CASE i # j
      BY <2>1, <3>3, Zenon
    <3>4. QED
      BY <3>2, <3>3
  <2>4. Len(eAsked') \in Nat /\ Len(eAsked) <= Len(eAsked')
    BY <2>1, ConnectorTyped
  <2>5. QED
    BY <2>3, <2>4, Zenon
<1>4. ASSUME NEW j \in 1..Len(eAsked), eAsked[j].verdict = None, NEW v \in {"approve", "reject"},
             eAsked' = [eAsked EXCEPT ![j].verdict = v]
      PROVE  Goal
  <2>1. Len(eAsked') = Len(eAsked) /\ \A i \in 1..Len(eAsked) : i # j => eAsked'[i] = eAsked[i]
    BY <1>4, AskedDecided
  <2>2. /\ eAsked'[j].acked = eAsked[j].acked /\ eAsked'[j].mail = eAsked[j].mail
        /\ eAsked'[j].stage = eAsked[j].stage
    BY <1>4, AskedDecided
  <2>3. \A i \in 1..Len(eAsked) : /\ eAsked'[i].mail = eAsked[i].mail
                                  /\ eAsked'[i].stage = eAsked[i].stage
                                  /\ eAsked[i].verdict # None => eAsked'[i].verdict = eAsked[i].verdict
                                  /\ eAsked[i].acked => eAsked'[i].acked
    <3>1. TAKE i \in 1..Len(eAsked)
    <3>2. CASE i = j
      BY <1>4, <2>2, <3>2, Zenon
    <3>3. CASE i # j
      BY <2>1, <3>3, Zenon
    <3>4. QED
      BY <3>2, <3>3
  <2>4. Len(eAsked') \in Nat /\ Len(eAsked) <= Len(eAsked')
    BY <2>1, ConnectorTyped
  <2>5. QED
    BY <2>3, <2>4, Zenon
<1>5. CASE E!Asks
  <2>1. mail \in Mails /\ eAsked' = Append(eAsked, Fresh)
    BY <1>5 DEF E!Asks, Fresh, E!TodoInv
  <2>2. QED
    BY <1>2, <2>1
<1>6. CASE E!Acks
  <2>1. eRequest \in 1..Len(eAsked) /\ eAsked' = [eAsked EXCEPT ![eRequest].acked = TRUE]
    BY <1>6 DEF E!Acks, E!RequestInv, E!Waiting
  <2>2. QED
    BY <1>3, <2>1
<1>7. CASE E!CallFails
  <2>1. \/ UNCHANGED eAsked
        \/ pc \in {"askTriage", "askReply"} /\ eAsked' = Append(eAsked, Fresh)
        \/ pc \in {"ackTriage", "ackReply"} /\ eAsked' = [eAsked EXCEPT ![eRequest].acked = TRUE]
    BY <1>7 DEF E!CallFails, Fresh
  <2>2. pc \in {"askTriage", "askReply"} => mail \in Mails
    BY DEF E!TodoInv
  <2>3. pc \in {"ackTriage", "ackReply"} => eRequest \in 1..Len(eAsked)
    BY DEF E!RequestInv, E!Waiting
  <2> HIDE DEF Goal
  <2>4. CASE UNCHANGED eAsked
    BY <1>1, <2>4 DEF Goal
  <2>5. CASE pc \in {"askTriage", "askReply"} /\ eAsked' = Append(eAsked, Fresh)
    BY <1>2, <2>2, <2>5 DEF Goal
  <2>6. CASE pc \in {"ackTriage", "ackReply"} /\ eAsked' = [eAsked EXCEPT ![eRequest].acked = TRUE]
    BY <1>3, <2>3, <2>6 DEF Goal
  <2>7. QED
    BY <2>1, <2>4, <2>5, <2>6 
<1>8. ASSUME NEW j \in 1..Len(eAsked), E!Decide(j) PROVE Goal
  <2>1. PICK v \in {"approve", "reject"} : eAsked' = [eAsked EXCEPT ![j].verdict = v]
    BY <1>8 DEF E!Decide, E!Verdicts
  <2>2. eAsked[j].verdict = None
    BY <1>8 DEF E!Decide
  <2> HIDE DEF Goal
  <2>3. QED
    BY <1>4, <2>1, <2>2
<1>9. \/ UNCHANGED eAsked \/ E!Asks \/ E!Acks \/ E!CallFails
      \/ \E j \in 1..Len(eAsked) : E!Decide(j)
  BY DEF E!Next, eVars, E!Register, E!Connected, E!SocketCloses, E!Rival, E!NextMail, E!Hears,
         E!TimesOut, E!Sends, E!Marks, E!Dies
<1> HIDE DEF Goal
<1>10. Goal
  BY <1>1, <1>5, <1>6, <1>7, <1>8, <1>9 DEF Goal
<1>11. QED
  BY <1>10 DEF Goal

\* The instance counts as everyone does.
LEMMA CountsAgree == ASSUME NEW s PROVE E!Cardinality(s) = Cardinality(s)
BY DEF E!Cardinality, Cardinality

\* So its answers stay, and can be counted.
LEMMA RepliesAreFinite ==
  ASSUME E!TypeOK, NEW m \in Mails
  PROVE  /\ IsFiniteSet(E!ApprovedReplies(m)) /\ Cardinality(E!ApprovedReplies(m)) \in Nat
         /\ E!ApprovedReplies(m) \subseteq 1..Len(eAsked)
<1>1. E!ApprovedReplies(m) \subseteq 1..Len(eAsked)
  BY DEF E!ApprovedReplies, E!Answered
<1>2. IsFiniteSet(1..Len(eAsked))
  BY FS_Interval, ConnectorTyped
<1>3. QED
  BY <1>1, <1>2, FS_Subset, FS_CardinalityType

LEMMA AnswersStay ==
  ASSUME E!TypeOK, E!RequestInv, E!TodoInv, [E!Next]_eVars, NEW m \in Mails,
         NEW kinds \in SUBSET {"approve", "reject"}
  PROVE  E!Answered(m, kinds) \subseteq E!Answered(m, kinds)'
<1>1. SUFFICES ASSUME NEW i \in 1..Len(eAsked), eAsked[i].mail = m, eAsked[i].verdict \in kinds, eAsked[i].acked
               PROVE  i \in 1..Len(eAsked') /\ eAsked'[i].mail = m /\ eAsked'[i].verdict \in kinds /\ eAsked'[i].acked
  BY DEF E!Answered
<1>2. eAsked[i].verdict # None
  BY <1>1, NoneIsNothing
<1>3. i \in 1..Len(eAsked')
  BY AskedGrow, ConnectorTyped
<1>4. eAsked'[i].mail = m /\ eAsked'[i].verdict \in kinds
  BY <1>1, <1>2, AskedGrow
<1>5. eAsked'[i].acked
  BY <1>1, AskedGrow, Zenon
<1>6. QED
  BY <1>3, <1>4, <1>5

LEMMA RepliesGrow ==
  ASSUME E!TypeOK, E!TypeOK', E!RequestInv, E!TodoInv, [E!Next]_eVars, NEW m \in Mails
  PROVE  /\ E!ApprovedReplies(m) \subseteq E!ApprovedReplies(m)'
         /\ Cardinality(E!ApprovedReplies(m)') \in Nat
         /\ Cardinality(E!ApprovedReplies(m)) <= Cardinality(E!ApprovedReplies(m)')
         /\ \A x \in E!ApprovedReplies(m)' : x \notin E!ApprovedReplies(m) =>
              Cardinality(E!ApprovedReplies(m)) + 1 <= Cardinality(E!ApprovedReplies(m)')
<1> DEFINE before == E!ApprovedReplies(m)
           after == E!ApprovedReplies(m)'
<1>1. before \subseteq after
  <2>1. E!Answered(m, {"approve"}) \subseteq E!Answered(m, {"approve"})'
    BY AnswersStay
  <2>2. \A i \in before : i \in 1..Len(eAsked) /\ eAsked'[i].stage = eAsked[i].stage
    BY RepliesAreFinite, AskedGrow
  <2>3. QED
    BY <2>1, <2>2 DEF E!ApprovedReplies
<1>2. IsFiniteSet(before) /\ IsFiniteSet(after) /\ Cardinality(before) \in Nat /\ Cardinality(after) \in Nat
  <2>1. after \subseteq 1..Len(eAsked')
    BY DEF E!ApprovedReplies, E!Answered
  <2>2. IsFiniteSet(1..Len(eAsked'))
    BY FS_Interval, AskedGrow
  <2>3. IsFiniteSet(after) /\ Cardinality(after) \in Nat
    BY <2>1, <2>2, FS_Subset, FS_CardinalityType
  <2>4. QED
    BY <2>3, RepliesAreFinite
<1> HIDE DEF before, after
<1>3. Cardinality(before) <= Cardinality(after)
  BY <1>1, <1>2, FS_Subset
<1>4. ASSUME NEW x \in after, x \notin before PROVE Cardinality(before) + 1 <= Cardinality(after)
  <2>1. Cardinality(before \cup {x}) = Cardinality(before) + 1
    BY <1>2, <1>4, FS_AddElement
  <2>2. before \cup {x} \subseteq after
    BY <1>1, <1>4
  <2>3. Cardinality(before \cup {x}) <= Cardinality(after)
    BY <1>2, <2>2, FS_Subset
  <2>4. QED
    BY <2>1, <2>3
<1>5. QED
  BY <1>1, <1>2, <1>3, <1>4 DEF before, after

LEMMA RequestStep ==
  ASSUME E!TypeOK, E!RequestInv, E!TodoInv, [E!Next]_eVars
  PROVE  E!RequestInv'
<1> DEFINE Heard == \A i \in received' : eAsked'[i].verdict # None
<1>1. received' \subseteq received => Heard
  BY AskedGrow, ConnectorTyped DEF E!RequestInv
<1>2. ASSUME received' \subseteq received, pc' \notin E!Waiting \cup {"send", "mark"} PROVE E!RequestInv'
  BY <1>1, <1>2 DEF E!RequestInv, E!Waiting
<1>3. CASE E!Register
  BY <1>2, <1>3 DEF E!Register, E!Waiting
<1>4. CASE E!Connected
  BY <1>2, <1>4 DEF E!Connected, E!Waiting
<1>5. CASE E!NextMail
  BY <1>2, <1>5 DEF E!NextMail, E!EndsRun, E!Waiting
<1>6. CASE E!TimesOut \/ E!CallFails \/ E!Dies
  BY <1>2, <1>6 DEF E!TimesOut, E!CallFails, E!Dies, E!EndsRun, E!Waiting
<1>7. CASE E!Marks
  BY <1>2, <1>7 DEF E!Marks, E!Waiting
<1>8. CASE UNCHANGED <<pc, mail, eRequest, eAsked, received>>
  BY <1>8 DEF E!RequestInv, E!Stage
<1>9. CASE E!SocketCloses \/ E!Rival \/ UNCHANGED eVars
  BY <1>8, <1>9 DEF E!SocketCloses, E!Rival, E!here, eVars
<1>10. CASE E!Asks
  <2>1. eAsked' = Append(eAsked, Fresh) /\ mail \in Mails
    BY <1>10 DEF E!Asks, Fresh, E!TodoInv
  <2>2. Len(eAsked') = Len(eAsked) + 1 /\ eAsked'[Len(eAsked) + 1] = Fresh
    BY <2>1, AskedAdded
  <2>3. eRequest' = Len(eAsked) + 1 /\ mail' = mail /\ received' = received
    BY <1>10 DEF E!Asks
  <2>4. eRequest' \in 1..Len(eAsked') /\ eAsked'[eRequest'] = Fresh
    BY <2>2, <2>3, ConnectorTyped
  <2>5. pc' = IF E!Stage = "triage" THEN "awaitTriage" ELSE "awaitReply"
    BY <1>10 DEF E!Asks
  <2>6. E!Stage' = E!Stage
    BY <2>5 DEF E!Stage
  <2>7. Fresh.mail = mail /\ Fresh.stage = E!Stage /\ ~Fresh.acked
    BY DEF Fresh
  <2>8. eAsked'[eRequest'].mail = mail' /\ eAsked'[eRequest'].stage = E!Stage' /\ ~eAsked'[eRequest'].acked
    BY <2>3, <2>4, <2>6, <2>7, Zenon
  <2>9. pc' \notin {"ackTriage", "ackReply"}
    BY <2>5
  <2>10. Heard
    BY <1>1, <2>3
  <2>11. QED
    BY <2>4, <2>8, <2>9, <2>10 DEF E!RequestInv
<1>11. CASE E!Hears
  <2>1. eAsked[eRequest].verdict # None
    BY <1>11 DEF E!Hears, E!Knows, E!RequestInv
  <2>2. UNCHANGED <<mail, eRequest, eAsked, received>>
    BY <1>11 DEF E!Hears, E!here
  <2>3. pc \in {"awaitTriage", "awaitReply"} /\ pc' = IF E!Stage = "triage" THEN "ackTriage" ELSE "ackReply"
    BY <1>11 DEF E!Hears
  <2>4. E!Stage' = E!Stage
    BY <2>3 DEF E!Stage
  <2>5. pc \in E!Waiting
    BY <2>3 DEF E!Waiting
  <2>6. /\ eRequest \in 1..Len(eAsked) /\ eAsked[eRequest].mail = mail
        /\ eAsked[eRequest].stage = E!Stage /\ ~eAsked[eRequest].acked
    BY <2>5 DEF E!RequestInv
  <2>7. Heard
    BY <1>1, <2>2
  <2>8. QED
    BY <2>1, <2>2, <2>4, <2>6, <2>7 DEF E!RequestInv
<1>12. CASE E!Acks \/ E!Sends
  <2>1. UNCHANGED <<mail, eRequest, received>> /\ pc \in E!Waiting \cup {"send", "mark"}
    BY <1>12 DEF E!Acks, E!Sends, E!here, E!Waiting
  <2>2. pc' \in {"mark", "askReply", "send"}
    BY <1>12 DEF E!Acks, E!Sends, E!After
  <2>3. eRequest \in 1..Len(eAsked) /\ eAsked[eRequest].mail = mail
    BY <2>1 DEF E!RequestInv
  <2>4. eRequest \in 1..Len(eAsked') /\ eAsked'[eRequest].mail = mail
    BY <2>3, AskedGrow, ConnectorTyped
  <2>5. Heard /\ pc' \notin E!Waiting
    BY <1>1, <2>1, <2>2 DEF E!Waiting
  <2>6. pc' \notin {"ackTriage", "ackReply"}
    BY <2>2
  <2>7. QED
    BY <2>1, <2>4, <2>5, <2>6 DEF E!RequestInv
<1>13. ASSUME NEW j \in 1..Len(eAsked), E!Decide(j) PROVE E!RequestInv'
  <2>1. PICK v \in {"approve", "reject"} : eAsked' = [eAsked EXCEPT ![j].verdict = v]
    BY <1>13 DEF E!Decide, E!Verdicts
  <2>2. /\ Len(eAsked') = Len(eAsked) /\ \A i \in 1..Len(eAsked) : i # j => eAsked'[i] = eAsked[i]
        /\ eAsked'[j].verdict = v /\ eAsked'[j].mail = eAsked[j].mail
        /\ eAsked'[j].stage = eAsked[j].stage /\ eAsked'[j].acked = eAsked[j].acked
    BY <2>1, AskedDecided
  <2>3. UNCHANGED <<pc, mail, eRequest>> /\ received' \subseteq received \cup {j}
    BY <1>13 DEF E!Decide, E!here
  <2>4. Heard
    BY <2>2, <2>3, AskedGrow, NoneIsNothing, ConnectorTyped DEF E!RequestInv
  <2>5. ASSUME eRequest \in 1..Len(eAsked)
        PROVE  /\ eAsked'[eRequest].mail = eAsked[eRequest].mail
               /\ eAsked'[eRequest].stage = eAsked[eRequest].stage
               /\ eAsked'[eRequest].acked = eAsked[eRequest].acked
               /\ eAsked[eRequest].verdict # None => eAsked'[eRequest].verdict # None
    <3>1. CASE eRequest = j
      BY <2>2, <3>1, NoneIsNothing
    <3>2. CASE eRequest # j
      BY <2>2, <2>5, <3>2
    <3>3. QED
      BY <3>1, <3>2
  <2>6. E!Stage' = E!Stage
    BY <2>3 DEF E!Stage
  <2>7. pc \in E!Waiting \cup {"send", "mark"} =>
          eRequest \in 1..Len(eAsked) /\ eAsked'[eRequest].mail = mail
    BY <2>5 DEF E!RequestInv
  <2>8. pc \in E!Waiting => eAsked'[eRequest].stage = E!Stage /\ ~eAsked'[eRequest].acked
    BY <2>5, <2>7 DEF E!RequestInv
  <2>9. pc \in {"ackTriage", "ackReply"} => eAsked'[eRequest].verdict # None
    BY <2>5, <2>7 DEF E!RequestInv, E!Waiting
  <2>10. QED
    BY <2>2, <2>3, <2>4, <2>6, <2>7, <2>8, <2>9 DEF E!RequestInv
<1>14. QED
  BY <1>3, <1>4, <1>5, <1>6, <1>7, <1>9, <1>10, <1>11, <1>12, <1>13 DEF E!Next

LEMMA TodoStep ==
  ASSUME E!TypeOK, E!TodoInv, [E!Next]_eVars
  PROVE  E!TodoInv'
<1>1. CASE E!Register \/ E!TimesOut \/ E!CallFails \/ E!Dies
  BY <1>1 DEF E!Register, E!TimesOut, E!CallFails, E!Dies, E!EndsRun, E!TodoInv
<1>2. CASE E!Connected
  BY <1>2 DEF E!Connected, E!mailbox, E!TodoInv
<1>3. CASE E!NextMail
  BY <1>3 DEF E!NextMail, E!EndsRun, E!mailbox, E!TodoInv, E!TypeOK
<1>4. CASE E!Marks
  BY <1>4 DEF E!Marks, E!here, E!TodoInv
<1>5. CASE E!Asks \/ E!Hears \/ E!Acks \/ E!Sends
  <2>1. pc \notin {"ended", "connect", "next"} /\ UNCHANGED <<mail, todo, processed>>
    BY <1>5 DEF E!Asks, E!Hears, E!Acks, E!Sends, E!here, E!mailbox
  <2>2. QED
    BY <2>1 DEF E!TodoInv
<1>6. ASSUME NEW j \in 1..Len(eAsked), E!Decide(j) PROVE E!TodoInv'
  BY <1>6 DEF E!Decide, E!here, E!mailbox, E!TodoInv
<1>7. CASE E!SocketCloses \/ E!Rival \/ UNCHANGED eVars
  BY <1>7 DEF E!SocketCloses, E!Rival, E!here, E!mailbox, eVars, E!TodoInv
<1>8. QED
  BY <1>1, <1>2, <1>3, <1>4, <1>5, <1>6, <1>7 DEF E!Next

LEMMA SentCounts ==
  ASSUME E!TypeOK, NEW m \in Mails
  PROVE  sent[m] \in Nat /\ torn[m] \in Nat /\ E!Promised(m) \in 0..1 /\ E!Excused(m) \in 0..1
BY DEF E!TypeOK, E!Promised, E!Excused

\* The request of the run keeps its decision.
LEMMA DecisionStays ==
  ASSUME E!TypeOK, E!RequestInv, E!TodoInv, [E!Next]_eVars, pc \in {"send", "mark"}
  PROVE  /\ eAsked[eRequest].verdict # None => eAsked'[eRequest].verdict = eAsked[eRequest].verdict
         /\ eAsked[eRequest].acked => eAsked'[eRequest].acked
<1>1. eRequest \in 1..Len(eAsked)
  BY DEF E!RequestInv
<1>2. QED
  BY <1>1, AskedGrow, Zenon

\* A step that sends nothing and promises nothing, and after which nobody is worse off.
LEMMA SilentStep ==
  ASSUME E!TypeOK, E!TypeOK', E!RequestInv, E!TodoInv, E!SentInv, [E!Next]_eVars, sent' = sent,
         pc' \notin {"send", "mark"}, processed \subseteq processed',
         \A m \in Mails : torn'[m] + E!Excused(m)' >= torn[m] + E!Excused(m)
  PROVE  E!SentInv'
<1>1. ASSUME NEW m \in Mails
      PROVE  sent'[m] + E!Promised(m)' <= Cardinality(E!ApprovedReplies(m)') /\ sent'[m] <= torn'[m] + E!Excused(m)'
  <2>1. E!Promised(m)' = 0
    BY DEF E!Promised
  <2>2. Cardinality(E!ApprovedReplies(m)) <= Cardinality(E!ApprovedReplies(m)')
    BY RepliesGrow
  <2>3. sent[m] <= Cardinality(E!ApprovedReplies(m))
    <3>1. sent[m] + E!Promised(m) <= Cardinality(E!ApprovedReplies(m))
      BY CountsAgree DEF E!SentInv
    <3>2. sent[m] \in Nat /\ E!Promised(m) \in 0..1 /\ Cardinality(E!ApprovedReplies(m)) \in Nat
      BY SentCounts, RepliesAreFinite
    <3>3. QED
      BY <3>1, <3>2
  <2>4. Cardinality(E!ApprovedReplies(m)) \in Nat /\ Cardinality(E!ApprovedReplies(m)') \in Nat
    BY RepliesAreFinite, RepliesGrow
  <2>5. sent[m] <= torn[m] + E!Excused(m)
    BY DEF E!SentInv
  <2>6. sent[m] \in Nat /\ torn[m] \in Nat /\ torn'[m] \in Nat /\ E!Excused(m) \in 0..1 /\ E!Excused(m)' \in 0..1
    BY SentCounts DEF E!TypeOK, E!Excused
  <2>7. sent[m] <= Cardinality(E!ApprovedReplies(m)')
    BY <2>2, <2>3, <2>4, <2>6
  <2>8. sent[m] <= torn'[m] + E!Excused(m)'
    BY <2>5, <2>6
  <2>9. QED
    BY <2>1, <2>6, <2>7, <2>8
<1>2. QED
  BY <1>1, CountsAgree DEF E!SentInv

\* A step that leaves the run where it is.
LEMMA ResidentStep ==
  ASSUME E!TypeOK, E!TypeOK', E!RequestInv, E!TodoInv, E!SentInv, [E!Next]_eVars,
         UNCHANGED <<pc, mail, eRequest, processed, sent, torn>>
  PROVE  E!SentInv'
<1>1. pc \in {"send", "mark"} => eAsked[eRequest].verdict \in {"approve", "reject"}
  BY DEF E!SentInv, E!Verdicts
<1>2. pc \in {"send", "mark"} => eAsked'[eRequest].verdict = eAsked[eRequest].verdict
  BY <1>1, DecisionStays, NoneIsNothing
<1>3. pc = "mark" /\ eAsked[eRequest].acked => eAsked'[eRequest].acked
  BY DecisionStays, Zenon
<1>4. pc' = "send" => eAsked'[eRequest'].verdict = "approve"
  BY <1>2 DEF E!SentInv
<1>5. ASSUME pc' = "mark"
      PROVE  \/ eAsked'[eRequest'].verdict = "approve" /\ sent'[mail'] > 0
             \/ eAsked'[eRequest'].verdict \in E!Verdicts \ {"approve"} /\ eAsked'[eRequest'].acked
  <2>1. \/ eAsked[eRequest].verdict = "approve" /\ sent[mail] > 0
        \/ eAsked[eRequest].verdict \in E!Verdicts \ {"approve"} /\ eAsked[eRequest].acked
    BY <1>5 DEF E!SentInv
  <2>2. eAsked'[eRequest'].verdict = eAsked[eRequest].verdict /\ sent'[mail'] = sent[mail]
    BY <1>2, <1>5
  <2>3. eAsked[eRequest].acked => eAsked'[eRequest'].acked
    BY <1>3, <1>5
  <2>4. QED
    BY <2>1, <2>2, <2>3
<1>6. ASSUME NEW m \in Mails
      PROVE  sent'[m] + E!Promised(m)' <= Cardinality(E!ApprovedReplies(m)') /\ sent'[m] <= torn'[m] + E!Excused(m)'
  <2>1. E!Promised(m)' = E!Promised(m)
    BY DEF E!Promised
  <2>2. E!Excused(m)' = E!Excused(m)
    BY <1>2 DEF E!Excused
  <2>3. sent[m] + E!Promised(m) <= Cardinality(E!ApprovedReplies(m)) /\ sent[m] <= torn[m] + E!Excused(m)
    BY CountsAgree DEF E!SentInv
  <2>4. /\ Cardinality(E!ApprovedReplies(m)) <= Cardinality(E!ApprovedReplies(m)')
        /\ Cardinality(E!ApprovedReplies(m)) \in Nat /\ Cardinality(E!ApprovedReplies(m)') \in Nat
    BY RepliesGrow, RepliesAreFinite
  <2>5. sent[m] \in Nat /\ E!Promised(m) \in 0..1
    BY SentCounts
  <2>6. QED
    BY <2>1, <2>2, <2>3, <2>4, <2>5
<1>7. QED
  BY <1>4, <1>5, <1>6, CountsAgree DEF E!SentInv

\* An acknowledged approval of a reply is one that was not counted.
LEMMA AcksCount ==
  ASSUME E!TypeOK, E!TypeOK', E!RequestInv, E!TodoInv, E!SentInv, [E!Next]_eVars, E!Acks
  PROVE  E!SentInv'
<1>1. /\ eRequest \in 1..Len(eAsked) /\ eAsked[eRequest].mail = mail /\ mail \in Mails
      /\ eAsked[eRequest].stage = E!Stage /\ ~eAsked[eRequest].acked
      /\ eAsked[eRequest].verdict # None
  BY DEF E!Acks, E!RequestInv, E!Waiting, E!TodoInv
<1>2. /\ eAsked' = [eAsked EXCEPT ![eRequest].acked = TRUE]
      /\ UNCHANGED <<mail, eRequest, processed, sent, torn>>
      /\ pc \in {"ackTriage", "ackReply"} /\ pc' = E!After(eAsked[eRequest].verdict)
  BY DEF E!Acks, E!here, E!mailbox
<1>3. /\ Len(eAsked') = Len(eAsked) /\ eAsked'[eRequest].mail = mail
      /\ eAsked'[eRequest].stage = E!Stage /\ eAsked'[eRequest].verdict = eAsked[eRequest].verdict
  BY <1>1, <1>2, AskedAcked
<1>4. eAsked'[eRequest].acked
  BY <1>1, <1>2, AskedAcked, Zenon
<1>5. eAsked[eRequest].verdict \in {"approve", "reject"}
  BY <1>1, ConnectorTyped
<1>6. /\ pc' = "send" => eAsked[eRequest].verdict = "approve" /\ E!Stage = "reply"
      /\ pc' = "mark" => eAsked[eRequest].verdict # "approve"
      /\ pc' \in {"mark", "askReply", "send"}
  BY <1>2 DEF E!After, E!Stage
<1>7. ASSUME NEW m \in Mails
      PROVE  sent'[m] + E!Promised(m)' <= Cardinality(E!ApprovedReplies(m)') /\ sent'[m] <= torn'[m] + E!Excused(m)'
  <2>1. E!Promised(m) = 0 /\ E!Excused(m)' = E!Excused(m)
    BY <1>2, <1>3, <1>6 DEF E!Promised, E!Excused
  <2>2. sent[m] + 0 <= Cardinality(E!ApprovedReplies(m)) /\ sent[m] <= torn[m] + E!Excused(m)
    BY <2>1, CountsAgree DEF E!SentInv
  <2>3. /\ Cardinality(E!ApprovedReplies(m)) <= Cardinality(E!ApprovedReplies(m)')
        /\ Cardinality(E!ApprovedReplies(m)) \in Nat /\ Cardinality(E!ApprovedReplies(m)') \in Nat
    BY RepliesGrow, RepliesAreFinite
  <2>4. sent[m] \in Nat
    BY SentCounts
  <2>5. CASE pc' = "send" /\ m = mail
    <3>1. eRequest \in E!ApprovedReplies(m)'
      BY <1>1, <1>2, <1>3, <1>4, <1>6, <2>5 DEF E!ApprovedReplies, E!Answered
    <3>2. eRequest \notin E!ApprovedReplies(m)
      BY <1>1 DEF E!ApprovedReplies, E!Answered
    <3>3. Cardinality(E!ApprovedReplies(m)) + 1 <= Cardinality(E!ApprovedReplies(m)')
      BY <3>1, <3>2, RepliesGrow
    <3>4. E!Promised(m)' = 1
      BY <1>2, <2>5 DEF E!Promised
    <3>5. QED
      BY <1>2, <2>1, <2>2, <2>3, <2>4, <3>3, <3>4
  <2>6. CASE ~(pc' = "send" /\ m = mail)
    <3>1. E!Promised(m)' = 0
      BY <1>2, <2>6 DEF E!Promised
    <3>2. QED
      BY <1>2, <2>1, <2>2, <2>3, <2>4, <3>1
  <2>7. QED
    BY <2>5, <2>6
<1>8. pc' = "send" => eAsked'[eRequest'].verdict = "approve"
  BY <1>2, <1>3, <1>6
<1>9. pc' = "mark" => eAsked'[eRequest'].verdict \in E!Verdicts \ {"approve"} /\ eAsked'[eRequest'].acked
  BY <1>2, <1>3, <1>4, <1>5, <1>6 DEF E!Verdicts
<1>10. QED
  BY <1>7, <1>8, <1>9, CountsAgree DEF E!SentInv

LEMMA SendsCount ==
  ASSUME E!TypeOK, E!TypeOK', E!RequestInv, E!TodoInv, E!SentInv, [E!Next]_eVars, E!Sends
  PROVE  E!SentInv'
<1>1. /\ mail \in Mails /\ mail \notin processed /\ pc = "send" /\ pc' = "mark"
      /\ sent' = [sent EXCEPT ![mail] = @ + 1]
      /\ UNCHANGED <<mail, eRequest, eAsked, processed, torn>>
      /\ eAsked[eRequest].verdict = "approve"
  BY DEF E!Sends, E!here, E!TodoInv, E!SentInv
<1>2. ASSUME NEW m \in Mails
      PROVE  sent'[m] + E!Promised(m)' <= Cardinality(E!ApprovedReplies(m)') /\ sent'[m] <= torn'[m] + E!Excused(m)'
  <2>1. E!Promised(m)' = 0 /\ E!Promised(m) = IF m = mail THEN 1 ELSE 0
    BY <1>1 DEF E!Promised
  <2>2. sent'[m] = sent[m] + E!Promised(m)
    BY <1>1, <2>1 DEF E!TypeOK
  <2>3. E!Excused(m)' = E!Excused(m) + E!Promised(m)
    BY <1>1, <2>1 DEF E!Excused
  <2>4. sent[m] + E!Promised(m) <= Cardinality(E!ApprovedReplies(m)) /\ sent[m] <= torn[m] + E!Excused(m)
    BY CountsAgree DEF E!SentInv
  <2>5. /\ Cardinality(E!ApprovedReplies(m)) <= Cardinality(E!ApprovedReplies(m)')
        /\ Cardinality(E!ApprovedReplies(m)) \in Nat /\ Cardinality(E!ApprovedReplies(m)') \in Nat
    BY RepliesGrow, RepliesAreFinite
  <2>6. sent[m] \in Nat /\ torn[m] \in Nat /\ E!Promised(m) \in 0..1 /\ E!Excused(m) \in 0..1
    BY SentCounts
  <2>7. QED
    BY <1>1, <2>1, <2>2, <2>3, <2>4, <2>5, <2>6
<1>3. sent'[mail'] > 0 /\ eAsked'[eRequest'].verdict = "approve"
  BY <1>1 DEF E!TypeOK
<1>4. QED
  BY <1>1, <1>2, <1>3, CountsAgree DEF E!SentInv

LEMMA SentStep ==
  ASSUME E!TypeOK, E!TypeOK', E!RequestInv, E!TodoInv, E!SentInv, [E!Next]_eVars
  PROVE  E!SentInv'
<1>1. ASSUME pc # "mark", pc' \notin {"send", "mark"}, UNCHANGED <<processed, sent, torn>>
      PROVE  E!SentInv'
  <2>1. \A m \in Mails : E!Excused(m)' = E!Excused(m)
    BY <1>1 DEF E!Excused
  <2>2. \A m \in Mails : torn'[m] + E!Excused(m)' >= torn[m] + E!Excused(m)
    BY <1>1, <2>1, SentCounts
  <2>3. QED
    BY <1>1, <2>2, SilentStep
<1>2. CASE E!Register \/ E!Connected
  BY <1>1, <1>2 DEF E!Register, E!Connected, E!mailbox
<1>3. CASE E!NextMail \/ E!Asks \/ E!Hears
  BY <1>1, <1>3 DEF E!NextMail, E!Asks, E!Hears, E!EndsRun, E!mailbox
<1>4. CASE E!TimesOut \/ E!CallFails
  BY <1>1, <1>4 DEF E!TimesOut, E!CallFails, E!EndsRun, E!mailbox
<1>5. CASE E!Acks
  BY <1>5, AcksCount
<1>6. CASE E!Sends
  BY <1>6, SendsCount
<1>7. CASE E!Marks
  <2>1. /\ pc = "mark" /\ pc' = "next" /\ processed' = processed \cup {mail}
        /\ UNCHANGED <<mail, eRequest, eAsked, sent, torn>>
    BY <1>7 DEF E!Marks, E!here
  <2>2. \A m \in Mails : E!Excused(m)' >= E!Excused(m)
    BY <2>1 DEF E!Excused
  <2>3. \A m \in Mails : torn'[m] + E!Excused(m)' >= torn[m] + E!Excused(m)
    <3>1. TAKE m \in Mails
    <3>2. torn[m] \in Nat /\ E!Excused(m) \in 0..1 /\ E!Excused(m)' \in 0..1
      BY SentCounts DEF E!Excused
    <3>3. QED
      BY <2>1, <2>2, <3>2
  <2>4. QED
    BY <2>1, <2>3, SilentStep
<1>8. CASE E!Dies
  <2>1. pc' = "ended" /\ UNCHANGED <<mail, eRequest, eAsked, processed, sent>>
    BY <1>8 DEF E!Dies, E!EndsRun, E!here
  <2>2. torn' = IF pc = "mark" /\ eAsked[eRequest].verdict = "approve"
                THEN [torn EXCEPT ![mail] = @ + 1] ELSE torn
    BY <1>8 DEF E!Dies
  <2>3. ASSUME NEW m \in Mails PROVE torn'[m] + E!Excused(m)' >= torn[m] + E!Excused(m)
    <3>1. torn[m] \in Nat /\ E!Excused(m) \in 0..1 /\ E!Excused(m)' \in 0..1
      BY SentCounts DEF E!Excused
    <3>2. CASE m \in processed \/ ~(pc = "mark" /\ m = mail /\ eAsked[eRequest].verdict = "approve")
      <4>1. E!Excused(m)' = E!Excused(m)
        BY <2>1, <3>2 DEF E!Excused
      <4>2. torn'[m] = torn[m] \/ torn'[m] = torn[m] + 1
        BY <2>2 DEF E!TypeOK
      <4>3. QED
        BY <3>1, <4>1, <4>2
    <3>3. CASE pc = "mark" /\ m = mail /\ eAsked[eRequest].verdict = "approve"
      <4>1. torn'[m] = torn[m] + 1
        BY <2>2, <3>3 DEF E!TypeOK
      <4>2. QED
        BY <3>1, <4>1
    <3>4. QED
      BY <3>2, <3>3
  <2>4. QED
    BY <2>1, <2>3, SilentStep
<1>9. CASE E!SocketCloses \/ E!Rival \/ UNCHANGED eVars
  BY <1>9, ResidentStep DEF E!SocketCloses, E!Rival, E!here, E!mailbox, eVars
<1>10. ASSUME NEW j \in 1..Len(eAsked), E!Decide(j) PROVE E!SentInv'
  BY <1>10, ResidentStep DEF E!Decide, E!here, E!mailbox
<1>11. QED
  BY <1>2, <1>3, <1>4, <1>5, <1>6, <1>7, <1>8, <1>9, <1>10 DEF E!Next

\* What settled a mail that is marked stays.
LEMMA SettledStep ==
  ASSUME E!TypeOK, E!RequestInv, E!TodoInv, E!SentInv, E!MarkedIsSettled, [E!Next]_eVars
  PROVE  E!MarkedIsSettled'
<1>1. \A m \in Mails : sent[m] > 0 => sent'[m] > 0
  <2>1. sent' = sent \/ sent' = [sent EXCEPT ![mail] = @ + 1]
    BY DEF E!Next, E!Register, E!Connected, E!SocketCloses, E!Rival, E!NextMail, E!Asks, E!Hears,
           E!TimesOut, E!Acks, E!Sends, E!Marks, E!CallFails, E!Dies, E!Decide, E!mailbox, eVars
  <2>2. QED
    BY <2>1 DEF E!TypeOK
<1>2. \A m \in Mails : E!Answered(m, {"reject"}) \subseteq E!Answered(m, {"reject"})'
  BY AnswersStay
<1>3. E!Verdicts \ {"approve"} = {"reject"}
  BY DEF E!Verdicts
<1>4. ASSUME NEW m \in processed'
      PROVE  sent'[m] > 0 \/ E!Answered(m, {"reject"})' # {}
  <2>1. CASE m \in processed
    BY <1>1, <1>2, <1>3, <2>1 DEF E!MarkedIsSettled, E!TypeOK
  <2>2. CASE m \notin processed
    <3>1. E!Marks /\ m = mail
      BY <1>4, <2>2 DEF E!Next, E!Register, E!Connected, E!SocketCloses, E!Rival, E!NextMail, E!Asks,
           E!Hears, E!TimesOut, E!Acks, E!Sends, E!Marks, E!CallFails, E!Dies, E!Decide, E!mailbox, eVars
    <3>2. /\ pc = "mark" /\ mail \in Mails /\ UNCHANGED <<eAsked, sent>>
      BY <3>1 DEF E!Marks, E!here, E!TodoInv
    <3>3. CASE sent[mail] > 0
      BY <3>1, <3>2, <3>3
    <3>4. CASE eAsked[eRequest].verdict \in E!Verdicts \ {"approve"} /\ eAsked[eRequest].acked
      <4>1. eRequest \in 1..Len(eAsked) /\ eAsked[eRequest].mail = mail
        BY <3>2 DEF E!RequestInv
      <4>2. eRequest \in E!Answered(m, {"reject"})
        BY <1>3, <3>1, <3>4, <4>1 DEF E!Answered
      <4>3. QED
        BY <1>2, <3>1, <3>2, <4>2
    <3>5. QED
      BY <3>2, <3>3, <3>4 DEF E!SentInv
  <2>3. QED
    BY <2>1, <2>2
<1>5. QED
  BY <1>3, <1>4 DEF E!MarkedIsSettled

-----------------------------------------------------------------------------
\* The part's invariant, for its behaviours.
ConnectorPart ==
  part = "connector" => E!TypeOK /\ E!RequestInv /\ E!TodoInv /\ E!SentInv /\ E!MarkedIsSettled

LEMMA ConnectorAlways == Spec => []ConnectorPart
<1>1. Init => ConnectorPart
  <2> SUFFICES ASSUME E!Init PROVE E!TypeOK /\ E!RequestInv /\ E!TodoInv /\ E!SentInv /\ E!MarkedIsSettled
    BY ConnectorBegins DEF ConnectorPart
  <2>1. eAsked = <<>> /\ Len(eAsked) = 0 /\ eAsked \in Seq(E!Request)
    BY DEF E!Init
  <2>2. E!TypeOK
    <3>1. current \in BOOLEAN
      BY DEF E!Init
    <3>2. runs \in 0..MaxRuns /\ eFailures \in 0..MaxFailures /\ Len(eAsked) <= MaxRequests
      BY <2>1, PartBounds, ClientBounds DEF E!Init
    <3>3. sent \in [Mails -> Nat] /\ torn \in [Mails -> Nat]
      BY DEF E!Init
    <3>4. eRequest \in 0..Len(eAsked) /\ received \subseteq 1..Len(eAsked) /\ todo \subseteq Mails
          /\ processed \subseteq Mails /\ mail \in Mails \cup {None}
      BY <2>1 DEF E!Init
    <3>5. pc = "ended" /\ eSocket = "closed"
      BY DEF E!Init
    <3>6. QED
      BY <2>1, <3>1, <3>2, <3>3, <3>4, <3>5 DEF E!TypeOK
  <2>3. E!RequestInv /\ E!TodoInv /\ E!MarkedIsSettled
    BY <2>1 DEF E!Init, E!RequestInv, E!TodoInv, E!MarkedIsSettled, E!Waiting
  <2>4. ASSUME NEW m \in Mails PROVE sent[m] + E!Promised(m) <= Cardinality(E!ApprovedReplies(m))
    <3>1. Cardinality(E!ApprovedReplies(m)) \in Nat
      BY <2>2, RepliesAreFinite
    <3>2. sent[m] = 0 /\ E!Promised(m) = 0
      BY <2>4 DEF E!Init, E!Promised
    <3>3. QED
      BY <3>1, <3>2
  <2>5. \A m \in Mails : sent[m] <= torn[m] + E!Excused(m)
    BY DEF E!Init, E!Excused
  <2>6. E!SentInv
    BY <2>4, <2>5, CountsAgree DEF E!Init, E!SentInv
  <2>7. QED
    BY <2>2, <2>3, <2>6
<1>2. ConnectorPart /\ [Next]_allVars => ConnectorPart'
  <2> SUFFICES ASSUME ConnectorPart, [Next]_allVars, part' = "connector"
               PROVE  E!TypeOK' /\ E!RequestInv' /\ E!TodoInv' /\ E!SentInv' /\ E!MarkedIsSettled'
    BY DEF ConnectorPart
  <2>1. [E!Next]_eVars /\ E!TypeOK /\ E!RequestInv /\ E!TodoInv /\ E!SentInv /\ E!MarkedIsSettled
    BY ConnectorMoves, PartStays DEF ConnectorPart
  <2>2. E!TypeOK'
    BY <2>1, ConnectorTypeStep
  <2>3. QED
    BY <2>1, <2>2, RequestStep, TodoStep, SentStep, SettledStep
<1>3. QED
  BY <1>1, <1>2, PTL DEF Spec

\* No answer is sent without an acknowledged approval of a reply to the mail, one for each time it
\* was sent, nor a second time unless a run died between sending and marking; and a mail is marked
\* only when it was answered or an operator has refused it (email-connector/lib.mjs).
THEOREM ConnectorAlwaysHolds == Spec => []ConnectorHolds
<1>1. ConnectorPart => ConnectorHolds
  <2> SUFFICES ASSUME E!TypeOK, E!SentInv, E!MarkedIsSettled PROVE E!SentAsApproved /\ E!MarkedIsSettled
    BY DEF ConnectorPart, ConnectorHolds
  <2>1. ASSUME NEW m \in Mails PROVE sent[m] <= Cardinality(E!ApprovedReplies(m)) /\ sent[m] <= 1 + torn[m]
    <3>1. sent[m] + E!Promised(m) <= Cardinality(E!ApprovedReplies(m)) /\ sent[m] <= torn[m] + E!Excused(m)
      BY CountsAgree DEF E!SentInv
    <3>2. QED
      BY <3>1, SentCounts, RepliesAreFinite
  <2>2. QED
    BY <2>1, CountsAgree DEF E!SentAsApproved, E!ApprovedReplies
<1>2. QED
  BY <1>1, ConnectorAlways, PTL

-----------------------------------------------------------------------------
LEMMA FilesMove ==
  [Next]_allVars /\ part' = "projects" => [P!Next]_pVars
BY DEF Next, allVars, pVars

LEMMA HooksMove ==
  [Next]_allVars /\ part' = "hooks" => [H!Next]_hVars
BY DEF Next, allVars, hVars

LEMMA FilesAndHooksBegin == Init => P!Init /\ H!Init
BY DEF Init

\* The invariants of the two, for their behaviours.
FilesPart == part = "projects" => P!FilesInvariant
HooksPart == part = "hooks" => H!HooksInvariant

LEMMA FilesAlways == Spec => []FilesPart
<1>1. Init => FilesPart
  BY FilesAndHooksBegin, FilesBegin DEF FilesPart
<1>2. FilesPart /\ [Next]_allVars => FilesPart'
  <2> SUFFICES ASSUME FilesPart, [Next]_allVars, part' = "projects"
               PROVE  P!FilesInvariant'
    BY DEF FilesPart
  <2>1. [P!Next]_pVars /\ P!FilesInvariant
    BY FilesMove, PartStays DEF FilesPart
  <2>2. QED
    BY <2>1, FilesStay
<1>3. QED
  BY <1>1, <1>2, PTL DEF Spec

LEMMA HooksAlways == Spec => []HooksPart
<1>1. Init => HooksPart
  BY FilesAndHooksBegin, HooksBegin DEF HooksPart
<1>2. HooksPart /\ [Next]_allVars => HooksPart'
  <2> SUFFICES ASSUME HooksPart, [Next]_allVars, part' = "hooks"
               PROVE  H!HooksInvariant'
    BY DEF HooksPart
  <2>1. [H!Next]_hVars /\ H!HooksInvariant
    BY HooksMove, PartStays DEF HooksPart
  <2>2. QED
    BY <2>1, HooksStay
<1>3. QED
  BY <1>1, <1>2, PTL DEF Spec

\* As long as no two commands write at once, every order of selections, updates, registrations,
\* commands, crashes and torn reads keeps each registered project, its id and its lanes, and the
\* settings of .env (maestro-server.js, scripts/projects.js, scripts/configure.js). The installer
\* keeps the user's Stop hooks, and the lines of the hook that are not between its markers, as long
\* as both markers are there; what is between them it replaces. While its block is as it was
\* written, it posts once at a commit, unless a line before it ends the hook or it is disabled, and
\* while its command is there, once at the end of a session (scripts/install-maestro-hook.mjs).
THEOREM ProjectFilesAlwaysHold == Spec => []ProjectFilesHold
<1>1. FilesPart /\ HooksPart => ProjectFilesHold
  BY FilesSuffice, HooksSuffice DEF FilesPart, HooksPart, ProjectFilesHold
<1>2. QED
  BY <1>1, FilesAlways, HooksAlways, PTL

-----------------------------------------------------------------------------
(* The screens: the workflow client, the dashboard's panels, consoles,     *)
(* music and address, the merge review and the chain of requests.          *)

LEMMA ScreensBegin ==
  Init => W!Init /\ O!Init /\ K!Init /\ B!Init /\ D!Init /\ V!Init /\ Q!Init
BY DEF Init

\* The invariants of the screens, each for its behaviours.
ClientPart  == part = "client" => W!ClientInvariant
PanelsPart  == part = "ops" => O!PanelInvariant
ConsolePart == part = "console" => K!ConsoleInvariant
MusicPart   == part = "music" => B!MusicInvariant
AddressPart == part = "address" => D!AddressInvariant
ReviewPart  == part = "review" => V!ReviewInvariant
ChainPart   == part = "chain" => Q!ChainInvariant

LEMMA ClientAlways == Spec => []ClientPart
<1>1. Init => ClientPart
  BY ScreensBegin, ClientBegins DEF ClientPart
<1>2. ClientPart /\ [Next]_allVars => ClientPart'
  <2> SUFFICES ASSUME ClientPart, [Next]_allVars, part' = "client"
               PROVE  W!ClientInvariant'
    BY DEF ClientPart
  <2>1. part = "client" /\ W!ClientInvariant
    BY PartStays DEF ClientPart
  <2>2. [W!Next]_wVars
    BY <2>1 DEF Next, allVars, wVars
  <2>3. QED
    BY <2>1, <2>2, ClientStays
<1>3. QED
  BY <1>1, <1>2, PTL DEF Spec

LEMMA PanelsAlways == Spec => []PanelsPart
<1>1. Init => PanelsPart
  BY ScreensBegin, PanelsBegin DEF PanelsPart
<1>2. PanelsPart /\ [Next]_allVars => PanelsPart'
  <2> SUFFICES ASSUME PanelsPart, [Next]_allVars, part' = "ops"
               PROVE  O!PanelInvariant'
    BY DEF PanelsPart
  <2>1. part = "ops" /\ O!PanelInvariant
    BY PartStays DEF PanelsPart
  <2>2. [O!Next]_oVars
    BY <2>1 DEF Next, allVars, oVars
  <2>3. QED
    BY <2>1, <2>2, PanelsStay
<1>3. QED
  BY <1>1, <1>2, PTL DEF Spec

LEMMA ConsoleAlways == Spec => []ConsolePart
<1>1. Init => ConsolePart
  BY ScreensBegin, ConsoleBegin DEF ConsolePart
<1>2. ConsolePart /\ [Next]_allVars => ConsolePart'
  <2> SUFFICES ASSUME ConsolePart, [Next]_allVars, part' = "console"
               PROVE  K!ConsoleInvariant'
    BY DEF ConsolePart
  <2>1. part = "console" /\ K!ConsoleInvariant
    BY PartStays DEF ConsolePart
  <2>2. [K!Next]_kVars
    BY <2>1 DEF Next, allVars, kVars
  <2>3. QED
    BY <2>1, <2>2, ConsoleStays
<1>3. QED
  BY <1>1, <1>2, PTL DEF Spec

LEMMA MusicAlways == Spec => []MusicPart
<1>1. Init => MusicPart
  BY ScreensBegin, MusicBegins DEF MusicPart
<1>2. MusicPart /\ [Next]_allVars => MusicPart'
  <2> SUFFICES ASSUME MusicPart, [Next]_allVars, part' = "music"
               PROVE  B!MusicInvariant'
    BY DEF MusicPart
  <2>1. part = "music" /\ B!MusicInvariant
    BY PartStays DEF MusicPart
  <2>2. [B!Next]_bVars
    BY <2>1 DEF Next, allVars, bVars
  <2>3. QED
    BY <2>1, <2>2, MusicStays
<1>3. QED
  BY <1>1, <1>2, PTL DEF Spec

LEMMA AddressAlways == Spec => []AddressPart
<1>1. Init => AddressPart
  BY ScreensBegin, AddressBegins DEF AddressPart
<1>2. AddressPart /\ [Next]_allVars => AddressPart'
  <2> SUFFICES ASSUME AddressPart, [Next]_allVars, part' = "address"
               PROVE  D!AddressInvariant'
    BY DEF AddressPart
  <2>1. part = "address" /\ D!AddressInvariant
    BY PartStays DEF AddressPart
  <2>2. [D!Next]_dVars
    BY <2>1 DEF Next, allVars, dVars
  <2>3. QED
    BY <2>1, <2>2, AddressStays
<1>3. QED
  BY <1>1, <1>2, PTL DEF Spec

LEMMA ReviewAlways == Spec => []ReviewPart
<1>1. Init => ReviewPart
  BY ScreensBegin, ReviewBegins DEF ReviewPart
<1>2. ReviewPart /\ [Next]_allVars => ReviewPart'
  <2> SUFFICES ASSUME ReviewPart, [Next]_allVars, part' = "review"
               PROVE  V!ReviewInvariant'
    BY DEF ReviewPart
  <2>1. part = "review" /\ V!ReviewInvariant
    BY PartStays DEF ReviewPart
  <2>2. [V!Next]_vVars
    BY <2>1 DEF Next, allVars, vVars
  <2>3. QED
    BY <2>1, <2>2, ReviewStays
<1>3. QED
  BY <1>1, <1>2, PTL DEF Spec

LEMMA ChainAlways == Spec => []ChainPart
<1>1. Init => ChainPart
  BY ScreensBegin, ChainBegins DEF ChainPart
<1>2. ChainPart /\ [Next]_allVars => ChainPart'
  <2> SUFFICES ASSUME ChainPart, [Next]_allVars, part' = "chain"
               PROVE  Q!ChainInvariant'
    BY DEF ChainPart
  <2>1. part = "chain" /\ Q!ChainInvariant
    BY PartStays DEF ChainPart
  <2>2. [Q!Next]_qVars
    BY <2>1 DEF Next, allVars, qVars
  <2>3. QED
    BY <2>1, <2>2, ChainStays
<1>3. QED
  BY <1>1, <1>2, PTL DEF Spec

\* In every order of events, answers, losses and clicks, a list, a board or a panel shows what its
\* server has kept or a reload of it is on its way, no client sits behind a dead connection that it
\* believes in, a console keeps the user's selection, the music does what the last click asked, the
\* dashboard uses the address it was given, and a chain of requests is the same from each of them
\* (workflow, src/src/hooks). The review of a branch that does not move has each changed file, with
\* its label and patch or with a word that it is binary, cut or left out; but without a word it
\* shows no patch of a renamed file or one whose name git quotes, calls a renamed one modified and
\* leaves out commits beyond its limit (buildReview).
THEOREM ScreensAlwaysSettle == Spec => []ScreensSettle
<1> DEFINE Screens == /\ ClientPart /\ PanelsPart /\ ConsolePart /\ MusicPart /\ AddressPart
                      /\ ReviewPart /\ ChainPart
<1>1. Screens => ScreensSettle
  BY ClientSuffices, PanelsSuffice, ConsoleSuffices, MusicSuffices, ChannelsRead, AddressSuffices,
     PortsRead, ReviewSuffices, ChainSuffices
     DEF ClientPart, PanelsPart, ConsolePart, MusicPart, AddressPart, ReviewPart, ChainPart, ScreensSettle
<1>2. QED
  BY <1>1, ClientAlways, PanelsAlways, ConsoleAlways, MusicAlways, AddressAlways, ReviewAlways,
     ChainAlways, PTL
-----------------------------------------------------------------------------
(* The parts of the player. *)

LEMMA PlayerBegins ==
  Init => Y!Init /\ C!Init /\ R!Init /\ A!Init /\ X!Init /\ G!Init
BY DEF Init

\* The invariants of its parts, each for its behaviours.
SessionPart == part = "player" => SessionInvariant
ChartPart   == part = "chart" => ChartInvariant
SourcesPart == part = "sources" => R!SourcesInvariant
AudioPart   == part = "audio" => A!AudioInvariant
LaunchPart  == part = "launch" => X!LaunchInvariant
LocalPart   == part = "local" => LocalInvariant

LEMMA SessionAlways == Spec => []SessionPart
<1>1. Init => SessionPart
  BY PlayerBegins, SessionBegins DEF SessionPart
<1>2. SessionPart /\ [Next]_allVars => SessionPart'
  <2> SUFFICES ASSUME SessionPart, [Next]_allVars, part' = "player"
               PROVE  SessionInvariant'
    BY DEF SessionPart
  <2>1. part = "player" /\ SessionInvariant
    BY PartStays DEF SessionPart
  <2>2. [Y!Next]_yVars
    BY <2>1 DEF Next, allVars, yVars
  <2>3. QED
    BY <2>1, <2>2, SessionStays
<1>3. QED
  BY <1>1, <1>2, PTL DEF Spec

LEMMA ChartAlways == Spec => []ChartPart
<1>1. Init => ChartPart
  BY PlayerBegins, ChartBegins DEF ChartPart
<1>2. ChartPart /\ [Next]_allVars => ChartPart'
  <2> SUFFICES ASSUME ChartPart, [Next]_allVars, part' = "chart"
               PROVE  ChartInvariant'
    BY DEF ChartPart
  <2>1. part = "chart" /\ ChartInvariant
    BY PartStays DEF ChartPart
  <2>2. [C!Next]_cVars
    BY <2>1 DEF Next, allVars, cVars
  <2>3. QED
    BY <2>1, <2>2, ChartStays
<1>3. QED
  BY <1>1, <1>2, PTL DEF Spec

LEMMA SourcesAlways == Spec => []SourcesPart
<1>1. Init => SourcesPart
  BY PlayerBegins, SourcesBegin DEF SourcesPart
<1>2. SourcesPart /\ [Next]_allVars => SourcesPart'
  <2> SUFFICES ASSUME SourcesPart, [Next]_allVars, part' = "sources"
               PROVE  R!SourcesInvariant'
    BY DEF SourcesPart
  <2>1. part = "sources" /\ R!SourcesInvariant
    BY PartStays DEF SourcesPart
  <2>2. [R!Next]_rVars
    BY <2>1 DEF Next, allVars, rVars
  <2>3. QED
    BY <2>1, <2>2, SourcesStay
<1>3. QED
  BY <1>1, <1>2, PTL DEF Spec

LEMMA AudioAlways == Spec => []AudioPart
<1>1. Init => AudioPart
  BY PlayerBegins, AudioBegins DEF AudioPart
<1>2. AudioPart /\ [Next]_allVars => AudioPart'
  <2> SUFFICES ASSUME AudioPart, [Next]_allVars, part' = "audio"
               PROVE  A!AudioInvariant'
    BY DEF AudioPart
  <2>1. part = "audio" /\ A!AudioInvariant
    BY PartStays DEF AudioPart
  <2>2. [A!Next]_aVars
    BY <2>1 DEF Next, allVars, aVars
  <2>3. QED
    BY <2>1, <2>2, AudioStays
<1>3. QED
  BY <1>1, <1>2, PTL DEF Spec

LEMMA LaunchAlways == Spec => []LaunchPart
<1>1. Init => LaunchPart
  BY PlayerBegins, LaunchBegins DEF LaunchPart
<1>2. LaunchPart /\ [Next]_allVars => LaunchPart'
  <2> SUFFICES ASSUME LaunchPart, [Next]_allVars, part' = "launch"
               PROVE  X!LaunchInvariant'
    BY DEF LaunchPart
  <2>1. part = "launch" /\ X!LaunchInvariant
    BY PartStays DEF LaunchPart
  <2>2. [X!Next]_xVars
    BY <2>1 DEF Next, allVars, xVars
  <2>3. QED
    BY <2>1, <2>2, LaunchStays
<1>3. QED
  BY <1>1, <1>2, PTL DEF Spec

LEMMA LocalAlways == Spec => []LocalPart
<1>1. Init => LocalPart
  BY PlayerBegins, LocalBegins DEF LocalPart
<1>2. LocalPart /\ [Next]_allVars => LocalPart'
  <2> SUFFICES ASSUME LocalPart, [Next]_allVars, part' = "local"
               PROVE  LocalInvariant'
    BY DEF LocalPart
  <2>1. part = "local" /\ LocalInvariant
    BY PartStays DEF LocalPart
  <2>2. [G!Next]_gVars
    BY <2>1 DEF Next, allVars, gVars
  <2>3. QED
    BY <2>1, <2>2, LocalStays
<1>3. QED
  BY <1>1, <1>2, PTL DEF Spec

\* In every order of loads, transitions, ticks, hits, failed saves and reloads: a run whose notes
\* have different ids judges each once and is over at its last beat; a demo that was chosen, other
\* than the one shown, plays once all is rendered; the history keeps the last runs it has room for,
\* unless two have one token; the sound follows the run, but for one that starts while a suspension
\* is under way or is paused while its start is, and each cue comes once; a tab loads the repository
\* it was opened for, unless a later launch was saved before; a chart can be played, with every
\* event in it and chords in key; sources and discussions are shown whole or not at all; and a
\* commit is shown with the files and lines git prints of it, which are none of a merge, and no
\* file of it as new that is not (player/src, player/extension).
THEOREM PlayerAlwaysHolds == Spec => []PlayerHolds
<1> DEFINE Player == SessionPart /\ ChartPart /\ SourcesPart /\ AudioPart /\ LaunchPart /\ LocalPart
<1>1. Player => PlayerHolds
  <2> SUFFICES ASSUME Player PROVE PlayerHolds
    OBVIOUS
  <2>1. part = "player" => Y!RunEnds /\ Y!RunSound /\ Y!AutoplayStarts /\ Y!HistoryKeeps
    BY SessionSuffices DEF SessionPart
  <2>2. part = "audio" => A!SoundFollowsRun /\ A!CuesOnce
    BY AudioSuffices DEF AudioPart
  <2>3. part = "launch" => X!TabsLoadTheirOwn /\ X!LaunchAsMeant
    BY LaunchSuffices DEF LaunchPart
  <2>4. part = "chart" => C!ChartPlayable /\ C!EventsAreHeard
    BY ChartSuffices DEF ChartPart
  <2>5. part = "sources" => R!NothingInPart
    BY DEF SourcesPart, R!SourcesInvariant
  <2>6. part = "local" => G!EventIsTheCommits
    BY LocalSuffices DEF LocalPart
  <2>7. QED
    BY <2>1, <2>2, <2>3, <2>4, <2>5, <2>6, ChordsAlwaysFit, DiscussionsHold DEF PlayerHolds
<1>2. QED
  BY <1>1, SessionAlways, ChartAlways, SourcesAlways, AudioAlways, LaunchAlways, LocalAlways, PTL

-----------------------------------------------------------------------------
(* The types of all of them. *)

PartIsOne == part \in Parts

LEMMA PartAlways == Spec => []PartIsOne
<1>1. Init => PartIsOne
  BY DEF Init, PartIsOne
<1>2. PartIsOne /\ [Next]_allVars => PartIsOne'
  BY PartStays DEF PartIsOne
<1>3. QED
  BY <1>1, <1>2, PTL DEF Spec

\* The variables of each part have the types its module states, in every behaviour.
THEOREM TypesAlwaysOK == Spec => []TypeOK
<1> DEFINE Servers == /\ TokensPart /\ LauncherPart /\ ConnectorPart /\ FilesPart /\ HooksPart
           Screens == /\ ClientPart /\ PanelsPart /\ ConsolePart /\ MusicPart /\ AddressPart
                      /\ ReviewPart /\ ChainPart
           Player == SessionPart /\ ChartPart /\ SourcesPart /\ AudioPart /\ LaunchPart /\ LocalPart
<1>1. ASSUME Servers
      PROVE  /\ part = "tokens" => T!TypeOK
             /\ part = "projects" => P!TypeOK
             /\ part = "connector" => E!TypeOK
             /\ part = "launcher" => L!TypeOK
             /\ part = "hooks" => H!TypeOK
  BY <1>1 DEF TokensPart, FilesPart, ConnectorPart, LauncherPart, HooksPart, P!FilesInvariant, H!HooksInvariant
<1>2. ASSUME Screens
      PROVE  /\ part = "client" => W!TypeOK
             /\ part = "ops" => O!TypeOK
             /\ part = "console" => K!TypeOK
             /\ part = "music" => B!TypeOK
             /\ part = "address" => D!TypeOK
             /\ part = "review" => V!TypeOK
             /\ part = "chain" => Q!TypeOK
  BY <1>2 DEF ClientPart, PanelsPart, ConsolePart, MusicPart, AddressPart, ReviewPart, ChainPart,
              W!ClientInvariant, O!PanelInvariant, K!ConsoleInvariant, B!MusicInvariant,
              D!AddressInvariant, V!ReviewInvariant, Q!ChainInvariant
<1>3. ASSUME Player
      PROVE  /\ part = "player" => Y!TypeOK
             /\ part = "chart" => C!TypeOK
             /\ part = "sources" => R!TypeOK
             /\ part = "audio" => A!TypeOK
             /\ part = "launch" => X!TypeOK
             /\ part = "local" => G!TypeOK
  BY <1>3, SessionSuffices, ChartSuffices, LocalSuffices
     DEF SessionPart, ChartPart, SourcesPart, AudioPart, LaunchPart, LocalPart, R!SourcesInvariant,
         A!AudioInvariant, X!LaunchInvariant
<1>4. PartIsOne /\ Servers /\ Screens /\ Player => TypeOK
  <2> SUFFICES ASSUME PartIsOne, Servers, Screens, Player PROVE TypeOK
    OBVIOUS
  <2> HIDE DEF Servers, Screens, Player
  <2>1. CASE part = "tokens"
    BY <1>1, <2>1 DEF TypeOK
  <2>2. CASE part = "projects"
    BY <1>1, <2>2 DEF TypeOK
  <2>3. CASE part = "connector"
    BY <1>1, <2>3 DEF TypeOK
  <2>4. CASE part = "launcher"
    BY <1>1, <2>4 DEF TypeOK
  <2>5. CASE part = "hooks"
    BY <1>1, <2>5 DEF TypeOK
  <2>6. CASE part = "client"
    BY <1>2, <2>6 DEF TypeOK
  <2>7. CASE part = "ops"
    BY <1>2, <2>7 DEF TypeOK
  <2>8. CASE part = "console"
    BY <1>2, <2>8 DEF TypeOK
  <2>9. CASE part = "music"
    BY <1>2, <2>9 DEF TypeOK
  <2>10. CASE part = "address"
    BY <1>2, <2>10 DEF TypeOK
  <2>11. CASE part = "review"
    BY <1>2, <2>11 DEF TypeOK
  <2>12. CASE part = "chain"
    BY <1>2, <2>12 DEF TypeOK
  <2>13. CASE part = "player"
    BY <1>3, <2>13 DEF TypeOK
  <2>14. CASE part = "chart"
    BY <1>3, <2>14 DEF TypeOK
  <2>15. CASE part = "sources"
    BY <1>3, <2>15 DEF TypeOK
  <2>16. CASE part = "audio"
    BY <1>3, <2>16 DEF TypeOK
  <2>17. CASE part = "launch"
    BY <1>3, <2>17 DEF TypeOK
  <2>18. CASE part = "local"
    BY <1>3, <2>18 DEF TypeOK
  <2>19. QED
    BY <2>1, <2>2, <2>3, <2>4, <2>5, <2>6, <2>7, <2>8, <2>9, <2>10, <2>11, <2>12, <2>13, <2>14, <2>15, <2>16, <2>17, <2>18 DEF PartIsOne, Parts
<1>5. QED
  BY <1>4, PartAlways, TokensAlways, LauncherAlways, ConnectorAlways, FilesAlways, HooksAlways,
     ClientAlways, PanelsAlways, ConsoleAlways, MusicAlways, AddressAlways, ReviewAlways, ChainAlways,
     SessionAlways, ChartAlways, SourcesAlways, AudioAlways, LaunchAlways, LocalAlways, PTL
=============================================================================
