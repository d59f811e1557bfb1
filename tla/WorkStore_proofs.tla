------------------------- MODULE WorkStore_proofs -------------------------
(***************************************************************************)
(* WorkStore for all sessions, requests and limits.                        *)
(***************************************************************************)
EXTENDS WorkStore, FiniteSetTheorems, TLAPS

(* The maps keep their type. *)

LEMMA WithoutSessionsType ==
  ASSUME NEW m \in Maps, NEW gone PROVE WithoutSessions(m, gone) \in Maps
<1>1. \A s \in Sessions : IF s \in gone THEN <<>> \in Seq(Message) ELSE m.messages[s] \in Seq(Message)
  BY DEF Maps
<1> QED BY <1>1 DEF WithoutSessions, Maps

LEMMA PruneType ==
  ASSUME NEW m \in Maps PROVE PruneSessions(m) \in Maps /\ PruneRequests(m) \in Maps
<1>1. PruneSessions(m) \in Maps  BY WithoutSessionsType DEF PruneSessions
<1>2. PruneRequests(m) \in Maps  BY DEF PruneRequests, Maps
<1> QED BY <1>1, <1>2

LEMMA RingType ==
  ASSUME NEW list \in Seq(Message) PROVE Ring(list) \in Seq(Message) /\ Len(Ring(list)) <= MaxMessages
<1>1. MaxMessages \in Nat \ {0}  BY LimitsArePositive
<1>2. CASE Len(list) > MaxMessages  BY <1>1, <1>2 DEF Ring
<1>3. CASE ~(Len(list) > MaxMessages)  BY <1>1, <1>3 DEF Ring
<1> QED BY <1>2, <1>3

\* The maps a step hands to the pruning.
Written(m, step, t) ==
  CASE step.do = "create" -> [m EXCEPT !.status[step.id] = "active", !.updatedAt[step.id] = t]
    [] step.do = "close"  -> [m EXCEPT !.status[step.id] = "completed", !.updatedAt[step.id] = t]
    [] step.do = "append" ->
         [m EXCEPT !.messages[step.id] = Ring(Append(@, [createdAt |-> t, kind |-> step.kind])),
                   !.updatedAt[step.id] = t, !.lastMessageAt[step.id] = t]
    [] step.do = "submit" -> [m EXCEPT !.request[step.id] = "submitted", !.createdAt[step.id] = t]
    [] step.do = "decide" -> [m EXCEPT !.request[step.id] = step.verdict]

LEMMA WrittenType ==
  ASSUME NEW m \in Maps, NEW step \in Step, NEW t \in Nat PROVE Written(m, step, t) \in Maps
<1>1. CASE step.do = "create" /\ step.id \in Sessions  BY <1>1 DEF Written, Maps
<1>2. CASE step.do = "close" /\ step.id \in Sessions  BY <1>2 DEF Written, Maps, Terminal
<1>3. CASE step.do = "append" /\ step.id \in Sessions /\ step.kind \in Kinds
  <2> DEFINE list == Ring(Append(m.messages[step.id], [createdAt |-> t, kind |-> step.kind]))
  <2>1. list \in Seq(Message)
    <3>1. [createdAt |-> t, kind |-> step.kind] \in Message  BY <1>3 DEF Message
    <3>2. m.messages[step.id] \in Seq(Message)  BY <1>3 DEF Maps
    <3>3. Append(m.messages[step.id], [createdAt |-> t, kind |-> step.kind]) \in Seq(Message)
      BY <3>1, <3>2
    <3> QED BY <3>3, RingType
  <2> HIDE DEF list
  <2>2. [m EXCEPT !.messages[step.id] = list, !.updatedAt[step.id] = t, !.lastMessageAt[step.id] = t]
          \in Maps
    BY <2>1, <1>3 DEF Maps
  <2> QED BY <2>2, <1>3 DEF Written, list
<1>4. CASE step.do = "submit" /\ step.id \in Requests  BY <1>4 DEF Written, Maps
<1>5. CASE step.do = "decide" /\ step.id \in Requests /\ step.verdict \in Verdicts
  BY <1>5 DEF Written, Maps
<1> QED BY <1>1, <1>2, <1>3, <1>4, <1>5 DEF Step

LEMMA AfterIsPruned ==
  ASSUME NEW m \in Maps, NEW step \in Step, NEW t \in Nat
  PROVE  \/ After(m, step, t) = m
         \/ /\ step.do \in {"create", "close", "append"}
            /\ step.do # "create" => m.status[step.id] # "absent"
            /\ After(m, step, t) = PruneSessions(Written(m, step, t))
         \/ step.do = "submit" /\ After(m, step, t) = PruneRequests(Written(m, step, t))
         \/ step.do = "decide" /\ After(m, step, t) = Written(m, step, t)
<1>1. step.do \in {"create", "close", "append", "submit", "decide"}  BY DEF Step
<1> QED BY <1>1 DEF After, Written, CreateSession, CloseSession, AppendMessage, SubmitRequest, DecideRequest

LEMMA AfterType ==
  ASSUME NEW m \in Maps, NEW step \in Step, NEW t \in Nat PROVE After(m, step, t) \in Maps
BY WrittenType, AfterIsPruned, PruneType

LEMMA LoadedType ==
  ASSUME NEW f \in Maps PROVE Loaded(f) \in Maps
<1> DEFINE lists == [s \in Sessions |-> IF f.status[s] = "absent" THEN <<>> ELSE Ring(f.messages[s])]
<1>1. lists \in [Sessions -> Seq(Message)]
  <2>1. \A s \in Sessions : Ring(f.messages[s]) \in Seq(Message)  BY RingType DEF Maps
  <2> QED BY <2>1
<1> HIDE DEF lists
<1>2. [f EXCEPT !.messages = lists] \in Maps  BY <1>1 DEF Maps
<1> QED BY <1>2, PruneType DEF Loaded, lists

LEMMA NoMapsType == NoMaps \in Maps
<1>1. <<>> \in Seq(Message)  OBVIOUS
<1> QED BY <1>1 DEF NoMaps, Maps

LEMMA IdleType == Idle \in Job
BY DEF Idle, Job

LEMMA TellType ==
  ASSUME NEW ids \in SUBSET (Sessions \cup Requests), Tell(ids),
         told \subseteq Outcome, toldUnsaved \subseteq Outcome
  PROVE  told' \subseteq Outcome /\ toldUnsaved' \subseteq Outcome
<1>1. \A x \in ids : StateOf(mem, x) \in Final(x) => [of |-> x, is |-> StateOf(mem, x)] \in Outcome
  BY DEF Final, Outcome
<1> QED BY <1>1 DEF Tell

(* Type correctness of sessions, requests, the file and the running handler: TypeOK. *)
THEOREM StoreTypeCorrect == Spec => []TypeOK
<1>1. Init => TypeOK
  <2> SUFFICES ASSUME Init PROVE TypeOK
    OBVIOUS
  <2>1. mem \in Maps /\ file \in Maps  BY NoMapsType DEF Init
  <2>2. job \in Job  BY IdleType DEF Init
  <2> QED BY <2>1, <2>2 DEF Init, TypeOK
<1>2. TypeOK /\ [Next]_vars => TypeOK'
  <2> SUFFICES ASSUME TypeOK, [Next]_vars PROVE TypeOK'
    OBVIOUS
  <2> USE DEF TypeOK
  <2>1. ASSUME NEW steps \in Seq(Step), NEW x \in Sessions \cup Requests, NEW c \in BOOLEAN,
               Call(steps, x, c), used' \subseteq Sessions \cup Requests
        PROVE TypeOK'
    BY <2>1 DEF Call, Job
  <2>2. ASSUME NEW s \in Sessions, NewSession(s) PROVE TypeOK'
    <3>1. <<[do |-> "create", id |-> s], Appends(s, "status")>> \in Seq(Step)
      BY DEF Step, Appends, Kinds
    <3> QED BY <2>1, <2>2, <3>1 DEF NewSession
  <2>3. ASSUME NEW s \in Sessions, PostMessage(s) PROVE TypeOK'
    <3>1. <<Appends(s, "message")>> \in Seq(Step)  BY DEF Step, Appends, Kinds
    <3> QED BY <2>1, <2>3, <3>1 DEF PostMessage
  <2>4. ASSUME NEW s \in Sessions, PostClose(s) PROVE TypeOK'
    <3>1. <<Closes(s), Appends(s, "status")>> \in Seq(Step)  BY DEF Step, Appends, Closes, Kinds
    <3> QED BY <2>1, <2>4, <3>1 DEF PostClose
  <2>5. ASSUME NEW s \in Sessions, NEW close \in BOOLEAN, PostCommand(s, close) PROVE TypeOK'
    <3>1. Closes(s) \in Step /\ \A kind \in Kinds : Appends(s, kind) \in Step
      BY DEF Step, Appends, Closes
    <3>2. CommandSteps(s, close) \in Seq(Step)
      BY <3>1 DEF CommandSteps, Kinds
    <3> QED BY <2>1, <2>5, <3>2 DEF PostCommand
  <2>6. ASSUME NEW r \in Requests, PostRequest(r) PROVE TypeOK'
    <3>1. <<[do |-> "submit", id |-> r]>> \in Seq(Step)  BY DEF Step
    <3> QED BY <2>1, <2>6, <3>1 DEF PostRequest
  <2>7. ASSUME NEW r \in Requests, NEW verdict \in Verdicts, PostDecision(r, verdict) PROVE TypeOK'
    <3>1. <<[do |-> "decide", id |-> r, verdict |-> verdict]>> \in Seq(Step)  BY DEF Step
    <3> QED BY <2>1, <2>7, <3>1 DEF PostDecision
  <2>8. ASSUME job.steps # <<>>
        PROVE /\ Head(job.steps) \in Step /\ Tail(job.steps) \in Seq(Step)
              /\ time + 1 \in Nat /\ After(mem, Head(job.steps), time + 1) \in Maps
    <3>1. Head(job.steps) \in Step /\ Tail(job.steps) \in Seq(Step)  BY <2>8 DEF Job
    <3> QED BY <3>1, AfterType
  <2>9. CASE Saves  BY <2>8, <2>9 DEF Saves, Stored, Job
  <2>10. CASE SaveFails  BY <2>8, <2>10, IdleType DEF SaveFails, Job
  <2>11. CASE SaveKills
    <3>1. mem' \in Maps  BY <2>11, NoMapsType DEF SaveKills
    <3>2. job' \in Job  BY <2>11, IdleType DEF SaveKills
    <3>3. up' \in BOOLEAN /\ unsaved' \in BOOLEAN /\ cut' \subseteq Sessions \cup Requests
      BY <2>11 DEF SaveKills, Job
    <3>4. failures' \in Nat /\ crashes' \in Nat /\ time' \in Nat  BY <2>11 DEF SaveKills
    <3>5. UNCHANGED <<file, used, told>> /\ toldUnsaved' = {}  BY <2>11 DEF SaveKills
    <3> QED BY <3>1, <3>2, <3>3, <3>4, <3>5
  <2>12. CASE Answer
    <3>1. told' \subseteq Outcome /\ toldUnsaved' \subseteq Outcome
      BY <2>12, TellType DEF Answer, Job
    <3> QED BY <2>12, <3>1, IdleType DEF Answer
  <2>13. CASE Crash
    <3>1. mem' \in Maps  BY <2>13, NoMapsType DEF Crash
    <3>2. job' \in Job  BY <2>13, IdleType DEF Crash
    <3>3. up' \in BOOLEAN /\ unsaved' \in BOOLEAN /\ cut' \subseteq Sessions \cup Requests
      BY <2>13 DEF Crash, Job
    <3>4. failures' \in Nat /\ crashes' \in Nat /\ time' \in Nat  BY <2>13 DEF Crash
    <3>5. UNCHANGED <<file, used, told>> /\ toldUnsaved' = {}  BY <2>13 DEF Crash
    <3> QED BY <3>1, <3>2, <3>3, <3>4, <3>5
  <2>14. CASE Start  BY <2>14, LoadedType DEF Start
  <2>15. ASSUME NEW ids \in SUBSET (Sessions \cup Requests), Tells(ids) PROVE TypeOK'
    BY <2>15, TellType DEF Tells
  <2>16. CASE UNCHANGED vars  BY <2>16 DEF vars
  <2>17. (\A x \in Sessions \cup Requests : Read(x) => TypeOK') /\ \A r \in Requests : RefuseDecision(r) => TypeOK'
    BY <2>15 DEF Read, RefuseDecision
  <2> QED BY <2>2, <2>3, <2>4, <2>5, <2>6, <2>7, <2>9, <2>10, <2>11, <2>12, <2>13, <2>14, <2>16, <2>17 DEF Next
<1> QED BY <1>1, <1>2, PTL DEF Spec

-----------------------------------------------------------------------------
(* What pruning and a handler's step leave as it is *)

LEMMA PruneOnlyDrops ==
  ASSUME NEW m \in Maps
  PROVE  /\ \A s \in Sessions : /\ PruneSessions(m).status[s] \in {m.status[s], "absent"}
                                /\ m.status[s] = "active" => PruneSessions(m).status[s] = "active"
         /\ PruneSessions(m).request = m.request /\ PruneSessions(m).createdAt = m.createdAt
         /\ \A r \in Requests : PruneRequests(m).request[r] \in {m.request[r], "absent"}
         /\ PruneRequests(m).status = m.status /\ PruneRequests(m).updatedAt = m.updatedAt
         /\ PruneRequests(m).messages = m.messages
<1>1. \A s \in Surplus(m) : m.status[s] # "active"  BY DEF Surplus, Closed, Terminal
<1>2. /\ \A s \in Sessions : /\ PruneSessions(m).status[s] \in {m.status[s], "absent"}
                             /\ m.status[s] = "active" => PruneSessions(m).status[s] = "active"
      /\ PruneSessions(m).request = m.request /\ PruneSessions(m).createdAt = m.createdAt
  BY <1>1 DEF PruneSessions, WithoutSessions, Maps
<1>3. /\ \A r \in Requests : PruneRequests(m).request[r] \in {m.request[r], "absent"}
      /\ PruneRequests(m).status = m.status /\ PruneRequests(m).updatedAt = m.updatedAt
      /\ PruneRequests(m).messages = m.messages
  BY DEF PruneRequests, Maps
<1> QED BY <1>2, <1>3


\* A step changes no state somebody was told, unless it creates that very session or request.
LEMMA StepKeepsOutcome ==
  ASSUME NEW m \in Maps, NEW step \in Step, NEW t \in Nat, NEW o \in Outcome,
         StateOf(m, o.of) \in {o.is, "absent"},
         step.do \in {"create", "submit"} => step.id # o.of,
         step.do = "decide" => m.request[step.id] = "submitted"
  PROVE  StateOf(After(m, step, t), o.of) \in {o.is, "absent"}
<1> DEFINE w == Written(m, step, t)
<1>1. w \in Maps  BY WrittenType
<1>2. CASE o.of \in Sessions /\ o.is = "completed"
  <2>1. w.status[o.of] \in {"completed", "absent"} \/ After(m, step, t) = m
    <3>1. m.status[o.of] \in {"completed", "absent"}  BY <1>2 DEF StateOf
    <3>2. CASE step.do = "create"  BY <1>2, <3>1, <3>2 DEF Written, Maps
    <3>3. CASE step.do = "close"  BY <1>2, <3>1, <3>3, AfterIsPruned DEF Written, Maps
    <3>4. CASE step.do \in {"append", "submit", "decide"}  BY <1>2, <3>1, <3>4 DEF Written
    <3> QED BY <3>2, <3>3, <3>4 DEF Step
  <2> HIDE DEF w
  <2> QED BY <1>1, <1>2, <2>1, PruneOnlyDrops, AfterIsPruned DEF StateOf, w
<1>3. CASE o.of \in Requests /\ o.of \notin Sessions /\ o.is \in Verdicts
  <2>1. w.request[o.of] \in {o.is, "absent"} \/ After(m, step, t) = m
    <3>1. m.request[o.of] \in {o.is, "absent"}  BY <1>3 DEF StateOf
    <3>2. CASE step.do = "submit"  BY <1>3, <3>1, <3>2 DEF Written, Maps
    <3>3. CASE step.do = "decide"
      <4>1. step.id # o.of  BY <1>3, <3>1, <3>3, VerdictsAreStates
      <4> QED BY <1>3, <3>1, <3>3, <4>1 DEF Written, Maps
    <3>4. CASE step.do \in {"create", "close", "append"}  BY <1>3, <3>1, <3>4 DEF Written
    <3> QED BY <3>2, <3>3, <3>4 DEF Step
  <2> HIDE DEF w
  <2> QED BY <1>1, <1>3, <2>1, PruneOnlyDrops, AfterIsPruned DEF StateOf, w
<1> QED BY <1>2, <1>3, IdsAreDistinct DEF Outcome, Terminal

\* No step drops an open session: a session that is closed now is the one updated last.
LEMMA StepKeepsOpen ==
  ASSUME NEW m \in Maps, NEW step \in Step, NEW t \in Nat, \A x \in Sessions : m.updatedAt[x] < t,
         NEW s \in Sessions, m.status[s] = "active"
  PROVE  After(m, step, t).status[s] # "absent"
<1> DEFINE w == Written(m, step, t)
<1>1. w \in Maps  BY WrittenType
<1>2. w.status[s] = "active" \/ (step.do = "close" /\ step.id = s)
  <2>1. CASE step.do \in {"create", "close"}  BY <2>1 DEF Written, Maps
  <2>2. CASE step.do \in {"append", "submit", "decide"}  BY <2>2 DEF Written
  <2> QED BY <2>1, <2>2 DEF Step
<1>3. CASE w.status[s] = "active"
  <2> HIDE DEF w
  <2> QED BY <1>1, <1>3, PruneOnlyDrops, AfterIsPruned DEF w
<1>4. CASE step.do = "close" /\ step.id = s
  <2>1. /\ w.status[s] = "completed"
        /\ \A x \in Sessions : ~(w.updatedAt[x] > w.updatedAt[s])
    <3>1. w = [m EXCEPT !.status[s] = "completed", !.updatedAt[s] = t]  BY <1>4 DEF Written
    <3> HIDE DEF w
    <3>2. w.status[s] = "completed"  BY <3>1 DEF Maps
    <3>3. w.updatedAt = [m.updatedAt EXCEPT ![s] = t]  BY <3>1 DEF Maps
    <3>4. m.updatedAt \in [Sessions -> Nat]  BY DEF Maps
    <3> QED BY <3>2, <3>3, <3>4
  <2> HIDE DEF w
  <2>2. {x \in Closed(w) : w.updatedAt[x] > w.updatedAt[s]} = {}  BY <2>1 DEF Closed
  <2>3. s \notin Surplus(w)
    <3>1. Cardinality({}) = 0  BY FS_EmptySet
    <3> QED BY <2>2, <3>1, LimitsArePositive DEF Surplus
  <2>4. PruneSessions(w).status[s] = "completed"
    BY <1>1, <2>1, <2>3 DEF PruneSessions, WithoutSessions, Maps
  <2> QED BY <1>4, <2>4, AfterIsPruned DEF w
<1> QED BY <1>2, <1>3, <1>4

\* A step gives a session the time of the step, or leaves its time, or takes it away.
LEMMA StepTime ==
  ASSUME NEW m \in Maps, NEW step \in Step, NEW t \in Nat, \A x \in Sessions : m.updatedAt[x] <= t
  PROVE  \A x \in Sessions : After(m, step, t).updatedAt[x] <= t
<1> DEFINE w == Written(m, step, t)
<1>1. w \in Maps  BY WrittenType
<1>2. \A x \in Sessions : w.updatedAt[x] <= t
  <2>1. CASE step.do \in {"create", "close", "append"}  BY <2>1 DEF Written, Maps
  <2>2. CASE step.do \in {"submit", "decide"}  BY <2>2 DEF Written
  <2> QED BY <2>1, <2>2 DEF Step
<1> HIDE DEF w
<1>3. \A x \in Sessions : PruneSessions(w).updatedAt[x] <= t
  BY <1>1, <1>2 DEF PruneSessions, WithoutSessions, Maps
<1> QED BY <1>1, <1>2, <1>3, PruneOnlyDrops, AfterIsPruned DEF w

-----------------------------------------------------------------------------
(* Pruning leaves nothing to prune *)

LEMMA FewerNewer ==
  ASSUME NEW S, IsFiniteSet(S), NEW T \in SUBSET S, NEW n \in Nat, ~(Cardinality(S) >= n)
  PROVE  ~(Cardinality(T) >= n)
BY FS_Subset, FS_CardinalityType

LEMMA NoSurplusSessions ==
  ASSUME NEW m \in Maps PROVE Surplus(PruneSessions(m)) = {}
<1> DEFINE p == PruneSessions(m)
<1>1. Closed(p) = Closed(m) \ Surplus(m) /\ \A s \in Closed(p) : p.updatedAt[s] = m.updatedAt[s]
  BY DEF PruneSessions, WithoutSessions, Closed, Terminal, Maps
<1> HIDE DEF p
<1>2. SUFFICES ASSUME NEW s \in Closed(p)
               PROVE  ~(Cardinality({t \in Closed(p) : p.updatedAt[t] > p.updatedAt[s]}) >= MaxClosed)
  BY DEF Surplus, p
<1> DEFINE old == {t \in Closed(m) : m.updatedAt[t] > m.updatedAt[s]}
           new == {t \in Closed(p) : p.updatedAt[t] > p.updatedAt[s]}
<1>3. new \in SUBSET old  BY <1>1, <1>2
<1>4. ~(Cardinality(old) >= MaxClosed)  BY <1>1, <1>2 DEF Surplus
<1>5. IsFiniteSet(old)
  <2>1. old \subseteq Sessions \cup Requests  BY DEF Closed
  <2> QED BY <2>1, IdsAreDistinct, FS_Subset
<1> HIDE DEF old, new
<1>6. ~(Cardinality(new) >= MaxClosed)  BY <1>3, <1>4, <1>5, FewerNewer, LimitsArePositive
<1> QED BY <1>6 DEF new

LEMMA NoSurplusRequests ==
  ASSUME NEW m \in Maps PROVE SurplusRequests(PruneRequests(m)) = {}
<1> DEFINE p == PruneRequests(m)
<1>1. /\ Submitted(p) = Submitted(m) \ SurplusRequests(m)
      /\ \A r \in Submitted(p) : p.createdAt[r] = m.createdAt[r]
  BY DEF PruneRequests, Submitted, Maps
<1> HIDE DEF p
<1>2. SUFFICES ASSUME NEW r \in Submitted(p)
               PROVE  ~(Cardinality({q \in Submitted(p) : p.createdAt[q] > p.createdAt[r]}) >= MaxRequests)
  BY DEF SurplusRequests, p
<1> DEFINE old == {q \in Submitted(m) : m.createdAt[q] > m.createdAt[r]}
           new == {q \in Submitted(p) : p.createdAt[q] > p.createdAt[r]}
<1>3. new \in SUBSET old  BY <1>1, <1>2
<1>4. ~(Cardinality(old) >= MaxRequests)  BY <1>1, <1>2 DEF SurplusRequests
<1>5. IsFiniteSet(old)
  <2>1. old \subseteq Sessions \cup Requests  BY DEF Submitted
  <2> QED BY <2>1, IdsAreDistinct, FS_Subset
<1> HIDE DEF old, new
<1>6. ~(Cardinality(new) >= MaxRequests)  BY <1>3, <1>4, <1>5, FewerNewer, LimitsArePositive
<1> QED BY <1>6 DEF new

LEMMA TidyLists ==
  ASSUME NEW m, Tidy(m)
  PROVE  \A s \in Sessions : Len(m.messages[s]) <= MaxMessages /\ (m.status[s] = "absent" => m.messages[s] = <<>>)
BY Zenon DEF Tidy

\* What both prunings look at of the other half stays.
LEMMA StepStaysTidy ==
  ASSUME NEW m \in Maps, Tidy(m), NEW step \in Step, NEW t \in Nat,
         step.do = "decide" => m.request[step.id] = "submitted"
  PROVE  Tidy(After(m, step, t))
<1> DEFINE w == Written(m, step, t)
<1>1. w \in Maps  BY WrittenType
<1>2. CASE After(m, step, t) = m  BY <1>2
<1>3. CASE /\ step.do \in {"create", "close", "append"}
           /\ step.do # "create" => m.status[step.id] # "absent"
           /\ After(m, step, t) = PruneSessions(w)
  <2>1. w.request = m.request /\ w.createdAt = m.createdAt  BY <1>3 DEF Written
  <2>2. \A s \in Sessions : Len(w.messages[s]) <= MaxMessages /\ (w.status[s] = "absent" => w.messages[s] = <<>>)
    <3>1. CASE step.do \in {"create", "close"}
      <4>1. w.messages = m.messages  BY <3>1 DEF Written, Maps
      <4>2. \A s \in Sessions : w.status[s] = "absent" => m.status[s] = "absent"
        BY <3>1 DEF Written, Maps
      <4> HIDE DEF w
      <4> QED BY <4>1, <4>2, TidyLists
    <3>2. CASE step.do = "append"
      <4> DEFINE list == Ring(Append(m.messages[step.id], [createdAt |-> t, kind |-> step.kind]))
      <4>1. step.id \in Sessions /\ step.kind \in Kinds  BY <3>2 DEF Step
      <4>2. Len(list) <= MaxMessages
        <5>1. [createdAt |-> t, kind |-> step.kind] \in Message  BY <4>1 DEF Message
        <5>2. m.messages[step.id] \in Seq(Message)  BY <4>1 DEF Maps
        <5>3. Append(m.messages[step.id], [createdAt |-> t, kind |-> step.kind]) \in Seq(Message)
          BY <5>1, <5>2
        <5> QED BY <5>3, RingType
      <4>3. /\ w.status = m.status
            /\ \A s \in Sessions : w.messages[s] = IF s = step.id THEN list ELSE m.messages[s]
        <5>1. w = [m EXCEPT !.messages[step.id] = list, !.updatedAt[step.id] = t,
                            !.lastMessageAt[step.id] = t]
          BY <3>2 DEF Written
        <5> HIDE DEF w, list
        <5> QED BY <4>1, <5>1 DEF Maps
      <4> HIDE DEF list, w
      <4> QED BY <1>3, <3>2, <4>1, <4>2, <4>3, TidyLists
    <3> QED BY <1>3, <3>1, <3>2
  <2> HIDE DEF w
  <2> DEFINE p == PruneSessions(w)
  <2>3. p.request = m.request /\ p.createdAt = m.createdAt  BY <1>1, <2>1, PruneOnlyDrops
  <2>4. SurplusRequests(p) = SurplusRequests(m)  BY <2>3 DEF SurplusRequests, Submitted
  <2>5. \A s \in Sessions : Len(p.messages[s]) <= MaxMessages /\ (p.status[s] = "absent" => p.messages[s] = <<>>)
    BY <1>1, <2>2, LimitsArePositive DEF PruneSessions, WithoutSessions, Maps
  <2>6. Surplus(p) = {}  BY <1>1, NoSurplusSessions
  <2> HIDE DEF p
  <2>7. Tidy(p)  BY <2>4, <2>5, <2>6 DEF Tidy
  <2> QED BY <1>3, <2>7 DEF p
<1>4. CASE step.do = "submit" /\ After(m, step, t) = PruneRequests(w)
  <2>1. w.status = m.status /\ w.updatedAt = m.updatedAt /\ w.messages = m.messages
    BY <1>4 DEF Written, Maps
  <2> HIDE DEF w
  <2> DEFINE p == PruneRequests(w)
  <2>2. p.status = m.status /\ p.updatedAt = m.updatedAt /\ p.messages = m.messages
    BY <1>1, <2>1, PruneOnlyDrops
  <2>3. SurplusRequests(p) = {}  BY <1>1, NoSurplusRequests
  <2> HIDE DEF p
  <2>4. Tidy(p)  BY <2>2, <2>3 DEF Tidy, Surplus, Closed
  <2> QED BY <1>4, <2>4 DEF p
<1>5. CASE step.do = "decide" /\ After(m, step, t) = w
  <2>1. w.status = m.status /\ w.updatedAt = m.updatedAt /\ w.messages = m.messages
        /\ w.createdAt = m.createdAt
    BY <1>5 DEF Written, Maps
  <2>2. step.id \in Requests /\ step.verdict \in Verdicts /\ m.request[step.id] = "submitted"
    BY <1>5 DEF Step
  <2>3. Submitted(w) = Submitted(m)  BY <1>5, <2>2, VerdictsAreStates DEF Written, Submitted, Maps
  <2> HIDE DEF w
  <2>4. Tidy(w)  BY <2>1, <2>3 DEF Tidy, Surplus, Closed, SurplusRequests
  <2> QED BY <1>5, <2>4
<1> QED BY <1>2, <1>3, <1>4, <1>5, AfterIsPruned

\* A restart loads what was saved.
LEMMA LoadedIsSaved ==
  ASSUME NEW f \in Maps, Tidy(f) PROVE Loaded(f) = f
<1> DEFINE lists == [s \in Sessions |-> IF f.status[s] = "absent" THEN <<>> ELSE Ring(f.messages[s])]
<1>1. ASSUME NEW s \in Sessions PROVE lists[s] = f.messages[s]
  <2>1. Len(f.messages[s]) <= MaxMessages /\ (f.status[s] = "absent" => f.messages[s] = <<>>)  BY <1>1, TidyLists
  <2>2. f.messages[s] \in Seq(Message)  BY DEF Maps
  <2>3. ~(Len(f.messages[s]) > MaxMessages)
    <3>1. Len(f.messages[s]) \in Nat /\ MaxMessages \in Nat  BY <2>2, LimitsArePositive
    <3> QED BY <2>1, <3>1
  <2>4. Ring(f.messages[s]) = f.messages[s]  BY <2>3 DEF Ring
  <2> QED BY <2>1, <2>4
<1>2. lists = f.messages  BY <1>1 DEF Maps
<1> HIDE DEF lists
<1>3. [f EXCEPT !.messages = lists] = f  BY <1>2 DEF Maps
<1>4. PruneSessions(f) = f  BY DEF PruneSessions, WithoutSessions, Tidy, Maps
<1>5. PruneRequests(f) = f  BY DEF PruneRequests, Tidy, Maps
<1> QED BY <1>3, <1>4, <1>5 DEF Loaded, lists

\* A step brings nothing into the maps but what it is about.
LEMMA StepKnows ==
  ASSUME NEW m \in Maps, NEW step \in Step, NEW t \in Nat, NEW x \in Sessions \cup Requests,
         StateOf(m, x) = "absent", step.id # x
  PROVE  StateOf(After(m, step, t), x) = "absent"
<1> DEFINE w == Written(m, step, t)
<1>1. w \in Maps  BY WrittenType
<1>2. StateOf(w, x) = "absent"
  <2>1. CASE step.do \in {"create", "close"}  BY <2>1 DEF Written, Maps, StateOf, Step
  <2>2. CASE step.do \in {"submit", "decide"}  BY <2>2 DEF Written, Maps, StateOf, Step
  <2>3. CASE step.do = "append"  BY <2>3 DEF Written, Maps, StateOf
  <2> QED BY <2>1, <2>2, <2>3 DEF Step
<1>3. StateOf(PruneSessions(w), x) = "absent" /\ StateOf(PruneRequests(w), x) = "absent"
  <2> HIDE DEF w
  <2> QED BY <1>1, <1>2, PruneOnlyDrops DEF StateOf
<1> HIDE DEF w
<1> QED BY <1>2, <1>3, AfterIsPruned DEF w

-----------------------------------------------------------------------------
(* The inductive invariant *)

LEMMA NoMapsTidy ==
  /\ Tidy(NoMaps) /\ \A s \in Sessions : NoMaps.updatedAt[s] = 0
  /\ \A x \in Sessions \cup Requests : StateOf(NoMaps, x) = "absent"
<1>1. Surplus(NoMaps) = {} /\ SurplusRequests(NoMaps) = {}
  BY DEF NoMaps, Surplus, Closed, Terminal, SurplusRequests, Submitted
<1>2. \A s \in Sessions : Len(NoMaps.messages[s]) <= MaxMessages /\ NoMaps.messages[s] = <<>>
  BY LimitsArePositive DEF NoMaps
<1>3. \A s \in Sessions : NoMaps.updatedAt[s] = 0  BY DEF NoMaps
<1>4. \A x \in Sessions \cup Requests : StateOf(NoMaps, x) = "absent"  BY DEF NoMaps, StateOf
<1> QED BY <1>1, <1>2, <1>3, <1>4 DEF Tidy

LEMMA IdleSteps == Idle.steps = <<>> /\ Idle.id = {}
BY DEF Idle

LEMMA InitInvariant == Init => StoreInv
<1> SUFFICES ASSUME Init PROVE StoreInv
  OBVIOUS
<1>1. ToldIsKept /\ MemoryIsSaved  BY DEF Init, ToldIsKept, MemoryIsSaved
<1>2. StepsAreNew /\ KnownIds  BY NoMapsTidy, IdleSteps DEF Init, StepsAreNew, KnownIds
<1>3. Tidy(mem) /\ Tidy(file) /\ \A s \in Sessions : mem.updatedAt[s] <= time /\ file.updatedAt[s] <= time
  BY NoMapsTidy DEF Init
<1>4. job # Idle => up /\ (job.steps = <<>> => file = mem /\ ~unsaved)  BY DEF Init
<1> QED BY <1>1, <1>2, <1>3, <1>4 DEF StoreInv

\* A call that makes what is new, or decides what is not decided, keeps the invariant.
LEMMA CallInvariant ==
  ASSUME TypeOK, StoreInv, NEW steps \in Seq(Step), steps # <<>>, NEW x, NEW c,
         Call(steps, x, c), used \subseteq used', x \in used',
         \A i \in DOMAIN steps :
           /\ steps[i].id = x
           /\ steps[i].do \in {"create", "submit"} => i = 1 /\ x \notin used
           /\ steps[i].do = "decide" => i = 1 /\ mem.request[x] = "submitted"
  PROVE  StoreInv'
<1>1. /\ job' = [steps |-> steps, id |-> {x}, caught |-> c]
      /\ UNCHANGED <<up, mem, file, time, told, toldUnsaved, unsaved>> /\ up
  BY DEF Call
<1>2. ToldIsKept'  BY <1>1 DEF StoreInv, ToldIsKept, StateOf
<1>3. MemoryIsSaved'  BY <1>1 DEF MemoryIsSaved
<1>4. StepsAreNew'
  <2>1. \A o \in told \cup toldUnsaved : o.of \in used  BY DEF StoreInv, KnownIds
  <2> QED BY <1>1, <2>1 DEF StepsAreNew
<1>5. KnownIds'  BY <1>1 DEF StoreInv, KnownIds, StateOf
<1>6. Tidy(mem)' /\ Tidy(file)' /\ (\A s \in Sessions : mem.updatedAt[s] <= time /\ file.updatedAt[s] <= time)'
  BY <1>1 DEF StoreInv
<1>7. (job # Idle => up /\ (job.steps = <<>> => file = mem /\ ~unsaved))'  BY <1>1
<1> QED BY <1>2, <1>3, <1>4, <1>5, <1>6, <1>7 DEF StoreInv

\* The calls, each with its steps.
LEMMA CallsInvariant ==
  ASSUME TypeOK, StoreInv
  PROVE  /\ \A s \in Sessions : NewSession(s) \/ PostMessage(s) \/ PostClose(s) => StoreInv'
         /\ \A s \in Sessions, close \in BOOLEAN : PostCommand(s, close) => StoreInv'
         /\ \A r \in Requests : PostRequest(r) => StoreInv'
         /\ \A r \in Requests, verdict \in Verdicts : PostDecision(r, verdict) => StoreInv'
<1> USE DEF Appends, Closes
<1>1. \A x \in Sessions \cup Requests : StateOf(mem, x) # "absent" => x \in used
  BY DEF StoreInv, KnownIds
<1>2. \A s \in Sessions : mem.status[s] # "absent" => s \in used  BY <1>1 DEF StateOf
<1>3. \A r \in Requests : mem.request[r] = "submitted" => r \in used
  BY <1>1, IdsAreDistinct DEF StateOf
<1>4. ASSUME NEW s \in Sessions, NewSession(s) PROVE StoreInv'
  <2> DEFINE steps == <<[do |-> "create", id |-> s], Appends(s, "status")>>
  <2>1. steps \in Seq(Step)  BY DEF Step, Kinds
  <2>2. Call(steps, s, TRUE) /\ used' = used \cup {s} /\ s \notin used  BY <1>4 DEF NewSession
  <2>3. steps # <<>> /\ \A i \in DOMAIN steps : steps[i].id = s /\ ((i = 1 /\ steps[i].do = "create") \/ steps[i].do = "append")
    OBVIOUS
  <2> HIDE DEF steps
  <2> QED BY <2>1, <2>2, <2>3, CallInvariant
<1>5. ASSUME NEW s \in Sessions, PostMessage(s) PROVE StoreInv'
  <2> DEFINE steps == <<Appends(s, "message")>>
  <2>1. steps \in Seq(Step)  BY DEF Step, Kinds
  <2>2. Call(steps, s, TRUE) /\ used' = used /\ s \in used  BY <1>2, <1>5 DEF PostMessage
  <2>3. steps # <<>> /\ \A i \in DOMAIN steps : steps[i].id = s /\ (steps[i].do = "append")
    OBVIOUS
  <2> HIDE DEF steps
  <2> QED BY <2>1, <2>2, <2>3, CallInvariant
<1>6. ASSUME NEW s \in Sessions, PostClose(s) PROVE StoreInv'
  <2> DEFINE steps == <<Closes(s), Appends(s, "status")>>
  <2>1. steps \in Seq(Step)  BY DEF Step, Kinds
  <2>2. Call(steps, s, FALSE) /\ used' = used /\ s \in used  BY <1>2, <1>6 DEF PostClose
  <2>3. steps # <<>> /\ \A i \in DOMAIN steps : steps[i].id = s /\ (steps[i].do \in {"append", "close"})
    OBVIOUS
  <2> HIDE DEF steps
  <2> QED BY <2>1, <2>2, <2>3, CallInvariant
<1>7. ASSUME NEW s \in Sessions, NEW close \in BOOLEAN, PostCommand(s, close) PROVE StoreInv'
  <2> DEFINE steps == CommandSteps(s, close)
  <2>1. /\ steps \in Seq(Step) /\ steps # <<>>
        /\ \A i \in DOMAIN steps : steps[i].id = s /\ steps[i].do \in {"append", "close"}
    <3>1. Closes(s) \in Step /\ \A kind \in Kinds : Appends(s, kind) \in Step  BY DEF Step
    <3>2. CASE close /\ mem.status[s] \notin Terminal  BY <3>1, <3>2 DEF CommandSteps, Kinds
    <3>3. CASE ~(close /\ mem.status[s] \notin Terminal)  BY <3>1, <3>3 DEF CommandSteps, Kinds
    <3> QED BY <3>2, <3>3
  <2>2. Call(steps, s, TRUE) /\ used' = used /\ s \in used  BY <1>2, <1>7 DEF PostCommand
  <2> HIDE DEF steps
  <2> QED BY <2>1, <2>2, CallInvariant
<1>8. ASSUME NEW r \in Requests, PostRequest(r) PROVE StoreInv'
  <2> DEFINE steps == <<[do |-> "submit", id |-> r]>>
  <2>1. steps \in Seq(Step)  BY DEF Step
  <2>2. Call(steps, r, TRUE) /\ used' = used \cup {r} /\ r \notin used  BY <1>8 DEF PostRequest
  <2>3. steps # <<>> /\ \A i \in DOMAIN steps : steps[i].id = r /\ (i = 1 /\ steps[i].do = "submit")
    OBVIOUS
  <2> HIDE DEF steps
  <2> QED BY <2>1, <2>2, <2>3, CallInvariant
<1>9. ASSUME NEW r \in Requests, NEW verdict \in Verdicts, PostDecision(r, verdict) PROVE StoreInv'
  <2> DEFINE steps == <<[do |-> "decide", id |-> r, verdict |-> verdict]>>
  <2>1. steps \in Seq(Step)  BY DEF Step
  <2>2. Call(steps, r, TRUE) /\ used' = used /\ r \in used /\ mem.request[r] = "submitted"
    BY <1>3, <1>9 DEF PostDecision, MayDecide
  <2>3. steps # <<>> /\ \A i \in DOMAIN steps : steps[i].id = r /\ (i = 1 /\ steps[i].do = "decide")
    OBVIOUS
  <2> HIDE DEF steps
  <2> QED BY <2>1, <2>2, <2>3, CallInvariant
<1> QED BY <1>4, <1>5, <1>6, <1>7, <1>8, <1>9

\* What a step of the running handler does to memory, before it is known whether its write succeeds.
LEMMA MemoryInvariant ==
  ASSUME TypeOK, StoreInv, up, job.steps # <<>>,
         NEW m, m = After(mem, Head(job.steps), time + 1)
  PROVE  /\ m \in Maps /\ Tidy(m)
         /\ \A o \in told \cup toldUnsaved : StateOf(m, o.of) \in {o.is, "absent"}
         /\ \A x \in Sessions \cup Requests : StateOf(m, x) # "absent" => x \in used
         /\ \A s \in Sessions : m.updatedAt[s] <= time + 1
<1> DEFINE step == Head(job.steps)
<1>1. /\ mem \in Maps /\ step \in Step /\ time + 1 \in Nat /\ 1 \in DOMAIN job.steps
      /\ step = job.steps[1]
  BY DEF TypeOK, Job
<1>2. /\ \A o \in told \cup toldUnsaved : StateOf(mem, o.of) \in {o.is, "absent"}
      /\ step.do \in {"create", "submit"} => \A o \in told \cup toldUnsaved : o.of # step.id
      /\ step.do = "decide" => mem.request[step.id] = "submitted"
      /\ step.id \in used
      /\ \A x \in Sessions \cup Requests : StateOf(mem, x) # "absent" => x \in used
      /\ told \cup toldUnsaved \subseteq Outcome
  BY <1>1 DEF StoreInv, ToldIsKept, StepsAreNew, KnownIds, TypeOK
<1>3. \A s \in Sessions : mem.updatedAt[s] <= time + 1
  BY <1>1 DEF StoreInv, TypeOK, Maps
<1> HIDE DEF step
<1>4. m \in Maps /\ Tidy(m)
  BY <1>1, <1>2, AfterType, StepStaysTidy DEF StoreInv, step
<1>5. \A o \in told \cup toldUnsaved : StateOf(m, o.of) \in {o.is, "absent"}
  BY <1>1, <1>2, StepKeepsOutcome DEF step
<1>6. \A x \in Sessions \cup Requests : StateOf(m, x) # "absent" => x \in used
  BY <1>1, <1>2, StepKnows DEF step
<1>7. \A s \in Sessions : m.updatedAt[s] <= time + 1
  BY <1>1, <1>3, StepTime DEF step
<1> QED BY <1>4, <1>5, <1>6, <1>7

LEMMA NextInvariant == TypeOK /\ TypeOK' /\ StoreInv /\ [Next]_vars => StoreInv'
<1> SUFFICES ASSUME TypeOK, TypeOK', StoreInv, [Next]_vars PROVE StoreInv'
  OBVIOUS
<1>1. CASE Saves
  <2>1. /\ up /\ job.steps # <<>> /\ mem' = After(mem, Head(job.steps), time + 1) /\ file' = mem'
        /\ job' = [job EXCEPT !.steps = Tail(job.steps)] /\ time' = time + 1 /\ UNCHANGED <<up, used>>
        /\ told' = told \cup toldUnsaved /\ toldUnsaved' = {} /\ unsaved' = FALSE
    BY <1>1 DEF Saves, Stored
  <2>2. /\ Tidy(mem')
        /\ \A o \in told \cup toldUnsaved : StateOf(mem', o.of) \in {o.is, "absent"}
        /\ \A x \in Sessions \cup Requests : StateOf(mem', x) # "absent" => x \in used
        /\ \A s \in Sessions : mem'.updatedAt[s] <= time + 1
    BY <2>1, MemoryInvariant
  <2>3. /\ job'.steps = Tail(job.steps) /\ job'.id = job.id
        /\ \A i \in DOMAIN job'.steps : /\ i + 1 \in DOMAIN job.steps /\ i + 1 # 1
                                        /\ job'.steps[i] = job.steps[i + 1]
    BY <2>1 DEF TypeOK, Job
  <2>4. ToldIsKept'  BY <2>1, <2>2 DEF ToldIsKept, StateOf
  <2>5. MemoryIsSaved'  BY <2>1 DEF MemoryIsSaved
  <2>6. StepsAreNew'
    <3>1. \A i \in DOMAIN job'.steps : job'.steps[i].do \notin {"create", "submit", "decide"}
      BY <2>3 DEF StoreInv, StepsAreNew
    <3> QED BY <3>1 DEF StepsAreNew
  <2>7. KnownIds'  BY <2>1, <2>2, <2>3 DEF StoreInv, KnownIds, StateOf
  <2>8. Tidy(mem)' /\ Tidy(file)'
        /\ (\A s \in Sessions : mem.updatedAt[s] <= time /\ file.updatedAt[s] <= time)'
    BY <2>1, <2>2
  <2> QED BY <2>1, <2>4, <2>5, <2>6, <2>7, <2>8 DEF StoreInv
<1>2. CASE SaveFails
  <2>1. /\ up /\ job.steps # <<>> /\ mem' = After(mem, Head(job.steps), time + 1)
        /\ job' = Idle /\ time' = time + 1 /\ unsaved' = TRUE /\ UNCHANGED <<up, file, used, told, toldUnsaved>>
    BY <1>2 DEF SaveFails
  <2>2. /\ Tidy(mem')
        /\ \A o \in told \cup toldUnsaved : StateOf(mem', o.of) \in {o.is, "absent"}
        /\ \A x \in Sessions \cup Requests : StateOf(mem', x) # "absent" => x \in used
        /\ \A s \in Sessions : mem'.updatedAt[s] <= time + 1
    BY <2>1, MemoryInvariant
  <2>3. ToldIsKept'  BY <2>1, <2>2 DEF StoreInv, ToldIsKept, StateOf
  <2>4. MemoryIsSaved'  BY <2>1 DEF MemoryIsSaved
  <2>5. StepsAreNew'  BY <2>1, IdleSteps DEF StepsAreNew
  <2>6. KnownIds'  BY <2>1, <2>2, IdleSteps DEF StoreInv, KnownIds, StateOf
  <2>7. \A s \in Sessions : mem'.updatedAt[s] <= time' /\ file'.updatedAt[s] <= time'
    BY <2>1, <2>2 DEF StoreInv, TypeOK, Maps
  <2>8. Tidy(mem)' /\ Tidy(file)'  BY <2>1, <2>2 DEF StoreInv
  <2> QED BY <2>1, <2>3, <2>4, <2>5, <2>6, <2>7, <2>8 DEF StoreInv
<1>3. CASE SaveKills \/ Crash
  <2>1. /\ up' = FALSE /\ mem' = NoMaps /\ job' = Idle /\ toldUnsaved' = {}
        /\ UNCHANGED <<file, time, used, told>>
    BY <1>3 DEF SaveKills, Crash
  <2>2. ToldIsKept'  BY <2>1 DEF StoreInv, ToldIsKept, StateOf
  <2>3. MemoryIsSaved'  BY <2>1 DEF MemoryIsSaved
  <2>4. StepsAreNew'  BY <2>1, IdleSteps DEF StepsAreNew
  <2>5. KnownIds'  BY <2>1, IdleSteps, NoMapsTidy DEF StoreInv, KnownIds, StateOf
  <2>6. Tidy(mem)' /\ Tidy(file)'
        /\ (\A s \in Sessions : mem.updatedAt[s] <= time /\ file.updatedAt[s] <= time)'
    BY <2>1, NoMapsTidy DEF StoreInv, TypeOK
  <2> QED BY <2>1, <2>2, <2>3, <2>4, <2>5, <2>6 DEF StoreInv
<1>4. CASE Answer
  <2>1. /\ up /\ job # Idle /\ job.steps = <<>> /\ job' = Idle
        /\ Tell(job.id)
        /\ UNCHANGED <<up, mem, file, time, used, unsaved>>
    BY <1>4 DEF Answer
  <2>2. file = mem /\ ~unsaved  BY <2>1 DEF StoreInv
  <2>3. /\ \A o \in told' : o \in told \/ (o.of \in job.id /\ o.is = StateOf(mem, o.of))
        /\ toldUnsaved' = toldUnsaved
    BY <2>1, <2>2 DEF Tell
  <2>4. ToldIsKept'  BY <2>1, <2>2, <2>3 DEF StoreInv, ToldIsKept, StateOf
  <2>5. MemoryIsSaved'  BY <2>1, <2>2 DEF MemoryIsSaved
  <2>6. StepsAreNew'  BY <2>1, IdleSteps DEF StepsAreNew
  <2>7. KnownIds'  BY <2>1, <2>3, IdleSteps DEF StoreInv, KnownIds, StateOf
  <2>8. Tidy(mem)' /\ Tidy(file)'
        /\ (\A s \in Sessions : mem.updatedAt[s] <= time /\ file.updatedAt[s] <= time)'
    BY <2>1 DEF StoreInv
  <2> QED BY <2>1, <2>4, <2>5, <2>6, <2>7, <2>8 DEF StoreInv
<1>5. CASE Start
  <2>1. mem' = file
    BY <1>5, LoadedIsSaved DEF Start, StoreInv, TypeOK
  <2>2. ~up /\ up' /\ UNCHANGED <<file, job, time, used, told, toldUnsaved>>  BY <1>5 DEF Start
  <2>3. job = Idle  BY <2>2 DEF StoreInv
  <2>4. ToldIsKept'  BY <2>1, <2>2 DEF StoreInv, ToldIsKept, StateOf
  <2>5. MemoryIsSaved'  BY <2>1, <2>2 DEF MemoryIsSaved
  <2>6. StepsAreNew'  BY <2>2, <2>3, IdleSteps DEF StepsAreNew
  <2>7. KnownIds'  BY <2>1, <2>2 DEF StoreInv, KnownIds, StateOf
  <2>8. Tidy(mem)' /\ Tidy(file)'
        /\ (\A s \in Sessions : mem.updatedAt[s] <= time /\ file.updatedAt[s] <= time)'
    BY <2>1, <2>2 DEF StoreInv
  <2> QED BY <2>2, <2>3, <2>4, <2>5, <2>6, <2>7, <2>8 DEF StoreInv
<1>6. ASSUME NEW ids, Tells(ids) PROVE StoreInv'
  <2>1. up /\ job = Idle /\ Tell(ids) /\ UNCHANGED <<up, mem, file, job, time, used, unsaved>>
    BY <1>6 DEF Tells
  <2>2. ~unsaved => file = mem  BY <2>1, IdleSteps DEF StoreInv, MemoryIsSaved
  <2>3. /\ \A o \in told' : o \in told \/ (~unsaved /\ o.is = StateOf(mem, o.of))
        /\ \A o \in toldUnsaved' : o \in toldUnsaved \/ o.is = StateOf(mem, o.of)
        /\ \A o \in told' \cup toldUnsaved' :
             o \in told \cup toldUnsaved \/ StateOf(mem, o.of) \in Final(o.of)
    BY <2>1 DEF Tell
  <2>4. ToldIsKept'  BY <2>1, <2>2, <2>3 DEF StoreInv, ToldIsKept, StateOf
  <2>5. MemoryIsSaved'  BY <2>1 DEF StoreInv, MemoryIsSaved
  <2>6. StepsAreNew'  BY <2>1, IdleSteps DEF StepsAreNew
  <2>7. KnownIds'
    <3>1. \A o \in told' \cup toldUnsaved' : o.of \in Sessions \cup Requests
      BY DEF TypeOK, Outcome
    <3>2. \A x : "absent" \notin Final(x)  BY VerdictsAreStates DEF Final, Terminal
    <3>3. \A o \in told' \cup toldUnsaved' : o.of \in used
      BY <2>3, <3>1, <3>2 DEF StoreInv, KnownIds
    <3> QED BY <2>1, <3>3 DEF StoreInv, KnownIds, StateOf
  <2>8. Tidy(mem)' /\ Tidy(file)'
        /\ (\A s \in Sessions : mem.updatedAt[s] <= time /\ file.updatedAt[s] <= time)'
    BY <2>1 DEF StoreInv
  <2> QED BY <2>1, <2>4, <2>5, <2>6, <2>7, <2>8 DEF StoreInv
<1>7. CASE UNCHANGED vars
  BY <1>7 DEF vars, StoreInv, ToldIsKept, MemoryIsSaved, StepsAreNew, KnownIds, Tidy, StateOf,
              Surplus, Closed, SurplusRequests, Submitted
<1> QED BY <1>1, <1>2, <1>3, <1>4, <1>5, <1>6, <1>7, CallsInvariant DEF Next, Read, RefuseDecision

(* The inductive invariant of the work store: what callers were told is kept, memory is saved *)
(* and tidy, and handlers make something new only once (the steps of the handlers under       *)
(* /api/work-sessions and /api/work-requests, and loadWorkflowStore).                         *)
THEOREM StoreInvariant == Spec => []StoreInv
BY InitInvariant, NextInvariant, StoreTypeCorrect, PTL DEF Spec

(* A session that anyone was told is closed, or a request that anyone was told is decided, is so *)
(* in memory and in the file for as long as it is kept. What was read while the last write had   *)
(* failed is so in memory, and in the file from the next write on; a process that ends before    *)
(* forgets it.                                                                                   *)
THEOREM OutcomesAreKept == Spec => []ToldIsKept
<1>1. StoreInv => ToldIsKept  BY DEF StoreInv
<1> QED BY <1>1, StoreInvariant, PTL

(* Whenever no handler runs and the last write did not fail, the file is what memory is: in    *)
(* particular after a restart, which prunes and cuts nothing that was saved.                   *)
THEOREM MemoryStaysSaved == Spec => []MemoryIsSaved
<1>1. StoreInv => MemoryIsSaved  BY DEF StoreInv
<1> QED BY <1>1, StoreInvariant, PTL

(* No open session is ever dropped: not by pruning, even of the session being closed, and not by *)
(* a restart.                                                                                    *)
THEOREM OpenSessionsAreKept == Spec => OpenSessionsSurvive
<1> DEFINE Kept == \A s \in Sessions :
                     \/ up /\ up' /\ mem.status[s] = "active"
                     \/ ~up /\ up' /\ file.status[s] = "active"
                     => mem'.status[s] # "absent"
<1>1. TypeOK /\ StoreInv /\ [Next]_vars => [Kept]_vars
  <2> SUFFICES ASSUME TypeOK, StoreInv, Next PROVE Kept
    BY DEF vars
  <2>1. CASE Saves \/ SaveFails
    <3>1. /\ up /\ mem' = After(mem, Head(job.steps), time + 1) /\ Head(job.steps) \in Step /\ time + 1 \in Nat
      BY <2>1 DEF Saves, SaveFails, TypeOK, Job
    <3>2. mem \in Maps /\ \A x \in Sessions : mem.updatedAt[x] < time + 1
      BY DEF StoreInv, TypeOK, Maps
    <3> QED BY <3>1, <3>2, StepKeepsOpen
  <2>2. CASE SaveKills \/ Crash  BY <2>2 DEF SaveKills, Crash
  <2>3. CASE Start
    <3>1. mem' = file /\ ~up  BY <2>3, LoadedIsSaved DEF Start, StoreInv, TypeOK
    <3> QED BY <3>1
  <2>4. CASE mem' = mem /\ up  BY <2>4
  <2>5. Saves \/ SaveFails \/ SaveKills \/ Crash \/ Start \/ (mem' = mem /\ up)
    BY DEF Next, NewSession, PostMessage, PostClose, PostCommand, PostRequest, PostDecision, Call, Answer,
             Read, RefuseDecision, Tells
  <2> QED BY <2>1, <2>2, <2>3, <2>4, <2>5
<1> QED BY <1>1, StoreTypeCorrect, StoreInvariant, PTL DEF Spec, OpenSessionsSurvive

-----------------------------------------------------------------------------
(* Lists of messages *)

Sent(t, step) == [createdAt |-> t, kind |-> step.kind]

\* A ring is the end of the list.
LEMMA RingIsTheEnd ==
  ASSUME NEW list \in Seq(Message)
  PROVE  /\ Ring(list) \in Seq(Message) /\ Len(Ring(list)) <= MaxMessages
         /\ \E c \in Nat :
              /\ Len(list) = Len(Ring(list)) + c
              /\ \A k \in 1..Len(Ring(list)) : Ring(list)[k] = list[k + c]
         /\ list # <<>> => Ring(list) # <<>> /\ Ring(list)[Len(Ring(list))] = list[Len(list)]
<1>1. MaxMessages \in Nat \ {0}  BY LimitsArePositive
<1>2. CASE Len(list) > MaxMessages
  <2> DEFINE c == Len(list) - MaxMessages
  <2>1. Ring(list) = SubSeq(list, c + 1, Len(list))  BY <1>2 DEF Ring
  <2>2. c \in Nat /\ Len(list) \in Nat /\ c + 1 <= Len(list)  BY <1>1, <1>2
  <2>3. /\ Len(SubSeq(list, c + 1, Len(list))) = MaxMessages
        /\ \A k \in 1..MaxMessages : SubSeq(list, c + 1, Len(list))[k] = list[k + c]
    BY <1>1, <2>2
  <2>4. Len(list) = MaxMessages + c  BY <1>1, <2>2
  <2> HIDE DEF c
  <2>5. Len(Ring(list)) = MaxMessages /\ \A k \in 1..MaxMessages : Ring(list)[k] = list[k + c]
    BY <2>1, <2>3
  <2>6. Ring(list) # <<>> /\ Ring(list)[MaxMessages] = list[Len(list)]
    BY <1>1, <2>4, <2>5
  <2> QED BY <2>2, <2>4, <2>5, <2>6, RingType
<1>3. CASE ~(Len(list) > MaxMessages)
  <2>1. Ring(list) = list  BY <1>3 DEF Ring
  <2>2. Len(list) = Len(list) + 0 /\ \A k \in 1..Len(list) : list[k] = list[k + 0]  OBVIOUS
  <2> QED BY <2>1, <2>2, RingType
<1> QED BY <1>2, <1>3

\* What a list of messages is, of itself: in order of time and not after t.
InOrder(list, t) ==
  /\ \A i, j \in DOMAIN list : i < j => list[i].createdAt < list[j].createdAt
  /\ \A i \in DOMAIN list : list[i].createdAt <= t

\* A list takes a later message, and stays in order when its oldest go.
LEMMA SentLast ==
  ASSUME NEW list \in Seq(Message), NEW t \in Nat, InOrder(list, t),
         NEW msg \in Message, msg.createdAt = t + 1
  PROVE  LET new == Ring(Append(list, msg)) IN
         /\ new \in Seq(Message) /\ Len(new) <= MaxMessages /\ new # <<>>
         /\ new[Len(new)] = msg /\ InOrder(new, t + 1)
<1> DEFINE long == Append(list, msg)
           new == Ring(long)
<1>1. /\ long \in Seq(Message) /\ Len(long) = Len(list) + 1 /\ long # <<>>
      /\ long[Len(list) + 1] = msg /\ \A i \in 1..Len(list) : long[i] = list[i]
      /\ Len(list) \in Nat /\ DOMAIN list = 1..Len(list)
  <2>1. Len(list) \in Nat /\ DOMAIN list = 1..Len(list)  OBVIOUS
  <2>2. long \in Seq(Message) /\ Len(long) = Len(list) + 1  OBVIOUS
  <2>3. long[Len(list) + 1] = msg /\ \A i \in 1..Len(list) : long[i] = list[i]  OBVIOUS
  <2>4. long # <<>>  OBVIOUS
  <2> QED BY <2>1, <2>2, <2>3, <2>4
<1> HIDE DEF long
<1>2. ASSUME NEW i \in 1..(Len(list) + 1), NEW j \in 1..(Len(list) + 1), i < j
      PROVE  long[i].createdAt < long[j].createdAt
  <2>1. i \in 1..Len(list) /\ list[i] \in Message  BY <1>1, <1>2
  <2>2. list[i].createdAt \in Nat /\ list[i].createdAt <= t
    BY <1>1, <2>1 DEF InOrder, Message
  <2>3. CASE j = Len(list) + 1  BY <1>1, <2>1, <2>2, <2>3
  <2>4. CASE j \in 1..Len(list)  BY <1>1, <1>2, <2>1, <2>4 DEF InOrder
  <2> QED BY <1>1, <2>3, <2>4
<1>3. ASSUME NEW i \in 1..(Len(list) + 1) PROVE long[i].createdAt <= t + 1
  <2>1. CASE i = Len(list) + 1  BY <1>1, <2>1
  <2>2. CASE i \in 1..Len(list)
    <3>1. list[i] \in Message  BY <1>1, <2>2
    <3>2. list[i].createdAt \in Nat /\ list[i].createdAt <= t
      BY <1>1, <2>2, <3>1 DEF InOrder, Message
    <3> QED BY <1>1, <2>2, <3>2
  <2> QED BY <1>1, <2>1, <2>2
<1>4. /\ new \in Seq(Message) /\ Len(new) <= MaxMessages /\ new # <<>>
      /\ new[Len(new)] = msg
  BY <1>1, RingIsTheEnd
<1>5. PICK c \in Nat : /\ Len(long) = Len(new) + c
                       /\ \A k \in 1..Len(new) : new[k] = long[k + c]
  BY <1>1, RingIsTheEnd
<1> HIDE DEF new
<1>6. DOMAIN new = 1..Len(new) /\ Len(new) \in Nat  BY <1>4
<1>7. InOrder(new, t + 1)
  <2>1. ASSUME NEW i \in DOMAIN new, NEW j \in DOMAIN new, i < j
        PROVE  new[i].createdAt < new[j].createdAt
    <3>1. i + c \in 1..(Len(list) + 1) /\ j + c \in 1..(Len(list) + 1) /\ i + c < j + c
      BY <1>1, <1>5, <1>6, <2>1
    <3> QED BY <1>2, <1>5, <1>6, <3>1
  <2>2. ASSUME NEW i \in DOMAIN new PROVE new[i].createdAt <= t + 1
    <3>1. i + c \in 1..(Len(list) + 1)  BY <1>1, <1>5, <1>6
    <3> QED BY <1>3, <1>5, <1>6, <3>1
  <2> QED BY <2>1, <2>2 DEF InOrder
<1> QED BY <1>4, <1>7 DEF new, long

\* What a step does to a session's messages.
LEMMA StepSends ==
  ASSUME NEW m \in Maps, Tidy(m), NEW step \in Step, NEW t \in Nat, NEW s \in Sessions
  PROVE  LET new == After(m, step, t).messages[s] IN
         \/ new = <<>>
         \/ new = m.messages[s] /\ ~(step.do = "append" /\ step.id = s)
         \/ /\ step.do = "append" /\ step.id = s /\ step.kind \in Kinds
            /\ new = Ring(Append(m.messages[s], Sent(t, step)))
<1> DEFINE w == Written(m, step, t)
<1>1. w \in Maps  BY WrittenType
<1>2. CASE After(m, step, t) = m
  <2>1. CASE step.do = "append" /\ step.id = s
    <3>1. CASE m.status[s] = "absent"  BY <1>2, <3>1, TidyLists
    <3>2. CASE m.status[s] # "absent"
      <4>1. After(m, step, t) = PruneSessions(w)
        BY <2>1, <3>2 DEF After, AppendMessage, Written
      <4>2. step.kind \in Kinds /\ step.id \in Sessions  BY <2>1 DEF Step
      <4>3. w.messages[s] = Ring(Append(m.messages[s], Sent(t, step)))
        BY <2>1, <4>2 DEF Written, Maps, Sent
      <4> HIDE DEF w
      <4>4. PruneSessions(w).messages[s] \in {<<>>, w.messages[s]}
        BY <1>1 DEF PruneSessions, WithoutSessions, Maps
      <4> QED BY <2>1, <4>1, <4>2, <4>3, <4>4
    <3> QED BY <3>1, <3>2
  <2> QED BY <1>2, <2>1
<1>3. CASE /\ step.do \in {"create", "close", "append"}
           /\ After(m, step, t) = PruneSessions(w)
  <2>1. \/ w.messages[s] = m.messages[s] /\ ~(step.do = "append" /\ step.id = s)
        \/ /\ step.do = "append" /\ step.id = s /\ step.kind \in Kinds
           /\ w.messages[s] = Ring(Append(m.messages[s], Sent(t, step)))
    <3>1. CASE step.do \in {"create", "close"}  BY <3>1 DEF Written, Maps
    <3>2. CASE step.do = "append"
      <4>1. step.id \in Sessions /\ step.kind \in Kinds  BY <3>2 DEF Step
      <4> QED BY <3>2, <4>1 DEF Written, Maps, Sent
    <3> QED BY <1>3, <3>1, <3>2
  <2> HIDE DEF w
  <2>2. PruneSessions(w).messages[s] \in {<<>>, w.messages[s]}
    BY <1>1 DEF PruneSessions, WithoutSessions, Maps
  <2> QED BY <1>3, <2>1, <2>2
<1>4. CASE step.do = "submit" /\ After(m, step, t) = PruneRequests(w)
  <2>1. w.messages = m.messages  BY <1>4 DEF Written, Maps
  <2> HIDE DEF w
  <2> QED BY <1>1, <1>4, <2>1, PruneOnlyDrops
<1>5. CASE step.do = "decide" /\ After(m, step, t) = w
  BY <1>5 DEF Written, Maps
<1> QED BY <1>2, <1>3, <1>4, <1>5, AfterIsPruned

-----------------------------------------------------------------------------
(* Lists fit their sessions *)

\* What is left of the lists when sessions go fits what is left of the sessions.
LEMMA PrunedFits ==
  ASSUME NEW m \in Maps, MessagesFit(m)
  PROVE  MessagesFit(PruneSessions(m)) /\ MessagesFit(PruneRequests(m))
<1> DEFINE p == PruneSessions(m)
           q == PruneRequests(m)
<1>1. MessagesFit(p)
  <2>1. ASSUME NEW s \in Sessions
        PROVE  \/ p.messages[s] = <<>>
               \/ /\ p.messages[s] = m.messages[s] /\ p.status[s] = m.status[s]
                  /\ p.lastMessageAt[s] = m.lastMessageAt[s] /\ p.updatedAt[s] = m.updatedAt[s]
    BY DEF PruneSessions, WithoutSessions, Maps
  <2> HIDE DEF p
  <2>2. <<>> \in Seq(Message) /\ Len(<<>>) = 0 /\ DOMAIN <<>> = {}  OBVIOUS
  <2> QED BY <2>1, <2>2, LimitsArePositive DEF MessagesFit
<1>2. /\ q.messages = m.messages /\ q.status = m.status
      /\ q.lastMessageAt = m.lastMessageAt /\ q.updatedAt = m.updatedAt
  BY DEF PruneRequests, Maps
<1> HIDE DEF p, q
<1>3. MessagesFit(q)  BY <1>2 DEF MessagesFit
<1> QED BY <1>1, <1>3 DEF p, q

LEMMA FitInOrder ==
  ASSUME NEW m \in Maps, MessagesFit(m), NEW t \in Nat, NEW s \in Sessions, m.updatedAt[s] <= t
  PROVE  m.messages[s] \in Seq(Message) /\ InOrder(m.messages[s], t)
<1> DEFINE list == m.messages[s]
<1>1. list \in Seq(Message) /\ m.lastMessageAt[s] \in Nat /\ m.updatedAt[s] \in Nat  BY DEF Maps
<1>2. \A i \in DOMAIN list : list[i] \in Message  BY <1>1
<1>3. \A i, j \in DOMAIN list : i < j => list[i].createdAt < list[j].createdAt
  BY DEF MessagesFit
<1>4. ASSUME NEW i \in DOMAIN list PROVE list[i].createdAt <= t
  <2>1. list # <<>> /\ Len(list) \in DOMAIN list /\ (i < Len(list) \/ i = Len(list))  BY <1>1
  <2>2. list[Len(list)].createdAt <= t  BY <1>1, <2>1 DEF MessagesFit
  <2>3. list[i].createdAt \in Nat /\ list[Len(list)].createdAt \in Nat
    BY <1>2, <2>1 DEF Message
  <2>4. i < Len(list) => list[i].createdAt < list[Len(list)].createdAt  BY <1>3, <2>1
  <2> QED BY <2>1, <2>2, <2>3, <2>4
<1> QED BY <1>1, <1>3, <1>4 DEF InOrder

LEMMA StepFits ==
  ASSUME NEW m \in Maps, MessagesFit(m), NEW step \in Step, NEW t \in Nat,
         \A s \in Sessions : m.updatedAt[s] <= t
  PROVE  MessagesFit(After(m, step, t + 1))
<1> DEFINE w == Written(m, step, t + 1)
<1>1. w \in Maps /\ t + 1 \in Nat  BY WrittenType
<1>2. CASE step.do \in {"create", "close"} /\ step.id \in Sessions
           /\ (step.do # "create" => m.status[step.id] # "absent")
  <2>1. /\ w.messages = m.messages /\ w.lastMessageAt = m.lastMessageAt
        /\ \A s \in Sessions : /\ w.status[s] = "absent" => m.status[s] = "absent"
                               /\ w.updatedAt[s] \in {m.updatedAt[s], t + 1}
    BY <1>2 DEF Written, Maps
  <2> HIDE DEF w
  <2>2. ASSUME NEW s \in Sessions PROVE m.lastMessageAt[s] <= m.updatedAt[s] => m.lastMessageAt[s] <= w.updatedAt[s]
    <3>1. m.lastMessageAt[s] \in Nat /\ m.updatedAt[s] \in Nat /\ m.updatedAt[s] <= t  BY DEF Maps
    <3> QED BY <2>1, <3>1
  <2>3. MessagesFit(w)  BY <2>1, <2>2 DEF MessagesFit
  <2> QED BY <1>1, <2>3, PrunedFits, <1>2, AfterIsPruned DEF w
<1>3. CASE step.do = "append" /\ m.status[step.id] # "absent"
  <2> DEFINE x == step.id
             msg == Sent(t + 1, step)
             new == Ring(Append(m.messages[x], msg))
  <2>1. x \in Sessions /\ step.kind \in Kinds  BY <1>3 DEF Step
  <2>2. msg \in Message /\ msg.createdAt = t + 1  BY <2>1 DEF Sent, Message
  <2>3. m.messages[x] \in Seq(Message) /\ InOrder(m.messages[x], t)  BY <2>1, FitInOrder
  <2> HIDE DEF msg
  <2>4. /\ new \in Seq(Message) /\ Len(new) <= MaxMessages /\ new # <<>>
        /\ new[Len(new)] = msg /\ InOrder(new, t + 1)
    BY <2>2, <2>3, SentLast
  <2>5. w = [m EXCEPT !.messages[x] = new, !.updatedAt[x] = t + 1, !.lastMessageAt[x] = t + 1]
    BY <1>3 DEF Written, Sent, msg
  <2> HIDE DEF w, new, x
  <2>6. /\ w.status = m.status
        /\ w.messages[x] = new /\ w.updatedAt[x] = t + 1 /\ w.lastMessageAt[x] = t + 1
        /\ \A s \in Sessions : s # x => /\ w.messages[s] = m.messages[s]
                                        /\ w.updatedAt[s] = m.updatedAt[s]
                                        /\ w.lastMessageAt[s] = m.lastMessageAt[s]
    BY <2>1, <2>5 DEF Maps
  <2>7. MessagesFit(w)
    <3> SUFFICES ASSUME NEW s \in Sessions
                 PROVE  LET list == w.messages[s] IN
                        /\ w.status[s] = "absent" => list = <<>>
                        /\ Len(list) <= MaxMessages
                        /\ \A i, j \in DOMAIN list : i < j => list[i].createdAt < list[j].createdAt
                        /\ list # <<>> => /\ list[Len(list)].createdAt = w.lastMessageAt[s]
                                          /\ w.lastMessageAt[s] <= w.updatedAt[s]
      BY DEF MessagesFit
    <3>1. CASE s = x
      <4>1. w.status[s] # "absent"  BY <1>3, <2>6, <3>1 DEF x
      <4> QED BY <2>2, <2>4, <2>6, <3>1, <4>1 DEF InOrder
    <3>2. CASE s # x  BY <2>6, <3>2 DEF MessagesFit
    <3> QED BY <3>1, <3>2
  <2>8. After(m, step, t + 1) = PruneSessions(w)
    BY <1>3 DEF After, AppendMessage, Written, w
  <2> QED BY <1>1, <2>7, <2>8, PrunedFits DEF w
<1>4. CASE step.do \in {"submit", "decide"}
  <2>1. /\ w.messages = m.messages /\ w.lastMessageAt = m.lastMessageAt
        /\ w.status = m.status /\ w.updatedAt = m.updatedAt
    BY <1>4 DEF Written, Maps
  <2> HIDE DEF w
  <2>2. MessagesFit(w)  BY <2>1 DEF MessagesFit
  <2> QED BY <1>1, <1>4, <2>2, PrunedFits, AfterIsPruned DEF w
<1>5. After(m, step, t + 1) = m \/ step.do \in {"submit", "decide"}
      \/ (step.do \in {"create", "close", "append"} /\ (step.do # "create" => m.status[step.id] # "absent"))
  BY <1>1, AfterIsPruned
<1>6. step.do \in {"create", "close"} => step.id \in Sessions  BY DEF Step
<1> QED BY <1>2, <1>3, <1>4, <1>5, <1>6

-----------------------------------------------------------------------------
(* Commands and their results *)

\* es is the list with a message more, or the end of that.
Extends(es, list, msg) ==
  /\ es \in Seq(Message) /\ es # <<>> /\ es[Len(es)] = msg
  /\ \E c \in Nat : /\ Len(list) + 1 = Len(es) + c
                    /\ \A k \in 1..(Len(es) - 1) : es[k] = list[k + c]

LEMMA RingExtends ==
  ASSUME NEW list \in Seq(Message), NEW msg \in Message
  PROVE  Extends(Ring(Append(list, msg)), list, msg)
<1> DEFINE long == Append(list, msg)
           new == Ring(long)
<1>1. Len(list) \in Nat /\ long \in Seq(Message) /\ Len(long) = Len(list) + 1  OBVIOUS
<1>2. long[Len(list) + 1] = msg /\ \A i \in 1..Len(list) : long[i] = list[i]  OBVIOUS
<1>3. long # <<>>  BY <1>1
<1> HIDE DEF long
<1>4. new \in Seq(Message) /\ new # <<>> /\ new[Len(new)] = msg
  BY <1>1, <1>2, <1>3, RingIsTheEnd
<1>5. PICK c \in Nat : /\ Len(long) = Len(new) + c
                       /\ \A k \in 1..Len(new) : new[k] = long[k + c]
  BY <1>1, RingIsTheEnd
<1> HIDE DEF new
<1>6. Len(new) \in Nat  BY <1>4
<1>7. \A k \in 1..(Len(new) - 1) : k \in 1..Len(new) /\ k + c \in 1..Len(list)
  BY <1>1, <1>5, <1>6
<1>8. \A k \in 1..(Len(new) - 1) : new[k] = list[k + c]
  BY <1>2, <1>5, <1>7
<1> QED BY <1>1, <1>4, <1>5, <1>8 DEF Extends, new, long

\* A command that has its result in the list has it in what follows.
LEMMA ResultStays ==
  ASSUME NEW list \in Seq(Message), NEW msg \in Message, NEW es, Extends(es, list, msg),
         NEW c \in Nat, Len(list) + 1 = Len(es) + c,
         \A k \in 1..(Len(es) - 1) : es[k] = list[k + c],
         NEW i \in 1..(Len(es) - 1), HasResult(list, i + c)
  PROVE  HasResult(es, i)
<1>1. /\ Len(es) \in Nat \ {0} /\ Len(list) \in Nat
      /\ DOMAIN es = 1..Len(es) /\ DOMAIN list = 1..Len(list)
  BY DEF Extends
<1>2. PICK j \in 1..Len(list) : /\ i + c < j /\ list[j].kind = "command_result"
                                /\ \A k \in i+c+1..j : list[k].kind # "command"
  BY <1>1 DEF HasResult
<1>3. /\ j - c \in 1..(Len(es) - 1) /\ i < j - c /\ (j - c) + c = j
      /\ \A k \in i+1..(j - c) : k \in 1..(Len(es) - 1) /\ k + c \in i+c+1..j
  BY <1>1, <1>2
<1>4. es[j - c].kind = "command_result" /\ j - c \in DOMAIN es
  BY <1>1, <1>2, <1>3
<1>5. \A k \in i+1..(j - c) : es[k].kind # "command"
  BY <1>2, <1>3
<1> QED BY <1>3, <1>4, <1>5 DEF HasResult

\* A list whose commands are answered stays so when anything but a command is added, and has
\* one open command when a command is.
LEMMA AnsweredExtends ==
  ASSUME NEW list \in Seq(Message), Answered(list), NEW msg \in Message, NEW es, Extends(es, list, msg)
  PROVE  AnsweredButLast(es) /\ (msg.kind # "command" => Answered(es))
<1>1. PICK c \in Nat : /\ Len(list) + 1 = Len(es) + c
                       /\ \A k \in 1..(Len(es) - 1) : es[k] = list[k + c]
  BY DEF Extends
<1>2. /\ Len(es) \in Nat \ {0} /\ Len(list) \in Nat
      /\ DOMAIN es = 1..Len(es) /\ DOMAIN list = 1..Len(list) /\ es[Len(es)] = msg
  BY DEF Extends
<1>3. ASSUME NEW i \in 1..(Len(es) - 1), es[i].kind = "command" PROVE HasResult(es, i)
  <2>1. i + c \in DOMAIN list /\ list[i + c].kind = "command"  BY <1>1, <1>2, <1>3
  <2> QED BY <1>1, <2>1, ResultStays DEF Answered
<1>4. \A i \in DOMAIN es : i = Len(es) \/ i \in 1..(Len(es) - 1)  BY <1>2
<1>5. AnsweredButLast(es)
  <2>1. \A k \in DOMAIN es : ~(Len(es) < k)  BY <1>2
  <2> QED BY <1>3, <1>4, <2>1 DEF AnsweredButLast
<1>6. msg.kind # "command" => Answered(es)  BY <1>2, <1>3, <1>4 DEF Answered
<1> QED BY <1>5, <1>6

\* A list with an open command keeps it when anything but a command is added, and loses it to a
\* result.
LEMMA OpenExtends ==
  ASSUME NEW list \in Seq(Message), AnsweredButLast(list), NEW msg \in Message,
         msg.kind # "command", NEW es, Extends(es, list, msg)
  PROVE  AnsweredButLast(es) /\ (msg.kind = "command_result" => Answered(es))
<1>1. PICK c \in Nat : /\ Len(list) + 1 = Len(es) + c
                       /\ \A k \in 1..(Len(es) - 1) : es[k] = list[k + c]
  BY DEF Extends
<1>2. /\ Len(es) \in Nat \ {0} /\ Len(list) \in Nat
      /\ DOMAIN es = 1..Len(es) /\ DOMAIN list = 1..Len(list) /\ es[Len(es)] = msg
  BY DEF Extends
<1>3. ASSUME NEW i \in 1..(Len(es) - 1), es[i].kind = "command"
      PROVE  HasResult(es, i) \/ \A k \in DOMAIN es : i < k => es[k].kind # "command"
  <2>1. i + c \in DOMAIN list /\ list[i + c].kind = "command"  BY <1>1, <1>2, <1>3
  <2>2. CASE HasResult(list, i + c)  BY <1>1, <2>2, ResultStays
  <2>3. CASE \A k \in DOMAIN list : i + c < k => list[k].kind # "command"
    <3>1. ASSUME NEW k \in DOMAIN es, i < k PROVE es[k].kind # "command"
      <4>1. CASE k = Len(es)  BY <1>2, <4>1
      <4>2. CASE k \in 1..(Len(es) - 1)
        <5>1. k + c \in DOMAIN list /\ i + c < k + c  BY <1>1, <1>2, <3>1, <4>2
        <5> QED BY <1>1, <2>3, <4>2, <5>1
      <4> QED BY <1>2, <4>1, <4>2
    <3> QED BY <3>1
  <2> QED BY <2>1, <2>2, <2>3 DEF AnsweredButLast
<1>4. \A i \in DOMAIN es : i = Len(es) \/ i \in 1..(Len(es) - 1)  BY <1>2
<1>5. AnsweredButLast(es)  BY <1>2, <1>3, <1>4 DEF AnsweredButLast
<1>6. ASSUME msg.kind = "command_result" PROVE Answered(es)
  <2> SUFFICES ASSUME NEW i \in DOMAIN es, es[i].kind = "command" PROVE HasResult(es, i)
    BY DEF Answered
  <2>1. i \in 1..(Len(es) - 1)  BY <1>2, <1>4, <1>6
  <2>2. CASE \A k \in DOMAIN es : i < k => es[k].kind # "command"
    <3>1. /\ Len(es) \in DOMAIN es /\ i < Len(es) /\ es[Len(es)].kind = "command_result"
          /\ \A k \in i+1..Len(es) : k \in DOMAIN es /\ i < k
      BY <1>2, <1>6, <2>1
    <3> QED BY <2>2, <3>1 DEF HasResult
  <2> QED BY <1>3, <2>1, <2>2
<1> QED BY <1>5, <1>6

LEMMA EmptyAnswered == Answered(<<>>)
BY DEF Answered

\* What a step that is no command, or is one, does to the lists.
LEMMA StepAnswers ==
  ASSUME NEW m \in Maps, Tidy(m), NEW step \in Step, NEW t \in Nat, NEW s \in Sessions
  PROVE  LET new == After(m, step, t).messages[s] IN
         /\ Answered(m.messages[s]) => AnsweredButLast(new)
         /\ Answered(m.messages[s]) /\ (IsCommand(step) => step.id # s) => Answered(new)
         /\ AnsweredButLast(m.messages[s]) /\ ~IsCommand(step) => AnsweredButLast(new)
         /\ AnsweredButLast(m.messages[s]) /\ step = Appends(s, "command_result") => Answered(new)
<1> DEFINE new == After(m, step, t).messages[s]
           list == m.messages[s]
<1>1. \/ new = <<>>
      \/ new = list /\ ~(step.do = "append" /\ step.id = s)
      \/ /\ step.do = "append" /\ step.id = s /\ step.kind \in Kinds
         /\ new = Ring(Append(list, Sent(t, step)))
  BY StepSends
<1>2. list \in Seq(Message)  BY DEF Maps
<1> HIDE DEF new, list
<1>3. \A l : Answered(l) => AnsweredButLast(l)  BY DEF Answered, AnsweredButLast
<1>4. CASE new = <<>>  BY <1>3, <1>4, EmptyAnswered DEF new
<1>5. CASE new = list /\ ~(step.do = "append" /\ step.id = s)
  BY <1>3, <1>5 DEF new, list, Appends
<1>6. CASE /\ step.do = "append" /\ step.id = s /\ step.kind \in Kinds
           /\ new = Ring(Append(list, Sent(t, step)))
  <2>1. Sent(t, step) \in Message /\ Sent(t, step).kind = step.kind  BY <1>6 DEF Sent, Message
  <2>2. Extends(new, list, Sent(t, step))  BY <1>2, <1>6, <2>1, RingExtends
  <2>3. IsCommand(step) <=> step.kind = "command"  BY <1>6 DEF IsCommand
  <2>4. step = Appends(s, "command_result") => step.kind = "command_result"  BY DEF Appends
  <2>5. Answered(list) => AnsweredButLast(new) /\ (step.kind # "command" => Answered(new))
    BY <1>2, <2>1, <2>2, AnsweredExtends
  <2>6. AnsweredButLast(list) /\ step.kind # "command" =>
          AnsweredButLast(new) /\ (step.kind = "command_result" => Answered(new))
    BY <1>2, <2>1, <2>2, OpenExtends
  <2> QED BY <1>6, <2>3, <2>4, <2>5, <2>6 DEF new, list
<1> QED BY <1>1, <1>4, <1>5, <1>6

-----------------------------------------------------------------------------
(* The second invariant *)

\* A step gives a request the time of the step, or leaves its time, or takes it away.
LEMMA StepRequestTime ==
  ASSUME NEW m \in Maps, NEW step \in Step, NEW t \in Nat, \A x \in Requests : m.createdAt[x] <= t
  PROVE  \A x \in Requests : After(m, step, t).createdAt[x] <= t
<1> DEFINE w == Written(m, step, t)
<1>1. w \in Maps  BY WrittenType
<1>2. \A x \in Requests : w.createdAt[x] <= t
  <2>1. CASE step.do \in {"create", "close", "append"}  BY <2>1 DEF Written, Maps
  <2>2. CASE step.do \in {"submit", "decide"}  BY <2>2 DEF Written, Maps
  <2> QED BY <2>1, <2>2 DEF Step
<1> HIDE DEF w
<1>3. \A x \in Requests : PruneRequests(w).createdAt[x] <= t
  BY <1>1, <1>2 DEF PruneRequests, Maps
<1> QED BY <1>1, <1>2, <1>3, PruneOnlyDrops, AfterIsPruned DEF w

LEMMA NoMapsLists ==
  /\ MessagesFit(NoMaps) /\ \A r \in Requests : NoMaps.createdAt[r] = 0
  /\ \A s \in Sessions : Answered(NoMaps.messages[s])
<1>1. \A s \in Sessions : NoMaps.messages[s] = <<>>  BY DEF NoMaps
<1>2. Len(<<>>) = 0 /\ DOMAIN <<>> = {}  OBVIOUS
<1>3. MessagesFit(NoMaps)  BY <1>1, <1>2, LimitsArePositive DEF MessagesFit
<1>4. \A r \in Requests : NoMaps.createdAt[r] = 0  BY DEF NoMaps
<1> QED BY <1>1, <1>3, <1>4, EmptyAnswered

LEMMA ListsInit == Init => ListsInv
<1> SUFFICES ASSUME Init PROVE ListsInv
  OBVIOUS
<1>1. Consistent /\ (\A r \in Requests : mem.createdAt[r] <= time /\ file.createdAt[r] <= time)
  BY NoMapsLists DEF Init, Consistent
<1>2. ResultsFollow  BY NoMapsLists, IdleSteps DEF Init, ResultsFollow
<1> QED BY <1>1, <1>2 DEF ListsInv

\* A call whose only command comes first and whose result comes last.
LEMMA CallLists ==
  ASSUME TypeOK, StoreInv, ListsInv, NEW steps \in Seq(Step), steps # <<>>, NEW x, NEW c,
         Call(steps, x, c),
         \A i \in DOMAIN steps : IsCommand(steps[i]) =>
           i = 1 /\ Len(steps) > 1 /\ Brings(steps, steps[i].id)
  PROVE  ListsInv'
<1>1. /\ job = Idle /\ job'.steps = steps /\ up /\ UNCHANGED <<mem, file, time, cut, up>>
  BY DEF Call
<1>2. Consistent' /\ (\A r \in Requests : mem.createdAt[r] <= time /\ file.createdAt[r] <= time)'
  BY <1>1 DEF ListsInv, Consistent
<1>3. \A s \in Sessions \ cut : Answered(mem.messages[s]) /\ Answered(file.messages[s])
  BY <1>1, IdleSteps DEF ListsInv, ResultsFollow, Brings
<1>4. ResultsFollow'  BY <1>1, <1>3 DEF ResultsFollow
<1> QED BY <1>2, <1>4 DEF ListsInv

LEMMA CallsLists ==
  ASSUME TypeOK, StoreInv, ListsInv
  PROVE  /\ \A s \in Sessions : NewSession(s) \/ PostMessage(s) \/ PostClose(s) => ListsInv'
         /\ \A s \in Sessions, close \in BOOLEAN : PostCommand(s, close) => ListsInv'
         /\ \A r \in Requests : PostRequest(r) => ListsInv'
         /\ \A r \in Requests, verdict \in Verdicts : PostDecision(r, verdict) => ListsInv'
<1>1. ASSUME NEW s \in Sessions
      PROVE  Closes(s) \in Step /\ \A kind \in Kinds : Appends(s, kind) \in Step
  BY DEF Step, Appends, Closes
<1>2. ASSUME NEW steps \in Seq(Step), NEW x, NEW c, steps # <<>>, Call(steps, x, c),
             \A i \in DOMAIN steps : ~IsCommand(steps[i])
      PROVE  ListsInv'
  BY <1>2, CallLists
<1>3. ASSUME NEW s \in Sessions, NewSession(s) PROVE ListsInv'
  <2> DEFINE steps == <<[do |-> "create", id |-> s], Appends(s, "status")>>
  <2>1. steps \in Seq(Step) /\ steps # <<>>  BY DEF Step, Kinds, Appends
  <2>2. \A i \in DOMAIN steps : ~IsCommand(steps[i])  BY DEF IsCommand, Appends
  <2>3. Call(steps, s, TRUE)  BY <1>3 DEF NewSession
  <2> HIDE DEF steps
  <2> QED BY <1>2, <2>1, <2>2, <2>3
<1>4. ASSUME NEW s \in Sessions, PostMessage(s) PROVE ListsInv'
  <2> DEFINE steps == <<Appends(s, "message")>>
  <2>1. steps \in Seq(Step) /\ steps # <<>>  BY DEF Step, Kinds, Appends
  <2>2. \A i \in DOMAIN steps : ~IsCommand(steps[i])  BY DEF IsCommand, Appends
  <2>3. Call(steps, s, TRUE)  BY <1>4 DEF PostMessage
  <2> HIDE DEF steps
  <2> QED BY <1>2, <2>1, <2>2, <2>3
<1>5. ASSUME NEW s \in Sessions, PostClose(s) PROVE ListsInv'
  <2> DEFINE steps == <<Closes(s), Appends(s, "status")>>
  <2>1. steps \in Seq(Step) /\ steps # <<>>  BY <1>1 DEF Kinds
  <2>2. \A i \in DOMAIN steps : ~IsCommand(steps[i])  BY DEF IsCommand, Appends, Closes
  <2>3. Call(steps, s, FALSE)  BY <1>5 DEF PostClose
  <2> HIDE DEF steps
  <2> QED BY <1>2, <2>1, <2>2, <2>3
<1>6. ASSUME NEW s \in Sessions, NEW close \in BOOLEAN, PostCommand(s, close) PROVE ListsInv'
  <2> DEFINE steps == CommandSteps(s, close)
  <2>1. /\ steps \in Seq(Step) /\ steps # <<>>
        /\ \A i \in DOMAIN steps : IsCommand(steps[i]) =>
             i = 1 /\ Len(steps) > 1 /\ Brings(steps, steps[i].id)
    <3>1. CASE close /\ mem.status[s] \notin Terminal
      <4> DEFINE four == <<Appends(s, "command"), Closes(s), Appends(s, "status"), Appends(s, "command_result")>>
      <4>1. steps = four  BY <3>1 DEF CommandSteps
      <4>2. four \in Seq(Step) /\ Len(four) = 4 /\ DOMAIN four = 1..4  BY <1>1 DEF Kinds
      <4>3. /\ four[1].id = s /\ four[4] = Appends(s, "command_result")
            /\ ~IsCommand(four[2]) /\ ~IsCommand(four[3]) /\ ~IsCommand(four[4])
        BY DEF IsCommand, Appends, Closes
      <4> HIDE DEF four
      <4>4. four # <<>> /\ \A i \in DOMAIN four : i = 1 \/ i = 2 \/ i = 3 \/ i = 4  BY <4>2
      <4>5. Brings(four, four[1].id)  BY <4>2, <4>3, <4>4 DEF Brings
      <4>6. \A i \in DOMAIN four : IsCommand(four[i]) => i = 1  BY <4>3, <4>4
      <4> HIDE DEF steps
      <4> QED BY <4>1, <4>2, <4>4, <4>5, <4>6
    <3>2. CASE ~(close /\ mem.status[s] \notin Terminal)
      <4> DEFINE two == <<Appends(s, "command"), Appends(s, "command_result")>>
      <4>1. steps = two  BY <3>2 DEF CommandSteps
      <4>2. two \in Seq(Step) /\ Len(two) = 2 /\ DOMAIN two = 1..2  BY <1>1 DEF Kinds
      <4>3. /\ two[1].id = s /\ two[2] = Appends(s, "command_result") /\ ~IsCommand(two[2])
        BY DEF IsCommand, Appends, Closes
      <4> HIDE DEF two
      <4>4. two # <<>> /\ \A i \in DOMAIN two : i = 1 \/ i = 2  BY <4>2
      <4>5. Brings(two, two[1].id)  BY <4>2, <4>3, <4>4 DEF Brings
      <4> HIDE DEF steps
      <4> QED BY <4>1, <4>2, <4>3, <4>4, <4>5
    <3> QED BY <3>1, <3>2
  <2>2. Call(steps, s, TRUE)  BY <1>6 DEF PostCommand
  <2> HIDE DEF steps
  <2> QED BY <2>1, <2>2, CallLists
<1>7. ASSUME NEW r \in Requests, PostRequest(r) PROVE ListsInv'
  <2> DEFINE steps == <<[do |-> "submit", id |-> r]>>
  <2>1. steps \in Seq(Step) /\ steps # <<>>  BY DEF Step
  <2>2. \A i \in DOMAIN steps : ~IsCommand(steps[i])  BY DEF IsCommand
  <2>3. Call(steps, r, TRUE)  BY <1>7 DEF PostRequest
  <2> HIDE DEF steps
  <2> QED BY <1>2, <2>1, <2>2, <2>3
<1>8. ASSUME NEW r \in Requests, NEW verdict \in Verdicts, PostDecision(r, verdict) PROVE ListsInv'
  <2> DEFINE steps == <<[do |-> "decide", id |-> r, verdict |-> verdict]>>
  <2>1. steps \in Seq(Step) /\ steps # <<>>  BY DEF Step
  <2>2. \A i \in DOMAIN steps : ~IsCommand(steps[i])  BY DEF IsCommand
  <2>3. Call(steps, r, TRUE)  BY <1>8 DEF PostDecision
  <2> HIDE DEF steps
  <2> QED BY <1>2, <2>1, <2>2, <2>3
<1> QED BY <1>3, <1>4, <1>5, <1>6, <1>7, <1>8

\* The lists after a step of the running handler, before it is known whether its write succeeds.
LEMMA MemoryLists ==
  ASSUME TypeOK, StoreInv, ListsInv, job.steps # <<>>, NEW m, m = After(mem, Head(job.steps), time + 1)
  PROVE  MessagesFit(m) /\ \A r \in Requests : m.createdAt[r] <= time + 1
<1>1. mem \in Maps /\ Head(job.steps) \in Step /\ time \in Nat /\ time + 1 \in Nat
  BY DEF TypeOK, Job
<1>2. \A r \in Requests : mem.createdAt[r] <= time + 1  BY <1>1 DEF ListsInv, Maps
<1>3. \A s \in Sessions : mem.updatedAt[s] <= time  BY DEF StoreInv
<1>4. MessagesFit(m)  BY <1>1, <1>3, StepFits DEF ListsInv, Consistent
<1> QED BY <1>1, <1>2, <1>4, StepRequestTime

LEMMA SavesLists ==
  ASSUME TypeOK, StoreInv, ListsInv, Saves
  PROVE  ListsInv'
<1> DEFINE steps == job.steps
           step == Head(job.steps)
<1>1. /\ up /\ steps # <<>> /\ mem' = After(mem, step, time + 1) /\ file' = mem'
      /\ job'.steps = Tail(steps) /\ time' = time + 1 /\ UNCHANGED <<up, cut>>
  BY DEF Saves, Stored, TypeOK, Job
<1>2. Consistent' /\ (\A r \in Requests : mem.createdAt[r] <= time /\ file.createdAt[r] <= time)'
  BY <1>1, MemoryLists DEF Consistent
<1>3. /\ steps \in Seq(Step) /\ Len(steps) \in Nat \ {0} /\ step = steps[1] /\ step \in Step
      /\ 1 \in DOMAIN steps /\ Len(Tail(steps)) = Len(steps) - 1
      /\ \A i \in DOMAIN Tail(steps) :
           i + 1 \in DOMAIN steps /\ Tail(steps)[i] = steps[i + 1] /\ i \in Nat \ {0}
      /\ Tail(steps) = <<>> <=> Len(steps) = 1
      /\ Len(steps) > 1 => Len(Tail(steps)) \in DOMAIN Tail(steps) /\ 1 \in DOMAIN Tail(steps)
  <2>1. steps \in Seq(Step) /\ steps # <<>>  BY <1>1 DEF TypeOK, Job
  <2> HIDE DEF steps
  <2>2. Len(steps) \in Nat \ {0} /\ Head(steps) = steps[1] /\ Head(steps) \in Step /\ 1 \in DOMAIN steps
    BY <2>1
  <2>3. /\ Tail(steps) \in Seq(Step) /\ Len(Tail(steps)) = Len(steps) - 1
        /\ \A i \in 1..(Len(steps) - 1) : Tail(steps)[i] = steps[i + 1]
    BY <2>1
  <2>4. DOMAIN Tail(steps) = 1..(Len(steps) - 1) /\ DOMAIN steps = 1..Len(steps)
    BY <2>1, <2>3
  <2>5. Tail(steps) = <<>> <=> Len(steps) = 1
    BY <2>2, <2>3
  <2>6. \A i \in 1..(Len(steps) - 1) : i + 1 \in 1..Len(steps) /\ i \in Nat \ {0}
    BY <2>2
  <2>7. Len(steps) > 1 => Len(Tail(steps)) \in DOMAIN Tail(steps) /\ 1 \in DOMAIN Tail(steps)
    BY <2>2, <2>3, <2>4
  <2> QED BY <2>1, <2>2, <2>3, <2>4, <2>5, <2>6, <2>7 DEF steps
<1>4. \A s \in Sessions :
        Brings(steps, s) => Brings(Tail(steps), s) \/ (Tail(steps) = <<>> /\ step = Appends(s, "command_result"))
  BY <1>3 DEF Brings
<1> HIDE DEF step
<1>5. /\ \A i \in DOMAIN Tail(steps) : ~IsCommand(Tail(steps)[i])
      /\ \A s \in Sessions \ cut :
           \/ Answered(mem'.messages[s])
           \/ AnsweredButLast(mem'.messages[s]) /\ Brings(Tail(steps), s)
  <2>1. \A i \in DOMAIN steps : IsCommand(steps[i]) => i = 1 /\ Len(steps) > 1 /\ Brings(steps, steps[i].id)
    BY DEF ListsInv, ResultsFollow
  <2>2. \A i \in DOMAIN Tail(steps) : ~IsCommand(Tail(steps)[i])
    <3> SUFFICES ASSUME NEW i \in DOMAIN Tail(steps), IsCommand(Tail(steps)[i]) PROVE FALSE
      OBVIOUS
    <3>1. i \in Nat \ {0}  BY <1>3
    <3>2. i + 1 = 1  BY <1>3, <2>1
    <3> QED BY <3>1, <3>2
  <2>3. ASSUME NEW s \in Sessions \ cut
        PROVE  \/ Answered(mem'.messages[s])
               \/ AnsweredButLast(mem'.messages[s]) /\ Brings(Tail(steps), s)
    <3>1. mem \in Maps /\ Tidy(mem) /\ time + 1 \in Nat  BY DEF TypeOK, StoreInv
    <3>2. /\ Answered(mem.messages[s]) => AnsweredButLast(mem'.messages[s])
          /\ Answered(mem.messages[s]) /\ (IsCommand(step) => step.id # s) => Answered(mem'.messages[s])
          /\ AnsweredButLast(mem.messages[s]) /\ ~IsCommand(step) => AnsweredButLast(mem'.messages[s])
          /\ AnsweredButLast(mem.messages[s]) /\ step = Appends(s, "command_result") => Answered(mem'.messages[s])
      BY <1>1, <1>3, <3>1, StepAnswers
    <3>3. CASE Answered(mem.messages[s])
      <4>1. CASE IsCommand(step) /\ step.id = s
        <5>1. Brings(steps, s) /\ Len(steps) > 1  BY <1>3, <2>1, <4>1
        <5>2. Brings(Tail(steps), s)  BY <1>3, <1>4, <5>1
        <5> QED BY <3>2, <3>3, <5>2
      <4>2. CASE ~(IsCommand(step) /\ step.id = s)  BY <3>2, <3>3, <4>2
      <4> QED BY <4>1, <4>2
    <3>4. CASE AnsweredButLast(mem.messages[s]) /\ Brings(steps, s) /\ ~IsCommand(steps[1])
      BY <1>3, <1>4, <3>2, <3>4
    <3> QED BY <1>1, <2>3, <3>3, <3>4 DEF ListsInv, ResultsFollow
  <2> QED BY <2>2, <2>3
<1>6. ResultsFollow'
  <2>1. \A s \in Sessions : Brings(Tail(steps), s) => 1 \in DOMAIN Tail(steps) /\ s \in job.id
    <3>1. \A i \in DOMAIN steps : steps[i].id \in job.id  BY DEF StoreInv, KnownIds
    <3> QED BY <1>3, <3>1 DEF Brings, Appends
  <2>2. job'.id = job.id  BY DEF Saves, TypeOK, Job
  <2>3. \A s \in Sessions \ cut : s \notin job.id \/ Tail(steps) = <<>> => Answered(mem'.messages[s])
    BY <1>5, <2>1 DEF Brings
  <2> QED BY <1>1, <1>5, <2>1, <2>2, <2>3 DEF ResultsFollow
<1> QED BY <1>2, <1>6 DEF ListsInv

LEMMA ListsNext == TypeOK /\ TypeOK' /\ StoreInv /\ ListsInv /\ [Next]_vars => ListsInv'
<1> SUFFICES ASSUME TypeOK, TypeOK', StoreInv, ListsInv, [Next]_vars PROVE ListsInv'
  OBVIOUS
<1>1. CASE Saves  BY <1>1, SavesLists
<1>2. CASE SaveFails
  <2>1. /\ job.steps # <<>> /\ mem' = After(mem, Head(job.steps), time + 1)
        /\ time' = time + 1 /\ cut' = cut \cup job.id /\ job' = Idle /\ up /\ UNCHANGED <<file, up>>
    BY <1>2 DEF SaveFails
  <2>2. MessagesFit(mem') /\ \A r \in Requests : mem'.createdAt[r] <= time'
    BY <2>1, MemoryLists
  <2>3. \A r \in Requests : file'.createdAt[r] <= time'  BY <2>1 DEF ListsInv, TypeOK, Maps
  <2>4. ASSUME NEW s \in Sessions \ cut' PROVE Answered(mem'.messages[s]) /\ Answered(file.messages[s])
    <3>1. s \notin cut /\ s \notin job.id  BY <2>1, <2>4
    <3>2. /\ mem \in Maps /\ Tidy(mem) /\ time + 1 \in Nat
          /\ Head(job.steps) \in Step /\ Head(job.steps) = job.steps[1] /\ 1 \in DOMAIN job.steps
          /\ Len(job.steps) \in DOMAIN job.steps
      BY <2>1 DEF TypeOK, StoreInv, Job
    <3>3. job.steps[1].id # s /\ ~Brings(job.steps, s)
      BY <3>1, <3>2 DEF StoreInv, KnownIds, Brings, Appends
    <3>4. Answered(mem.messages[s]) /\ Answered(file.messages[s])
      BY <2>1, <2>4, <3>1, <3>3 DEF ListsInv, ResultsFollow
    <3>5. Answered(mem'.messages[s])  BY <2>1, <2>4, <3>2, <3>3, <3>4, StepAnswers
    <3> QED BY <3>4, <3>5
  <2>5. ResultsFollow'  BY <2>1, <2>4, IdleSteps DEF ResultsFollow
  <2> QED BY <2>1, <2>2, <2>3, <2>5 DEF ListsInv, Consistent
<1>3. CASE SaveKills \/ Crash
  <2>1. /\ up' = FALSE /\ mem' = NoMaps /\ job' = Idle /\ UNCHANGED <<file, time>>
        /\ cut \subseteq cut' /\ (job.steps = <<>> \/ job.id \subseteq cut')
    BY <1>3 DEF SaveKills, Crash
  <2>2. Consistent' /\ (\A r \in Requests : mem.createdAt[r] <= time /\ file.createdAt[r] <= time)'
    BY <2>1, NoMapsLists DEF ListsInv, Consistent, TypeOK
  <2>3. ResultsFollow'  BY <2>1, IdleSteps DEF ListsInv, ResultsFollow
  <2> QED BY <2>2, <2>3 DEF ListsInv
<1>4. CASE Answer
  <2>1. up /\ job' = Idle /\ job.steps = <<>> /\ UNCHANGED <<up, mem, file, time, cut>>  BY <1>4 DEF Answer
  <2>2. ResultsFollow'  BY <2>1, IdleSteps DEF ListsInv, ResultsFollow, Brings
  <2> QED BY <2>1, <2>2 DEF ListsInv, Consistent
<1>5. CASE Start
  <2>1. mem' = file  BY <1>5, LoadedIsSaved DEF Start, StoreInv, TypeOK
  <2>2. job = Idle /\ UNCHANGED <<file, time, cut, job>>  BY <1>5 DEF Start, StoreInv
  <2>3. ResultsFollow'  BY <2>1, <2>2, IdleSteps DEF ListsInv, ResultsFollow
  <2> QED BY <2>1, <2>2, <2>3 DEF ListsInv, Consistent
<1>6. ASSUME UNCHANGED <<up, mem, file, job, time, cut>> PROVE ListsInv'
  BY <1>6 DEF ListsInv, Consistent, ResultsFollow
<1>7. (\E x \in Sessions \cup Requests : Read(x)) \/ (\E r \in Requests : RefuseDecision(r))
        => UNCHANGED <<up, mem, file, job, time, cut>>
  BY DEF Read, RefuseDecision, Tells
<1>8. UNCHANGED vars => UNCHANGED <<up, mem, file, job, time, cut>>  BY DEF vars
<1> QED BY <1>1, <1>2, <1>3, <1>4, <1>5, <1>6, <1>7, <1>8, CallsLists DEF Next

(* The second inductive invariant of the work store: lists of messages are in order of time and *)
(* fit their sessions, nothing is younger than the clock, and a handler that records a command  *)
(* still has its result to record (appendWorkMessage, processWorkSessionInput).                      *)
THEOREM ListsInvariant == Spec => []ListsInv
BY ListsInit, ListsNext, StoreTypeCorrect, StoreInvariant, PTL DEF Spec

(* The messages of a session are kept with it only, within their limit and in order of time, and *)
(* the session names the last of them: in memory and in the file, whatever write fails.          *)
THEOREM ListsAreConsistent == Spec => []Consistent
<1>1. ListsInv => Consistent  BY DEF ListsInv
<1> QED BY <1>1, ListsInvariant, PTL

(* Between handlers, each command on disk has its result there, before another command, in every *)
(* session of which no handler was cut off: a full list loses a command with or before its result, *)
(* and what is cut off in one session leaves the others whole.                                   *)
THEOREM CommandsGetAnswers == Spec => []CommandsAnswered
<1>1. ListsInv => CommandsAnswered  BY DEF ListsInv, ResultsFollow, CommandsAnswered
<1> QED BY <1>1, ListsInvariant, PTL

-----------------------------------------------------------------------------
(* Pruning by age *)

\* Where a set has fewer than n members and one that may be added makes it n, it has n.
LEMMA FilledUp ==
  ASSUME NEW S, IsFiniteSet(S), NEW n \in Nat, ~(Cardinality(S) >= n), NEW x,
         NEW T \in SUBSET (S \cup {x}), Cardinality(T) >= n
  PROVE  Cardinality(T) = n
<1>1. Cardinality(S) \in Nat  BY FS_CardinalityType
<1>2. IsFiniteSet(S \cup {x}) /\ Cardinality(S \cup {x}) <= Cardinality(S) + 1
  <2>1. CASE x \in S
    <3>1. S \cup {x} = S  BY <2>1
    <3> QED BY <1>1, <3>1
  <2>2. CASE x \notin S
    <3>1. Cardinality(S \cup {x}) = Cardinality(S) + 1  BY <2>2, FS_AddElement
    <3>2. IsFiniteSet(S \cup {x})  BY FS_AddElement
    <3> QED BY <1>1, <3>1, <3>2
  <2> QED BY <2>1, <2>2
<1>3. IsFiniteSet(T) /\ Cardinality(T) <= Cardinality(S \cup {x})  BY <1>2, FS_Subset
<1>4. Cardinality(T) \in Nat /\ Cardinality(S \cup {x}) \in Nat  BY <1>2, <1>3, FS_CardinalityType
<1> QED BY <1>1, <1>2, <1>3, <1>4

\* The members of S younger than s, and those with n or more of them.
NewerIn(S, age, s) == {t \in S : age[t] > age[s]}
Crowded(S, age, n) == {x \in S : Cardinality(NewerIn(S, age, x)) >= n}

\* What ages by `age` and is kept by its number alone: those with n or more newer ones go.
LEMMA PrunedByAge ==
  ASSUME NEW S, IsFiniteSet(S), NEW age, \A x \in S : age[x] \in Nat, NEW n \in Nat, NEW s \in S,
         NEW gone, gone = Crowded(S, age, n), s \in gone, Cardinality(NewerIn(S, age, s)) = n
  PROVE  NewerIn(S \ gone, age, s) = NewerIn(S, age, s)
<1> USE DEF NewerIn, Crowded
<1> DEFINE newer == {t \in S : age[t] > age[s]}
<1>1. ASSUME NEW t \in newer, t \in gone PROVE FALSE
  <2> DEFINE above == {x \in S : age[x] > age[t]}
  <2>1. Cardinality(above) >= n  BY <1>1
  <2>2. above \subseteq newer \ {t}
    BY <1>1
  <2>3. IsFiniteSet(newer)  BY FS_Subset
  <2>4. IsFiniteSet(newer \ {t}) /\ Cardinality(newer \ {t}) = n - 1
    <3>1. Cardinality(newer \ {t}) = Cardinality(newer) - 1  BY <1>1, <2>3, FS_RemoveElement
    <3>2. IsFiniteSet(newer \ {t})  BY <2>3, FS_RemoveElement
    <3> QED BY <3>1, <3>2
  <2> HIDE DEF above, newer
  <2>5. Cardinality(above) <= n - 1  BY <2>2, <2>4, FS_Subset
  <2>6. IsFiniteSet(above) /\ Cardinality(above) \in Nat  BY <2>2, <2>4, FS_Subset, FS_CardinalityType
  <2> QED BY <2>1, <2>5, <2>6
<1> QED BY <1>1

\* What a step drops among the sessions.
LEMMA OldestSessionsGo ==
  ASSUME NEW m \in Maps, Tidy(m), NEW step \in Step, NEW t \in Nat,
         \A x \in Sessions : m.updatedAt[x] < t,
         NEW s \in Sessions, m.status[s] # "absent", After(m, step, t).status[s] = "absent"
  PROVE  LET n == After(m, step, t) IN
         Cardinality({x \in Closed(n) : n.updatedAt[x] > m.updatedAt[s]}) = MaxClosed
<1> DEFINE w == Written(m, step, t)
           n == After(m, step, t)
<1>1. w \in Maps /\ n \in Maps  BY WrittenType, AfterType
<1>2. /\ n = PruneSessions(w) /\ step.do \in {"create", "close", "append"} /\ step.id \in Sessions
      /\ step.do # "create" => m.status[step.id] # "absent"
  <2>1. step.do \in {"create", "close", "append"} => step.id \in Sessions  BY DEF Step
  <2>2. CASE n = m  BY <2>2
  <2>3. CASE step.do = "submit" /\ n = PruneRequests(w)
    <3>1. w.status = m.status  BY <2>3 DEF Written, Maps
    <3> QED BY <1>1, <2>3, <3>1, PruneOnlyDrops
  <2>4. CASE step.do = "decide" /\ n = w
    BY <2>4 DEF Written, Maps
  <2> QED BY <2>1, <2>2, <2>3, <2>4, AfterIsPruned
<1>3. /\ w.updatedAt = [m.updatedAt EXCEPT ![step.id] = t]
      /\ \A x \in Sessions : x # step.id => w.status[x] = m.status[x]
      /\ \A x \in Sessions : w.status[x] = "absent" => m.status[x] = "absent"
      /\ n.status[s] = "absent"
  BY <1>2 DEF Written, Maps
<1> HIDE DEF w, n
<1>4. /\ w.updatedAt[step.id] = t
      /\ \A x \in Sessions : x # step.id => w.updatedAt[x] = m.updatedAt[x]
      /\ \A x \in Sessions : w.updatedAt[x] \in Nat /\ w.updatedAt[x] <= t /\ m.updatedAt[x] \in Nat
  <2>1. m.updatedAt \in [Sessions -> Nat] /\ \A x \in Sessions : m.updatedAt[x] <= t  BY DEF Maps
  <2> QED BY <1>2, <1>3, <2>1
<1> DEFINE newer == {x \in Closed(w) : w.updatedAt[x] > w.updatedAt[s]}
           before == {x \in Closed(m) : m.updatedAt[x] > m.updatedAt[s]}
<1>5. s \in Surplus(w)
  <2>1. w.status[s] # "absent"  BY <1>3
  <2> QED BY <1>1, <1>2, <1>3, <2>1 DEF PruneSessions, WithoutSessions, Maps
<1>6. Cardinality(newer) >= MaxClosed /\ s \in Closed(w)  BY <1>5 DEF Surplus
<1>7. s # step.id
  <2> SUFFICES ASSUME s = step.id PROVE FALSE
    OBVIOUS
  <2>1. newer = {}  BY <1>4 DEF Closed
  <2> HIDE DEF newer
  <2> QED BY <1>6, <2>1, FS_EmptySet, LimitsArePositive
<1>8. w.updatedAt[s] = m.updatedAt[s] /\ s \in Closed(m)
  BY <1>3, <1>4, <1>6, <1>7 DEF Closed
<1>9. ~(Cardinality(before) >= MaxClosed)
  BY <1>8 DEF Tidy, Surplus
<1>10. newer \in SUBSET (before \cup {step.id})
  BY <1>3, <1>4, <1>8 DEF Closed
<1>11. IsFiniteSet(before) /\ IsFiniteSet(Closed(w))
  <2>1. before \subseteq Sessions \cup Requests /\ Closed(w) \subseteq Sessions \cup Requests
    BY DEF Closed
  <2> QED BY <2>1, IdsAreDistinct, FS_Subset
<1>12. Cardinality(newer) = MaxClosed
  <2> HIDE DEF newer, before
  <2> QED BY <1>6, <1>9, <1>10, <1>11, FilledUp, LimitsArePositive
<1>13. {x \in Closed(w) \ Surplus(w) : w.updatedAt[x] > w.updatedAt[s]} = newer
  <2>1. \A x \in Closed(w) : w.updatedAt[x] \in Nat  BY <1>4 DEF Closed
  <2>2. Surplus(w) = Crowded(Closed(w), w.updatedAt, MaxClosed)  BY DEF Surplus, Crowded, NewerIn
  <2>3. newer = NewerIn(Closed(w), w.updatedAt, s)  BY DEF NewerIn
  <2> HIDE DEF newer
  <2>4. MaxClosed \in Nat  BY LimitsArePositive
  <2>5. NewerIn(Closed(w) \ Surplus(w), w.updatedAt, s) = NewerIn(Closed(w), w.updatedAt, s)
    BY <1>5, <1>6, <1>11, <1>12, <2>1, <2>2, <2>3, <2>4, PrunedByAge
  <2> QED BY <2>3, <2>5 DEF NewerIn
<1>14. Closed(n) = Closed(w) \ Surplus(w) /\ \A x \in Closed(n) : n.updatedAt[x] = w.updatedAt[x]
  BY <1>1, <1>2 DEF PruneSessions, WithoutSessions, Closed, Terminal, Maps
<1>15. {x \in Closed(n) : n.updatedAt[x] > m.updatedAt[s]}
         = {x \in Closed(w) \ Surplus(w) : w.updatedAt[x] > w.updatedAt[s]}
  BY <1>8, <1>14
<1> QED BY <1>12, <1>13, <1>15 DEF n

\* What a step drops among the requests.
LEMMA OldestRequestsGo ==
  ASSUME NEW m \in Maps, Tidy(m), NEW step \in Step, NEW t \in Nat,
         \A x \in Requests : m.createdAt[x] < t,
         NEW r \in Requests, m.request[r] # "absent", After(m, step, t).request[r] = "absent"
  PROVE  LET n == After(m, step, t) IN
         Cardinality({x \in Submitted(n) : n.createdAt[x] > m.createdAt[r]}) = MaxRequests
<1> DEFINE w == Written(m, step, t)
           n == After(m, step, t)
<1>1. w \in Maps /\ n \in Maps  BY WrittenType, AfterType
<1>2. n = PruneRequests(w) /\ step.do = "submit" /\ step.id \in Requests
  <2>1. step.do = "submit" => step.id \in Requests  BY DEF Step
  <2>2. CASE n = m  BY <2>2
  <2>3. CASE step.do \in {"create", "close", "append"} /\ n = PruneSessions(w)
    <3>1. w.request = m.request  BY <2>3 DEF Written, Maps
    <3> QED BY <1>1, <2>3, <3>1, PruneOnlyDrops
  <2>4. CASE step.do = "decide" /\ n = w
    <3>1. step.verdict # "absent"  BY <2>4, VerdictsAreStates DEF Step
    <3> QED BY <2>4, <3>1 DEF Written, Maps
  <2> QED BY <2>1, <2>2, <2>3, <2>4, AfterIsPruned
<1>3. /\ w.createdAt = [m.createdAt EXCEPT ![step.id] = t]
      /\ w.request = [m.request EXCEPT ![step.id] = "submitted"]
      /\ n.request[r] = "absent"
  BY <1>2 DEF Written, Maps
<1> HIDE DEF w, n
<1>4. /\ w.createdAt[step.id] = t
      /\ \A x \in Requests : x # step.id => w.createdAt[x] = m.createdAt[x] /\ w.request[x] = m.request[x]
      /\ \A x \in Requests : w.createdAt[x] \in Nat /\ w.createdAt[x] <= t /\ m.createdAt[x] \in Nat
  BY <1>1, <1>2, <1>3 DEF Maps
<1> DEFINE newer == {x \in Submitted(w) : w.createdAt[x] > w.createdAt[r]}
           before == {x \in Submitted(m) : m.createdAt[x] > m.createdAt[r]}
<1>5. r \in SurplusRequests(w)
  <2>1. w.request[r] # "absent"  BY <1>3 DEF Maps
  <2> QED BY <1>1, <1>2, <1>3, <2>1 DEF PruneRequests, Maps
<1>6. Cardinality(newer) >= MaxRequests /\ r \in Submitted(w)  BY <1>5 DEF SurplusRequests
<1>7. r # step.id
  <2> SUFFICES ASSUME r = step.id PROVE FALSE
    OBVIOUS
  <2>1. newer = {}  BY <1>4 DEF Submitted
  <2> HIDE DEF newer
  <2> QED BY <1>6, <2>1, FS_EmptySet, LimitsArePositive
<1>8. w.createdAt[r] = m.createdAt[r] /\ r \in Submitted(m)
  BY <1>4, <1>7 DEF Submitted
<1>9. ~(Cardinality(before) >= MaxRequests)
  BY <1>8 DEF Tidy, SurplusRequests
<1>10. newer \in SUBSET (before \cup {step.id})
  BY <1>4, <1>8 DEF Submitted
<1>11. IsFiniteSet(before) /\ IsFiniteSet(Submitted(w))
  <2>1. before \subseteq Sessions \cup Requests /\ Submitted(w) \subseteq Sessions \cup Requests
    BY DEF Submitted
  <2> QED BY <2>1, IdsAreDistinct, FS_Subset
<1>12. Cardinality(newer) = MaxRequests
  <2> HIDE DEF newer, before
  <2> QED BY <1>6, <1>9, <1>10, <1>11, FilledUp, LimitsArePositive
<1>13. {x \in Submitted(w) \ SurplusRequests(w) : w.createdAt[x] > w.createdAt[r]} = newer
  <2>1. \A x \in Submitted(w) : w.createdAt[x] \in Nat  BY <1>4 DEF Submitted
  <2>2. SurplusRequests(w) = Crowded(Submitted(w), w.createdAt, MaxRequests)  BY DEF SurplusRequests, Crowded, NewerIn
  <2>3. newer = NewerIn(Submitted(w), w.createdAt, r)  BY DEF NewerIn
  <2> HIDE DEF newer
  <2>4. MaxRequests \in Nat  BY LimitsArePositive
  <2>5. NewerIn(Submitted(w) \ SurplusRequests(w), w.createdAt, r) = NewerIn(Submitted(w), w.createdAt, r)
    BY <1>5, <1>6, <1>11, <1>12, <2>1, <2>2, <2>3, <2>4, PrunedByAge
  <2> QED BY <2>3, <2>5 DEF NewerIn
<1>14. /\ Submitted(n) = Submitted(w) \ SurplusRequests(w)
       /\ \A x \in Submitted(n) : n.createdAt[x] = w.createdAt[x]
  BY <1>1, <1>2 DEF PruneRequests, Submitted, Maps
<1>15. {x \in Submitted(n) : n.createdAt[x] > m.createdAt[r]}
         = {x \in Submitted(w) \ SurplusRequests(w) : w.createdAt[x] > w.createdAt[r]}
  BY <1>8, <1>14
<1> QED BY <1>12, <1>13, <1>15 DEF n

(* What the running server drops, closed sessions and requests, is the oldest, and as many newer *)
(* ones as the limit allows remain (pruneClosedWorkSessions, pruneWorkRequests): a step adds at   *)
(* most one, so it never drops more than one of each that was within the limit.                   *)
THEOREM OldestAreDropped == Spec => OldestGoFirst
<1> DEFINE Dropped ==
             up /\ up' =>
               /\ \A s \in Sessions : mem.status[s] # "absent" /\ mem'.status[s] = "absent" =>
                    Cardinality({t \in Closed(mem') : mem'.updatedAt[t] > mem.updatedAt[s]}) = MaxClosed
               /\ \A r \in Requests : mem.request[r] # "absent" /\ mem'.request[r] = "absent" =>
                    Cardinality({q \in Submitted(mem') : mem'.createdAt[q] > mem.createdAt[r]}) = MaxRequests
<1>1. TypeOK /\ StoreInv /\ ListsInv /\ [Next]_vars => [Dropped]_vars
  <2> SUFFICES ASSUME TypeOK, StoreInv, ListsInv, Next, up, up' PROVE Dropped
    BY DEF vars
  <2>1. CASE Saves \/ SaveFails
    <3>1. /\ mem' = After(mem, Head(job.steps), time + 1) /\ Head(job.steps) \in Step /\ time + 1 \in Nat
      BY <2>1 DEF Saves, SaveFails, TypeOK, Job
    <3>2. /\ mem \in Maps /\ Tidy(mem) /\ \A x \in Sessions : mem.updatedAt[x] < time + 1
          /\ \A x \in Requests : mem.createdAt[x] < time + 1
      BY DEF StoreInv, ListsInv, TypeOK, Maps
    <3>3. PICK m \in Maps : m = mem  BY <3>2
    <3>4. PICK step \in Step, t \in Nat :
            /\ mem' = After(m, step, t) /\ \A x \in Sessions : m.updatedAt[x] < t
            /\ \A x \in Requests : m.createdAt[x] < t
      BY <3>1, <3>2, <3>3
    <3>5. Tidy(m)  BY <3>2, <3>3
    <3> QED BY <3>3, <3>4, <3>5, OldestSessionsGo, OldestRequestsGo
  <2>2. CASE SaveKills \/ Crash \/ Start  BY <2>2 DEF SaveKills, Crash, Start
  <2>3. CASE mem' = mem  BY <2>3
  <2>4. Saves \/ SaveFails \/ SaveKills \/ Crash \/ Start \/ mem' = mem
    BY DEF Next, NewSession, PostMessage, PostClose, PostCommand, PostRequest, PostDecision, Call, Answer,
             Read, RefuseDecision, Tells
  <2> QED BY <2>1, <2>2, <2>3, <2>4
<1> QED BY <1>1, StoreTypeCorrect, StoreInvariant, ListsInvariant, PTL DEF Spec, OldestGoFirst

=============================================================================
