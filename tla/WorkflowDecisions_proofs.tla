---------------------- MODULE WorkflowDecisions_proofs ----------------------
(***************************************************************************)
(* Theorems about WorkflowDecisions, for any number of requests, decisions,*)
(* failed saves and crashes, and any length of the history ring.           *)
(***************************************************************************)
EXTENDS WorkflowDecisions, SequenceTheorems, TLAPS

-----------------------------------------------------------------------------
(* Types *)

LEMMA EmptyFits ==
  /\ NoRequests \in RequestMap /\ NoDecisions \in DecisionMap /\ <<>> \in Log
BY WorkflowBounds DEF NoRequests, NoDecisions, RequestMap, DecisionMap, Log

LEMMA LogFits ==
  ASSUME entries \in Log, NEW r \in ReqId,
         NEW event \in {"REQUEST_CREATED", "DECIDED", "ACKNOWLEDGED"}
  PROVE  Appended(event, r) \in Log
<1> DEFINE e == [event |-> event, req |-> r]
<1>1. e \in Entry
  BY DEF Entry
<1>2. /\ Append(entries, e) \in Seq(Entry)
      /\ Len(Append(entries, e)) = Len(entries) + 1
      /\ Len(entries) \in Nat /\ Len(entries) <= HistoryMax
  BY <1>1 DEF Log
<1>3. /\ Tail(Append(entries, e)) \in Seq(Entry)
      /\ Len(Tail(Append(entries, e))) = Len(entries)
  BY <1>1, <1>2
<1>4. QED
  BY <1>2, <1>3, WorkflowBounds DEF Appended, Log

\* The effects a handler leaves to be done are effects.
LEMMA EffectsFit ==
  /\ \A rs \in RequestMap, ds \in DecisionMap : Save(rs, ds) \in Effect
  /\ \A h \in Log : SaveLog(h) \in Effect
  /\ \A t \in Told : [do |-> "notify", told |-> t] \in Effect
  /\ \A i \in DecId : [do |-> "answer", ack |-> i] \in Effect
BY DEF Save, SaveLog, Effect, Store

LEMMA QueuesFit ==
  /\ \A e \in Effect : <<e>> \in Seq(Effect)
  /\ \A e, f \in Effect : <<e, f>> \in Seq(Effect)
  /\ \A e, f, g \in Effect : <<e, f, g>> \in Seq(Effect)
  /\ \A s, t \in Seq(Effect) : s \o t \in Seq(Effect)
OBVIOUS

LEMMA GivenFits ==
  ASSUME NEW d \in Decision
  PROVE  Given(d) \in Told
BY DEF Decision, Given, Told

LEMMA InitType == Init => TypeOK
<1> SUFFICES ASSUME Init PROVE TypeOK
  OBVIOUS
<1>1. disk \in Store
  BY EmptyFits DEF Init, Store
<1>2. nextReq \in 1..(MaxRequests + 1) /\ nextDec \in 1..(MaxDecisions + 1)
      /\ failures \in 0..MaxFailures /\ crashes \in 0..MaxCrashes
  BY WorkflowBounds DEF Init
<1>3. todo \in Seq(Effect)
  BY DEF Init
<1>4. QED
  BY <1>1, <1>2, <1>3, EmptyFits DEF Init, TypeOK

LEMMA CreateType ==
  ASSUME TypeOK, NEW p \in ReqId \cup {None}, Create(p)
  PROVE  TypeOK'
<1> DEFINE new == [parent |-> p, status |-> "pending_decision"]
<1> DEFINE rs == [requests EXCEPT ![nextReq] = new]
<1> DEFINE h == Appended("REQUEST_CREATED", nextReq)
<1>1. nextReq \in ReqId /\ nextReq + 1 \in 1..(MaxRequests + 1)
  BY WorkflowBounds DEF TypeOK, Create, ReqId
<1>2. new \in Request
  BY DEF Request
<1>3. rs \in RequestMap
  BY <1>1, <1>2 DEF TypeOK, RequestMap
<1>4. h \in Log
  BY <1>1, LogFits DEF TypeOK
<1>5. Save(rs, decisions) \in Effect /\ SaveLog(h) \in Effect
  BY <1>3, <1>4, EffectsFit DEF TypeOK
<1>6. todo' \in Seq(Effect)
  BY <1>5, QueuesFit DEF Create
<1>7. requests' \in RequestMap /\ entries' \in Log /\ nextReq' \in 1..(MaxRequests + 1)
  BY <1>1, <1>3, <1>4 DEF Create
<1>8. QED
  BY <1>6, <1>7 DEF Create, TypeOK, files, ghosts

LEMMA DecideType ==
  ASSUME TypeOK, NEW r \in ReqId, NEW v \in Verdict, Decide(r, v)
  PROVE  TypeOK'
<1> DEFINE d == [id |-> nextDec, req |-> r, decision |-> v, delivery |-> "available"]
<1> DEFINE ds == [decisions EXCEPT ![r] = d]
<1> DEFINE rs == [requests EXCEPT ![r] = Decided(@)]
<1> DEFINE h == Appended("DECIDED", r)
<1>1. nextDec \in DecId /\ nextDec + 1 \in 1..(MaxDecisions + 1)
  BY WorkflowBounds DEF TypeOK, Decide, DecId
<1>2. d \in Decision
  BY <1>1 DEF Decision
<1>3. ds \in DecisionMap
  BY <1>2 DEF TypeOK, DecisionMap
<1>4. Decided(requests[r]) \in Request
  BY DEF TypeOK, RequestMap, Decide, Decidable, Decided, Request
<1>5. rs \in RequestMap
  BY <1>4 DEF TypeOK, RequestMap
<1>6. h \in Log
  BY LogFits DEF TypeOK
<1>7. /\ Save(rs, ds) \in Effect /\ SaveLog(h) \in Effect
      /\ [do |-> "notify", told |-> Given(d)] \in Effect
  BY <1>2, <1>3, <1>5, <1>6, EffectsFit, GivenFits
<1>8. todo' \in Seq(Effect)
  BY <1>7, QueuesFit DEF Decide, DecideEffects
<1>9. /\ requests' \in RequestMap /\ decisions' \in DecisionMap /\ entries' \in Log
      /\ nextDec' \in 1..(MaxDecisions + 1)
  BY <1>1, <1>3, <1>5, <1>6 DEF Decide
<1>10. QED
  BY <1>8, <1>9 DEF Decide, TypeOK, files, ghosts

\* What an ack makes of a decision.
LEMMA AckKeepsDecision ==
  ASSUME NEW d \in Decision
  PROVE  /\ [d EXCEPT !.delivery = "acknowledged"] \in Decision
         /\ Given([d EXCEPT !.delivery = "acknowledged"]) = Given(d)
         /\ [d EXCEPT !.delivery = "acknowledged"].req = d.req
         /\ d.delivery = "acknowledged" => [d EXCEPT !.delivery = "acknowledged"] = d
BY DEF Decision, Given

LEMMA AckType ==
  ASSUME TypeOK, NEW r \in ReqId, Ack(r)
  PROVE  TypeOK'
<1> DEFINE d == decisions[r]
<1> DEFINE ds == [decisions EXCEPT ![r] = [d EXCEPT !.delivery = "acknowledged"]]
<1> DEFINE h == Appended("ACKNOWLEDGED", r)
<1> DEFINE last == <<SaveLog(h), [do |-> "answer", ack |-> d.id]>>
<1>1. d \in Decision /\ d.id \in DecId
  BY DEF TypeOK, DecisionMap, Ack, Decision
<1>2. ds \in DecisionMap
  BY <1>1, AckKeepsDecision DEF TypeOK, DecisionMap
<1>3. h \in Log
  BY LogFits DEF TypeOK
<1>4. last \in Seq(Effect)
  BY <1>1, <1>3, EffectsFit, QueuesFit
<1>5. AckEffects(d, ds) \in Seq(Effect)
  <2>1. Save(requests, ds) \in Effect
    BY <1>2, EffectsFit DEF TypeOK
  <2>2. QED
    BY <2>1, QueuesFit DEF AckEffects
<1>6. todo' \in Seq(Effect)
  <2>1. todo' = AckEffects(d, ds) \o last
    BY Zenon DEF Ack
  <2>2. QED
    BY <1>4, <1>5, <2>1, QueuesFit, Zenon
<1>7. decisions' \in DecisionMap /\ entries' \in Log
  BY <1>2, <1>3 DEF Ack
<1>8. QED
  BY <1>6, <1>7 DEF Ack, TypeOK, files, ghosts

LEMMA HeadFits ==
  ASSUME TypeOK, todo # <<>>
  PROVE  /\ Head(todo) \in Effect /\ Tail(todo) \in Seq(Effect)
         /\ Head(todo).do = "save" => Head(todo).store \in Store
         /\ Head(todo).do = "saveLog" => Head(todo).entries \in Log
         /\ Head(todo).do = "notify" => Head(todo).told \in Told
         /\ Head(todo).do = "answer" => Head(todo).ack \in DecId
<1>1. Head(todo) \in Effect /\ Tail(todo) \in Seq(Effect)
  BY DEF TypeOK
<1>2. QED
  BY <1>1 DEF Effect

LEMMA TypeNext == TypeOK /\ [Next]_vars => TypeOK'
<1> SUFFICES ASSUME TypeOK, [Next]_vars PROVE TypeOK'
  OBVIOUS
<1>1. CASE Creations
  BY <1>1, CreateType DEF Creations
<1>2. CASE Rulings
  BY <1>2, DecideType DEF Rulings
<1>3. CASE Pulls
  <2>1. PICK r \in ReqId : Poll(r)
    BY <1>3 DEF Pulls
  <2>2. decisions[r] \in Decision
    BY <2>1 DEF TypeOK, DecisionMap, Poll
  <2>3. told' \subseteq Told
    BY <2>1, <2>2, GivenFits DEF TypeOK, Poll
  <2>4. QED
    BY <2>1, <2>3 DEF Poll, TypeOK, memory, files
<1>4. CASE Acks
  BY <1>4, AckType DEF Acks
<1>5. CASE Saves
  BY <1>5, HeadFits DEF Saves, TypeOK, memory
<1>6. CASE SaveFails
  BY <1>6, HeadFits, WorkflowBounds DEF SaveFails, TypeOK, memory, files
<1>7. CASE Notifies
  BY <1>7, HeadFits DEF Notifies, TypeOK, memory, files
<1>8. CASE Answers
  BY <1>8, HeadFits DEF Answers, TypeOK, memory, files
<1>9. CASE Crash
  <2>1. crashes' \in 0..MaxCrashes
    BY <1>9, WorkflowBounds DEF Crash, TypeOK
  <2>2. /\ up' \in BOOLEAN /\ lost' \in BOOLEAN /\ unsaved' \in BOOLEAN
    BY <1>9, Zenon DEF Crash, TypeOK
  <2>3. todo' \in Seq(Effect)
    BY <1>9 DEF Crash
  <2>4. QED
    BY <1>9, <2>1, <2>2, <2>3, EmptyFits, Zenon DEF Crash, TypeOK, files
<1>10. CASE Start
  BY <1>10 DEF Start, TypeOK, Store, files, ghosts
<1>11. CASE UNCHANGED vars
  BY <1>11 DEF TypeOK, vars, memory, files, ghosts
<1>12. QED
  BY <1>1, <1>2, <1>3, <1>4, <1>5, <1>6, <1>7, <1>8, <1>9, <1>10, <1>11 DEF Next

\* Every variable of the decision server keeps its type.
THEOREM WorkflowTypeCorrect == Spec => []TypeOK
<1>1. QED
  BY InitType, TypeNext, PTL DEF Spec

-----------------------------------------------------------------------------
(* What the file has and what memory has *)

LEMMA FilesInit == Init => FilesInv
<1> SUFFICES ASSUME Init PROVE FilesInv
  OBVIOUS
<1>1. /\ up /\ todo = <<>> /\ told = {} /\ disk = Here
      /\ \A r \in ReqId : requests[r] = None /\ decisions[r] = None
  BY DEF Init, Here, NoRequests, NoDecisions
<1>2. /\ disk.requests = requests /\ disk.decisions = decisions
      /\ Here.requests = requests /\ Here.decisions = decisions
  BY <1>1 DEF Here
<1>3. SavesLeft = {}
  BY <1>1 DEF SavesLeft
<1>4. TodoIsOfMemory
  BY <1>1, <1>3 DEF TodoIsOfMemory
<1>5. FileIsBehindByOne /\ ToldStays
  BY <1>1, <1>2 DEF FileIsBehindByOne, ToldStays, Knows
<1>6. StatusMatches /\ ChainsAreWhole /\ Keyed(decisions) /\ Keyed(disk.decisions)
      /\ IdsAreFresh
  BY <1>1, <1>2 DEF StatusMatches, Matching, ChainsAreWhole, Whole, Keyed, IdsAreFresh
<1>7. QED
  BY <1>1, <1>4, <1>5, <1>6 DEF FilesInv

LEMMA HereHas == Here.requests = requests /\ Here.decisions = decisions
BY DEF Here

\* Between handlers memory and file agree, unless the last save failed.
LEMMA IdleAgrees ==
  ASSUME FilesInv, Idle
  PROVE  ~unsaved => disk = Here /\ disk.decisions = decisions /\ disk.requests = requests
<1>1. up /\ SavesLeft = {}
  BY DEF Idle, SavesLeft
<1>2. QED
  BY <1>1, HereHas DEF FilesInv, FileIsBehindByOne

\* A handler keeps the invariant if it makes at most one decision and changes none but
\* in its delivery, leaves requests and decisions in step, and queues a save of all it
\* changed.
LEMMA HandlerKeepsFiles ==
  ASSUME TypeOK, FilesInv, Idle, UNCHANGED <<up, disk, told, unsaved, lost>>,
         TodoIsOfMemory', SavesLeft' = {} => UNCHANGED Here,
         IdsAreFresh', Keyed(decisions'), Matching(Here'), Whole(requests'),
         NEW x \in ReqId, \A r \in ReqId : decisions[r] = None /\ decisions'[r] # None => r = x,
         Knows(decisions', decisions)
  PROVE  FilesInv'
<1>1. up /\ up' /\ (~unsaved => disk = Here /\ disk.decisions = decisions)
  BY IdleAgrees DEF Idle
<1>2. Knows(decisions', disk.decisions)
  <2>1. Knows(decisions, disk.decisions)
    BY <1>1 DEF FilesInv, FileIsBehindByOne
  <2>2. QED
    BY <2>1 DEF Knows
<1>3. FileIsBehindByOne'
  BY <1>1, <1>2 DEF FileIsBehindByOne
<1>4. ToldStays'
  <2>1. \A g \in told : g.req \in ReqId
    BY DEF TypeOK, Told
  <2>2. QED
    BY <1>1, <2>1 DEF FilesInv, ToldStays, Knows
<1>5. StatusMatches' /\ ChainsAreWhole' /\ Keyed(disk'.decisions)
  BY DEF FilesInv, StatusMatches, ChainsAreWhole, Matching, Whole
<1>6. QED
  BY <1>1, <1>3, <1>4, <1>5 DEF FilesInv

LEMMA CreateKeepsFiles ==
  ASSUME TypeOK, FilesInv, NEW p \in ReqId \cup {None}, Create(p)
  PROVE  FilesInv'
<1> DEFINE new == [parent |-> p, status |-> "pending_decision"]
<1> DEFINE rs == [requests EXCEPT ![nextReq] = new]
<1> DEFINE h == Appended("REQUEST_CREATED", nextReq)
<1>1. nextReq \in ReqId /\ nextReq' = nextReq + 1
  BY WorkflowBounds DEF TypeOK, Create, ReqId
<1>2. requests' = rs /\ decisions' = decisions /\ todo' = <<Save(rs, decisions), SaveLog(h)>>
  BY DEF Create
<1>3. /\ Here' = [requests |-> rs, decisions |-> decisions]
      /\ Here'.requests = rs /\ Here'.decisions = decisions
  BY <1>2 DEF Here
<1>4. TodoIsOfMemory' /\ 1 \in SavesLeft'
  <2>1. /\ DOMAIN todo' = {1, 2}
        /\ todo'[1].do = "save" /\ todo'[1].store = Here' /\ todo'[2].do = "saveLog"
    BY <1>2, <1>3 DEF Save, SaveLog
  <2>2. up'
    BY DEF Create, Idle
  <2>3. QED
    BY <2>1, <2>2 DEF TodoIsOfMemory, SavesLeft
<1>5. requests[nextReq] = None /\ decisions[nextReq] = None
  BY <1>1, HereHas DEF FilesInv, IdsAreFresh, StatusMatches, Matching, ReqId
<1>6. /\ rs[nextReq] = new /\ new.status = "pending_decision" /\ new.parent = p
      /\ \A r \in ReqId : r # nextReq => rs[r] = requests[r]
  BY <1>1 DEF TypeOK, RequestMap
<1>7. Matching(Here')
  BY <1>3, <1>5, <1>6, HereHas DEF FilesInv, StatusMatches, Matching
<1>8. Whole(requests')
  <2>1. \A r \in ReqId : requests[r] # None => requests[r].parent \in ReqId \cup {None}
    BY DEF TypeOK, RequestMap, Request
  <2>2. p # None => requests[p] # None
    BY DEF Create
  <2>3. rs[nextReq] # None
    BY <1>1, <1>6, NoneIsNoValue DEF Request
  <2>4. QED
    BY <1>2, <1>6, <2>1, <2>2, <2>3 DEF FilesInv, ChainsAreWhole, Whole
<1>9. IdsAreFresh'
  <2>1. disk' = disk
    BY DEF Create, files
  <2>2. QED
    BY <1>1, <1>2, <1>6, <2>1 DEF FilesInv, IdsAreFresh, ReqId
<1>10. Idle /\ UNCHANGED <<up, disk, told, unsaved, lost>>
  BY DEF Create, files, ghosts
<1>11. Keyed(decisions') /\ Knows(decisions', decisions)
  BY <1>2 DEF FilesInv, Keyed, Knows
<1>12. QED
  BY <1>1, <1>2, <1>4, <1>7, <1>8, <1>9, <1>10, <1>11, HandlerKeepsFiles

LEMMA DecideKeepsFiles ==
  ASSUME TypeOK, FilesInv, NEW r \in ReqId, NEW v \in Verdict, Decide(r, v)
  PROVE  FilesInv'
<1> DEFINE d == [id |-> nextDec, req |-> r, decision |-> v, delivery |-> "available"]
<1> DEFINE ds == [decisions EXCEPT ![r] = d]
<1> DEFINE rs == [requests EXCEPT ![r] = Decided(@)]
<1> DEFINE h == Appended("DECIDED", r)
<1>1. /\ requests' = rs /\ decisions' = ds
      /\ todo' = <<Save(rs, ds), [do |-> "notify", told |-> Given(d)], SaveLog(h)>>
      /\ requests[r] # None /\ decisions[r] = None
  BY DEF Decide, DecideEffects, Decidable
<1>2. /\ Here' = [requests |-> rs, decisions |-> ds]
      /\ Here'.requests = rs /\ Here'.decisions = ds
  BY <1>1 DEF Here
<1>3. d \in Decision
  BY WorkflowBounds DEF Decide, TypeOK, DecId, Decision
<1>4. /\ d # None /\ Given(d).req = r
      /\ ds[r] = d /\ \A q \in ReqId : q # r => ds[q] = decisions[q]
  BY <1>3, NoneIsNoValue DEF TypeOK, DecisionMap, Given
<1>5. /\ rs[r] # None /\ rs[r].status = "decided" /\ rs[r].parent = requests[r].parent
      /\ \A q \in ReqId : q # r => rs[q] = requests[q]
  <2>1. rs[r] \in Request /\ rs[r].status = "decided" /\ rs[r].parent = requests[r].parent
    BY <1>1 DEF TypeOK, RequestMap, Request, Decided
  <2>2. QED
    BY <2>1, NoneIsNoValue DEF TypeOK, RequestMap
<1>6. TodoIsOfMemory' /\ 1 \in SavesLeft'
  <2>1. /\ DOMAIN todo' = {1, 2, 3}
        /\ todo'[1].do = "save" /\ todo'[1].store = Here' /\ todo'[3].do = "saveLog"
        /\ todo'[2].do = "notify" /\ todo'[2].told = Given(d)
    BY <1>1, <1>2 DEF Save, SaveLog
  <2>2. up' /\ decisions'[Given(d).req] = d
    BY <1>1, <1>4 DEF Decide, Idle
  <2>3. SavesLeft' = {1}
    BY <2>1 DEF SavesLeft
  <2>4. QED
    BY <1>4, <2>1, <2>2, <2>3 DEF TodoIsOfMemory
<1>7. Matching(Here')
  BY <1>2, <1>4, <1>5, HereHas DEF FilesInv, StatusMatches, Matching
<1>8. Whole(requests')
  <2>1. \A q \in ReqId : requests[q] # None => requests[q].parent \in ReqId \cup {None}
    BY DEF TypeOK, RequestMap, Request
  <2>2. QED
    BY <1>1, <1>5, <2>1 DEF FilesInv, ChainsAreWhole, Whole
<1>9. Idle /\ UNCHANGED <<up, disk, told, unsaved, lost, nextReq>>
  BY DEF Decide, files, ghosts
<1>10. IdsAreFresh'
  BY <1>1, <1>5, <1>9 DEF FilesInv, IdsAreFresh
<1>11. Keyed(decisions') /\ Knows(decisions', decisions)
  BY <1>1, <1>4 DEF FilesInv, Keyed, Knows
<1>12. \A q \in ReqId : decisions[q] = None /\ decisions'[q] # None => q = r
  BY <1>1, <1>4
<1>13. QED
  BY <1>6, <1>7, <1>8, <1>9, <1>10, <1>11, <1>12, HandlerKeepsFiles

LEMMA Joined ==
  ASSUME NEW a, NEW b, NEW c
  PROVE  <<a>> \o <<b, c>> = <<a, b, c>> /\ <<>> \o <<b, c>> = <<b, c>>
<1> DEFINE S == {a, b, c}
<1>1. <<>> \in Seq(S) /\ <<a>> \in Seq(S) /\ <<b, c>> \in Seq(S) /\ <<a, b, c>> \in Seq(S)
  OBVIOUS
<1>2. <<>> \o <<b, c>> = <<b, c>>
  BY <1>1, ConcatEmptySeq
<1>3. <<a>> \o <<b, c>> = <<a, b, c>>
  <2> DEFINE q == <<a>> \o <<b, c>>
  <2>1. /\ q \in Seq(S) /\ Len(q) = Len(<<a>>) + Len(<<b, c>>)
        /\ \A i \in 1..(Len(<<a>>) + Len(<<b, c>>)) :
             q[i] = IF i <= Len(<<a>>) THEN <<a>>[i] ELSE <<b, c>>[i - Len(<<a>>)]
    BY <1>1, ConcatProperties
  <2>2. Len(<<a>>) = 1 /\ Len(<<b, c>>) = 2 /\ <<a>>[1] = a /\ <<b, c>>[1] = b /\ <<b, c>>[2] = c
    OBVIOUS
  <2> HIDE DEF q
  <2>3. q \in Seq(S) /\ Len(q) = 3 /\ q[1] = a /\ q[2] = b /\ q[3] = c
    BY <2>1, <2>2
  <2>4. q = [i \in 1..3 |-> q[i]] /\ <<a, b, c>> = [i \in 1..3 |-> <<a, b, c>>[i]]
    BY <2>3
  <2>5. \A i \in 1..3 : q[i] = <<a, b, c>>[i]
    BY <2>3
  <2>6. q = <<a, b, c>>
    BY <2>4, <2>5, Zenon
  <2>7. QED
    BY <2>6 DEF q
<1>4. QED
  BY <1>2, <1>3

LEMMA AckKeepsFiles ==
  ASSUME TypeOK, FilesInv, NEW r \in ReqId, Ack(r)
  PROVE  FilesInv'
<1> DEFINE d == decisions[r]
<1> DEFINE e == [d EXCEPT !.delivery = "acknowledged"]
<1> DEFINE ds == [decisions EXCEPT ![r] = e]
<1> DEFINE h == Appended("ACKNOWLEDGED", r)
<1> DEFINE last == <<SaveLog(h), [do |-> "answer", ack |-> d.id]>>
<1>1. d \in Decision /\ d # None /\ decisions' = ds /\ requests' = requests
      /\ todo' = AckEffects(d, ds) \o last
  BY DEF Ack, TypeOK, DecisionMap
<1>2. e \in Decision /\ e # None /\ Given(e) = Given(d) /\ e.req = d.req
  BY <1>1, AckKeepsDecision, NoneIsNoValue
<1>3. ds[r] = e /\ \A q \in ReqId : q # r => ds[q] = decisions[q]
  BY DEF TypeOK, DecisionMap
<1>4. /\ Here' = [requests |-> requests, decisions |-> ds]
      /\ Here'.requests = requests /\ Here'.decisions = ds
  BY <1>1 DEF Here
<1>5. /\ Idle /\ UNCHANGED <<up, disk, told, unsaved, lost, nextReq>>
  BY DEF Ack, files, ghosts
<1>6. Keyed(decisions') /\ Knows(decisions', decisions)
  BY <1>1, <1>2, <1>3 DEF FilesInv, Keyed, Knows
<1>7. Matching(Here') /\ Whole(requests') /\ IdsAreFresh'
  BY <1>1, <1>2, <1>3, <1>4, <1>5, HereHas
     DEF FilesInv, StatusMatches, Matching, ChainsAreWhole, Whole, IdsAreFresh
<1>8. CASE d.delivery = "acknowledged"
  <2>1. e = d
    BY <1>1, <1>8, AckKeepsDecision
  <2>2. ds = decisions
    BY <2>1, <1>1 DEF TypeOK, DecisionMap
  <2>3. Here' = Here
    BY <1>4, <2>2 DEF Here
  <2>4. todo' = last
    BY <1>1, <1>8 DEF AckEffects
  <2>5. DOMAIN todo' = {1, 2} /\ todo'[1].do = "saveLog" /\ todo'[2].do = "answer"
    BY <2>4 DEF SaveLog
  <2>6. SavesLeft' = {} /\ TodoIsOfMemory'
    BY <1>5, <2>5 DEF SavesLeft, TodoIsOfMemory, Idle
  <2>7. \A q \in ReqId : decisions[q] = None /\ decisions'[q] # None => q = r
    BY <1>1, <2>2
  <2>8. QED
    BY <1>5, <1>6, <1>7, <2>3, <2>6, <2>7, HandlerKeepsFiles
<1>9. CASE d.delivery # "acknowledged"
  <2>1. todo' = <<Save(requests, ds), SaveLog(h), [do |-> "answer", ack |-> d.id]>>
    <3>1. AckEffects(d, ds) = <<Save(requests, ds)>>
      BY <1>9 DEF AckEffects
    <3>2. QED
      BY <1>1, <3>1, Joined, Zenon
  <2>2. /\ DOMAIN todo' = {1, 2, 3} /\ todo'[1].do = "save" /\ todo'[1].store = Here'
        /\ todo'[2].do = "saveLog" /\ todo'[3].do = "answer"
    BY <1>4, <2>1 DEF Save, SaveLog
  <2>3. SavesLeft' = {1} /\ TodoIsOfMemory'
    BY <1>5, <2>2 DEF SavesLeft, TodoIsOfMemory, Idle
  <2>4. \A q \in ReqId : decisions[q] = None /\ decisions'[q] # None => q = r
    BY <1>1, <1>3
  <2>5. QED
    BY <1>5, <1>6, <1>7, <2>3, <2>4, HandlerKeepsFiles
<1>10. QED
  BY <1>8, <1>9

-----------------------------------------------------------------------------
(* Effects outside memory, crashes and restarts *)

\* An effect taken from the front of `todo` leaves the rest in its order.
LEMMA RestOfTodo ==
  ASSUME TypeOK, todo # <<>>, todo' = Tail(todo)
  PROVE  /\ 1 \in DOMAIN todo /\ Head(todo) = todo[1]
         /\ \A k \in DOMAIN todo' : k + 1 \in DOMAIN todo /\ todo'[k] = todo[k + 1]
         /\ \A k \in SavesLeft' : k + 1 \in SavesLeft
         /\ \A k \in SavesLeft : k # 1 => k - 1 \in SavesLeft'
<1>1. todo \in Seq(Effect)
  BY DEF TypeOK
<1>2. /\ 1 \in DOMAIN todo /\ Head(todo) = todo[1]
      /\ \A k \in DOMAIN todo' : k + 1 \in DOMAIN todo /\ todo'[k] = todo[k + 1]
      /\ \A k \in DOMAIN todo : k # 1 => k - 1 \in DOMAIN todo' /\ todo'[k - 1] = todo[k]
  BY <1>1
<1>3. QED
  BY <1>2 DEF SavesLeft

LEMMA RestIsOfMemory ==
  ASSUME TypeOK, FilesInv, up, todo # <<>>, todo' = Tail(todo), UNCHANGED <<up, requests, decisions>>
  PROVE  TodoIsOfMemory' /\ Here' = Here
<1>1. Here' = Here
  BY DEF Here
<1>2. \A k \in SavesLeft' : todo'[k].store = Here'
  BY <1>1, RestOfTodo DEF FilesInv, TodoIsOfMemory, SavesLeft
<1>3. ASSUME NEW k \in DOMAIN todo', todo'[k].do = "notify"
      PROVE  /\ decisions'[todo'[k].told.req] # None
             /\ todo'[k].told = Given(decisions'[todo'[k].told.req])
             /\ \A j \in SavesLeft' : j < k
  <2>1. k + 1 \in DOMAIN todo /\ todo'[k] = todo[k + 1]
    BY <1>3, RestOfTodo
  <2>2. /\ decisions[todo[k + 1].told.req] # None
        /\ todo[k + 1].told = Given(decisions[todo[k + 1].told.req])
        /\ \A j \in SavesLeft : j < k + 1
    BY <1>3, <2>1 DEF FilesInv, TodoIsOfMemory
  <2>3. \A j \in SavesLeft' : j \in Nat /\ j + 1 \in SavesLeft
    <3>1. DOMAIN todo' \subseteq Nat
      BY DEF TypeOK
    <3>2. QED
      BY <3>1, RestOfTodo DEF SavesLeft
  <2>4. k \in Nat
    BY DEF TypeOK
  <2>5. QED
    BY <2>1, <2>2, <2>3, <2>4
<1>4. QED
  BY <1>1, <1>2, <1>3 DEF TodoIsOfMemory

LEMMA SavesKeepsFiles ==
  ASSUME TypeOK, FilesInv, Saves
  PROVE  FilesInv'
<1>1. up /\ todo # <<>> /\ todo' = Tail(todo) /\ UNCHANGED <<up, requests, decisions, nextReq, told, lost>>
  BY DEF Saves, memory
<1>2. TodoIsOfMemory' /\ Here' = Here
  BY <1>1, RestIsOfMemory
<1>3. CASE Head(todo).do = "save"
  <2>1. 1 \in SavesLeft /\ disk' = todo[1].store /\ ~unsaved'
    BY <1>1, <1>3, RestOfTodo DEF Saves, SavesLeft
  <2>2. disk' = Here /\ disk'.decisions = decisions /\ disk'.requests = requests
    BY <2>1, HereHas DEF FilesInv, TodoIsOfMemory
  <2>3. FileIsBehindByOne'
    BY <1>1, <1>2, <2>2 DEF FileIsBehindByOne, Knows
  <2>4. ToldStays'
    BY <1>1, <2>2 DEF FilesInv, ToldStays
  <2>5. StatusMatches' /\ ChainsAreWhole' /\ IdsAreFresh' /\ Keyed(decisions')
        /\ Keyed(disk'.decisions)
    BY <1>1, <1>2, <2>2
       DEF FilesInv, StatusMatches, Matching, ChainsAreWhole, Whole, IdsAreFresh, Keyed
  <2>6. QED
    BY <1>1, <1>2, <2>3, <2>4, <2>5 DEF FilesInv
<1>4. CASE Head(todo).do = "saveLog"
  <2>1. UNCHANGED <<disk, unsaved>>
    BY <1>4 DEF Saves
  <2>2. SavesLeft' = {} => SavesLeft = {}
    BY <1>1, <1>4, RestOfTodo DEF SavesLeft
  <2>3. FileIsBehindByOne'
    BY <1>1, <1>2, <2>1, <2>2 DEF FilesInv, FileIsBehindByOne
  <2>4. QED
    BY <1>1, <1>2, <2>1, <2>3
       DEF FilesInv, ToldStays, StatusMatches, ChainsAreWhole, IdsAreFresh, Matching, Whole
<1>5. QED
  BY <1>3, <1>4 DEF Saves

LEMMA SaveFailsKeepsFiles ==
  ASSUME TypeOK, FilesInv, SaveFails
  PROVE  FilesInv'
<1>1. /\ up /\ todo # <<>> /\ todo' = Tail(todo)
      /\ UNCHANGED <<up, requests, decisions, nextReq, told, lost, disk>>
      /\ unsaved => unsaved'
  BY DEF SaveFails, memory, files
<1>2. TodoIsOfMemory' /\ Here' = Here
  BY <1>1, RestIsOfMemory
<1>3. ~unsaved' => ~unsaved /\ (SavesLeft' = {} => SavesLeft = {})
  <2>1. SUFFICES ASSUME ~unsaved' PROVE SavesLeft' = {} => SavesLeft = {}
    BY <1>1
  <2>2. Head(todo).do # "save"
    BY <2>1 DEF SaveFails
  <2>3. QED
    BY <1>1, <2>2, RestOfTodo DEF SavesLeft
<1>4. FileIsBehindByOne'
  BY <1>1, <1>2, <1>3 DEF FilesInv, FileIsBehindByOne
<1>5. ToldStays'
  BY <1>1, <1>3 DEF FilesInv, ToldStays
<1>6. QED
  BY <1>1, <1>2, <1>4, <1>5 DEF FilesInv, StatusMatches, ChainsAreWhole, IdsAreFresh, Matching, Whole

\* Sending and answering change nothing but what has been told and confirmed.
LEMMA SendKeepsFiles ==
  ASSUME TypeOK, FilesInv, up, todo # <<>>, todo' = Tail(todo), Head(todo).do # "save",
         UNCHANGED <<up, requests, decisions, nextReq, disk, unsaved, lost>>, ToldStays'
  PROVE  FilesInv'
<1>1. TodoIsOfMemory' /\ Here' = Here
  BY RestIsOfMemory
<1>2. SavesLeft' = {} => SavesLeft = {}
  BY RestOfTodo DEF SavesLeft
<1>3. FileIsBehindByOne'
  BY <1>1, <1>2 DEF FilesInv, FileIsBehindByOne
<1>4. QED
  BY <1>1, <1>3 DEF FilesInv, StatusMatches, ChainsAreWhole, IdsAreFresh, Matching, Whole

\* What is broadcast is the decision memory has, and the file has it too.
LEMMA NotifiedIsSaved ==
  ASSUME TypeOK, FilesInv, up, todo # <<>>, Head(todo).do = "notify"
  PROVE  LET t == Head(todo).told IN
         /\ decisions[t.req] # None /\ t = Given(decisions[t.req]) /\ t.req \in ReqId
         /\ ~unsaved => disk = Here /\ disk.decisions = decisions
<1>1. 1 \in DOMAIN todo /\ Head(todo) = todo[1] /\ DOMAIN todo \subseteq Nat \ {0}
  BY DEF TypeOK
<1>2. SavesLeft = {}
  BY <1>1 DEF FilesInv, TodoIsOfMemory, SavesLeft
<1>3. Head(todo).told.req \in ReqId
  BY HeadFits DEF Told
<1>4. QED
  BY <1>1, <1>2, <1>3, HereHas DEF FilesInv, TodoIsOfMemory, FileIsBehindByOne

LEMMA NotifiesKeepsFiles ==
  ASSUME TypeOK, FilesInv, Notifies
  PROVE  FilesInv'
<1> DEFINE t == Head(todo).told
<1>1. /\ up /\ todo # <<>> /\ todo' = Tail(todo) /\ Head(todo).do = "notify"
      /\ UNCHANGED <<up, requests, decisions, nextReq, disk, unsaved, lost>>
      /\ told' \subseteq told \cup {t}
  BY DEF Notifies, memory, files
<1>2. ToldStays'
  BY <1>1, NotifiedIsSaved DEF FilesInv, ToldStays
<1>3. QED
  BY <1>1, <1>2, SendKeepsFiles

LEMMA PollKeepsFiles ==
  ASSUME TypeOK, FilesInv, NEW r \in ReqId, Poll(r)
  PROVE  FilesInv'
<1>1. /\ UNCHANGED <<up, requests, decisions, nextReq, todo, disk, unsaved, lost>> /\ up
      /\ told' = told \cup {Given(decisions[r])} /\ decisions[r] # None
  BY DEF Poll, memory, files, Idle
<1>2. Given(decisions[r]).req = r
  BY <1>1 DEF FilesInv, Keyed, Given
<1>3. ToldStays'
  BY <1>1, <1>2, IdleAgrees DEF FilesInv, ToldStays, Poll
<1>4. Here' = Here /\ SavesLeft' = SavesLeft
  BY <1>1 DEF Here, SavesLeft
<1>5. QED
  BY <1>1, <1>3, <1>4
     DEF FilesInv, TodoIsOfMemory, FileIsBehindByOne, StatusMatches, ChainsAreWhole, IdsAreFresh,
         Matching, Whole

LEMMA CrashKeepsFiles ==
  ASSUME TypeOK, FilesInv, Crash
  PROVE  FilesInv'
<1>1. /\ ~up' /\ todo' = <<>> /\ ~unsaved' /\ UNCHANGED <<disk, told, nextReq>>
      /\ ~lost' => ~lost /\ ~unsaved
      /\ \A r \in ReqId : requests'[r] = None /\ decisions'[r] = None
  BY DEF Crash, NoRequests, NoDecisions, files
<1>2. TodoIsOfMemory' /\ FileIsBehindByOne'
  BY <1>1 DEF TodoIsOfMemory, FileIsBehindByOne, SavesLeft
<1>3. ToldStays'
  BY <1>1 DEF FilesInv, ToldStays
<1>4. Here'.requests = requests' /\ Here'.decisions = decisions'
  BY DEF Here
<1>5. StatusMatches' /\ ChainsAreWhole' /\ IdsAreFresh' /\ Keyed(decisions') /\ Keyed(disk'.decisions)
  BY <1>1, <1>4 DEF FilesInv, StatusMatches, Matching, ChainsAreWhole, Whole, IdsAreFresh, Keyed
<1>6. QED
  BY <1>1, <1>2, <1>3, <1>5 DEF FilesInv

LEMMA StartKeepsFiles ==
  ASSUME TypeOK, FilesInv, Start
  PROVE  FilesInv'
<1>1. /\ ~up /\ up' /\ todo = <<>> /\ ~unsaved
      /\ UNCHANGED <<todo, disk, told, unsaved, lost, nextReq>>
      /\ requests' = disk.requests /\ decisions' = disk.decisions
  BY DEF Start, files, ghosts, FilesInv, TodoIsOfMemory
<1>2. disk = Here' /\ Here'.requests = requests' /\ Here'.decisions = decisions'
  BY <1>1 DEF Here, TypeOK, Store
<1>3. TodoIsOfMemory' /\ FileIsBehindByOne'
  BY <1>1, <1>2 DEF TodoIsOfMemory, FileIsBehindByOne, SavesLeft, Knows
<1>4. ToldStays'
  BY <1>1 DEF FilesInv, ToldStays
<1>5. StatusMatches' /\ ChainsAreWhole' /\ IdsAreFresh' /\ Keyed(decisions') /\ Keyed(disk'.decisions)
  BY <1>1, <1>2 DEF FilesInv, StatusMatches, Matching, ChainsAreWhole, Whole, IdsAreFresh, Keyed
<1>6. QED
  BY <1>1, <1>3, <1>4, <1>5 DEF FilesInv

LEMMA FilesNext == TypeOK /\ FilesInv /\ [Next]_vars => FilesInv'
<1> SUFFICES ASSUME TypeOK, FilesInv, [Next]_vars PROVE FilesInv'
  OBVIOUS
<1>1. CASE Creations
  BY <1>1, CreateKeepsFiles DEF Creations
<1>2. CASE Rulings
  BY <1>2, DecideKeepsFiles DEF Rulings
<1>3. CASE Pulls \/ Acks
  BY <1>3, PollKeepsFiles, AckKeepsFiles DEF Pulls, Acks
<1>4. CASE Saves \/ SaveFails \/ Notifies
  BY <1>4, SavesKeepsFiles, SaveFailsKeepsFiles, NotifiesKeepsFiles
<1>5. CASE Answers
  <2>1. /\ up /\ todo # <<>> /\ todo' = Tail(todo) /\ Head(todo).do # "save"
        /\ UNCHANGED <<up, requests, decisions, nextReq, disk, unsaved, lost, told>>
    BY <1>5 DEF Answers, memory, files
  <2>2. ToldStays'
    BY <2>1 DEF FilesInv, ToldStays
  <2>3. QED
    BY <2>1, <2>2, SendKeepsFiles
<1>6. CASE Crash \/ Start
  BY <1>6, CrashKeepsFiles, StartKeepsFiles
<1>7. CASE UNCHANGED vars
  BY <1>7 DEF vars, memory, files, ghosts, FilesInv, TodoIsOfMemory, FileIsBehindByOne, ToldStays,
     StatusMatches, ChainsAreWhole, IdsAreFresh, Matching, Whole, SavesLeft, Here
<1>8. QED
  BY <1>1, <1>2, <1>3, <1>4, <1>5, <1>6, <1>7 DEF Next

-----------------------------------------------------------------------------
(* The theorems *)

\* FilesInv is an invariant: what is still to be saved is what memory holds, so the file
\* is behind memory by one handler at most, unless a save has failed.
THEOREM FilesInvariant == Spec => []FilesInv
<1>1. QED
  BY FilesInit, FilesNext, WorkflowTypeCorrect, PTL DEF Spec

\* A request is marked decided exactly if it has a decision, in memory and on disk.
THEOREM StatusesMatch == Spec => []StatusMatches
<1>1. FilesInv => StatusMatches
  BY DEF FilesInv
<1>2. QED
  BY <1>1, FilesInvariant, PTL

\* No request is left without its parent, in memory or on disk, by failed saves,
\* crashes and restarts.
THEOREM ChainsStayWhole == Spec => []ChainsAreWhole
<1>1. FilesInv => ChainsAreWhole
  BY DEF FilesInv
<1>2. QED
  BY <1>1, FilesInvariant, PTL

\* No actor is told two decisions on one request, unless the server has died with a
\* failed save behind it.
THEOREM OneWorkflowDecisionTold == Spec => []ToldOneDecision
<1>1. TypeOK /\ FilesInv => ToldOneDecision
  BY DEF FilesInv, ToldStays, ToldOneDecision, TypeOK
<1>2. QED
  BY <1>1, FilesInvariant, WorkflowTypeCorrect, PTL

LEMMA LedgerStep ==
  ASSUME TypeOK, FilesInv, [Next]_vars
  PROVE  [unsaved \/ Ledger!Next]_(Ledger!vars)
<1> SUFFICES ASSUME ~unsaved PROVE [Ledger!Next]_(Ledger!vars)
  OBVIOUS
<1>1. ASSUME NEW r \in ReqId, decisions[r] # None, disk.decisions = decisions, disk' = disk,
             told' = told \cup {Given(decisions[r])}
      PROVE  Ledger!Next
  <2>1. Given(decisions[r]) \in Told
    BY <1>1, GivenFits DEF TypeOK, DecisionMap
  <2>2. Ruling(disk.decisions)[r] = Given(decisions[r]) /\ Given(decisions[r]) # None
    BY <1>1, <2>1, NoneIsNoValue DEF Ruling
  <2>3. Ledger!Tell(r)
    BY <1>1, <2>2 DEF Ledger!Tell
  <2>4. QED
    BY <2>3 DEF Ledger!Next
<1>2. CASE Pulls
  <2>1. PICK r \in ReqId : Poll(r)
    BY <1>2 DEF Pulls
  <2>2. decisions[r] # None /\ disk' = disk /\ told' = told \cup {Given(decisions[r])}
    BY <2>1 DEF Poll, files
  <2>3. disk.decisions = decisions
    BY <2>1, IdleAgrees DEF Poll
  <2>4. QED
    BY <1>1, <2>2, <2>3
<1>3. CASE Notifies
  <2>1. up /\ todo # <<>> /\ Head(todo).do = "notify" /\ disk' = disk
        /\ told' \in {told, told \cup {Head(todo).told}}
    BY <1>3 DEF Notifies, files
  <2>2. PICK r \in ReqId : decisions[r] # None /\ Head(todo).told = Given(decisions[r])
    BY <2>1, NotifiedIsSaved
  <2>3. disk.decisions = decisions
    BY <2>1, NotifiedIsSaved
  <2>4. CASE told' = told
    BY <2>1, <2>4 DEF Ledger!vars
  <2>5. CASE told' = told \cup {Given(decisions[r])}
    BY <1>1, <2>1, <2>2, <2>3, <2>5
  <2>6. QED
    BY <2>1, <2>2, <2>4, <2>5
<1>4. CASE Saves
  <2>1. told' = told /\ up /\ todo # <<>>
    BY <1>4 DEF Saves
  <2>2. CASE Head(todo).do = "saveLog"
    BY <1>4, <2>1, <2>2 DEF Saves, Ledger!vars
  <2>3. CASE Head(todo).do = "save"
    <3>1. disk' = Here
      <4>1. 1 \in SavesLeft /\ Head(todo) = todo[1]
        BY <2>1, <2>3 DEF SavesLeft, TypeOK
      <4>2. QED
        BY <1>4, <2>3, <4>1 DEF Saves, FilesInv, TodoIsOfMemory
    <3>2. disk'.decisions = decisions
      BY <3>1, HereHas
    <3>3. /\ Knows(decisions, disk.decisions)
          /\ \A q, r \in ReqId :
               /\ decisions[q] # None /\ disk.decisions[q] = None
               /\ decisions[r] # None /\ disk.decisions[r] = None
               => q = r
      BY <2>1 DEF FilesInv, FileIsBehindByOne
    <3>4. CASE Ruling(decisions) = Ruling(disk.decisions)
      BY <2>1, <3>2, <3>4 DEF Ledger!vars
    <3>5. CASE Ruling(decisions) # Ruling(disk.decisions)
      <4>1. PICK x \in ReqId : Ruling(decisions)[x] # Ruling(disk.decisions)[x]
        BY <3>5 DEF Ruling
      <4>2. disk.decisions[x] = None /\ decisions[x] # None
        BY <3>3, <4>1 DEF Ruling, Knows
      <4>3. \A r \in ReqId : r # x => Ruling(decisions)[r] = Ruling(disk.decisions)[r]
        BY <3>3, <4>2 DEF Ruling, Knows
      <4>4. Ruling(decisions) = [Ruling(disk.decisions) EXCEPT ![x] = Ruling(decisions)[x]]
        BY <4>3 DEF Ruling
      <4>5. Ruling(disk.decisions)[x] = None
        BY <4>2 DEF Ruling
      <4>6. Ledger!Decide(x, Ruling(disk'.decisions)[x])
        BY <2>1, <3>2, <4>4, <4>5 DEF Ledger!Decide
      <4>7. QED
        BY <4>6 DEF Ledger!Next
    <3>6. QED
      BY <3>4, <3>5
  <2>4. QED
    BY <1>4, <2>2, <2>3 DEF Saves
<1>5. CASE ~Pulls /\ ~Notifies /\ ~Saves
  <2>1. disk' = disk /\ told' = told
    BY <1>5 DEF Next, Creations, Create, Rulings, Decide, Acks, Ack, SaveFails, Answers, Crash,
       Start, vars, files, ghosts
  <2>2. QED
    BY <2>1 DEF Ledger!vars
<1>6. QED
  BY <1>2, <1>3, <1>4, <1>5

\* As long as saves succeed, the decision store's file is a decision ledger: the first
\* decision is final and only stored decisions are told, through crashes and restarts.
THEOREM WorkflowRefinesLedger == Spec => LedgerWhenSaved
<1>1. Init => Ledger!Init
  BY DEF Init, Ledger!Init, Ruling, NoDecisions
<1>2. TypeOK /\ FilesInv /\ [Next]_vars => [unsaved \/ Ledger!Next]_(Ledger!vars)
  BY LedgerStep
<1>3. QED
  BY <1>1, <1>2, WorkflowTypeCorrect, FilesInvariant, PTL DEF Spec, LedgerWhenSaved

-----------------------------------------------------------------------------
(* What outlives a handler: confirmed acks and history *)

\* es has every decision of ds, and every ack of it.
Keeps(es, ds) ==
  \A r \in ReqId : ds[r] # None =>
    /\ es[r] # None /\ es[r].id = ds[r].id
    /\ ds[r].delivery = "acknowledged" => es[r].delivery = "acknowledged"

\* Decisions that keep others bear out all those do.
LEMMA KeepsRecords ==
  ASSUME NEW es, NEW ds, Keeps(es, ds)
  PROVE  /\ \A i : Acknowledged(ds, i) => Acknowledged(es, i)
         /\ \A log \in Log : TrueLog(ds, log) => TrueLog(es, log)
<1>1. ASSUME NEW i, Acknowledged(ds, i) PROVE Acknowledged(es, i)
  BY <1>1 DEF Acknowledged, Keeps
<1>2. ASSUME NEW log \in Log, TrueLog(ds, log) PROVE TrueLog(es, log)
  <2>1. ASSUME NEW k \in DOMAIN log PROVE log[k].req \in ReqId
    <3>1. log[k] \in Entry
      BY DEF Log
    <3>2. QED
      BY <3>1 DEF Entry
  <2>2. QED
    BY <1>2, <2>1 DEF TrueLog, TrueOf, Keeps
<1>3. QED
  BY <1>1, <1>2

\* A log grows by a true line, and may lose its oldest.
LEMMA LogStaysTrue ==
  ASSUME TypeOK, NEW ds, TrueLog(ds, entries), NEW r \in ReqId,
         NEW event \in {"REQUEST_CREATED", "DECIDED", "ACKNOWLEDGED"},
         TrueOf(ds, [event |-> event, req |-> r])
  PROVE  TrueLog(ds, Appended(event, r))
<1> DEFINE e == [event |-> event, req |-> r]
<1> DEFINE s == Append(entries, e)
<1>1. entries \in Seq(Entry) /\ e \in Entry
  BY DEF TypeOK, Log, Entry
<1>2. s \in Seq(Entry) /\ \A k \in DOMAIN s : s[k] = e \/ (k \in DOMAIN entries /\ s[k] = entries[k])
  BY <1>1
<1>3. TrueLog(ds, s)
  BY <1>2 DEF TrueLog
<1>4. \A k \in DOMAIN Tail(s) : k + 1 \in DOMAIN s /\ Tail(s)[k] = s[k + 1]
  BY <1>1, <1>2
<1>5. TrueLog(ds, Tail(s))
  BY <1>3, <1>4 DEF TrueLog
<1>6. QED
  BY <1>3, <1>5 DEF Appended

LEMMA RecordsInit == Init => RecordsInv
BY DEF Init, RecordsInv, SavedFirst, TrueLog

\* A handler keeps the invariant if it forgets no decision and no ack, adds a true line to
\* the history, and queues the history after the save.
LEMMA HandlerKeepsRecords ==
  ASSUME TypeOK, TypeOK', RecordsInv, UNCHANGED <<up, disk, diskEntries, acked, unsaved, lost>>,
         Keeps(decisions', decisions), SavedFirst',
         TrueLog(decisions', entries) => TrueLog(decisions', entries')
  PROVE  RecordsInv'
<1>1. \A i : Acknowledged(decisions, i) => Acknowledged(decisions', i)
  BY KeepsRecords
<1>2. /\ TrueLog(decisions, entries) => TrueLog(decisions', entries)
      /\ TrueLog(decisions, diskEntries) => TrueLog(decisions', diskEntries)
  BY KeepsRecords DEF TypeOK
<1>3. QED
  BY <1>1, <1>2 DEF RecordsInv

LEMMA CreateKeepsRecords ==
  ASSUME TypeOK, TypeOK', RecordsInv, NEW p \in ReqId \cup {None}, Create(p)
  PROVE  RecordsInv'
<1>1. /\ UNCHANGED <<up, disk, diskEntries, acked, unsaved, lost, decisions>>
      /\ entries' = Appended("REQUEST_CREATED", nextReq) /\ nextReq \in ReqId
  BY WorkflowBounds DEF Create, files, ghosts, TypeOK, ReqId
<1>2. Keeps(decisions', decisions)
  BY <1>1 DEF Keeps
<1>3. PICK rs : todo' = <<Save(rs, decisions), SaveLog(entries')>>
  BY <1>1 DEF Create
<1>4. SavedFirst'
  <2>1. /\ DOMAIN todo' = {1, 2} /\ todo'[1].do = "save"
        /\ todo'[2].do = "saveLog" /\ todo'[2].entries = entries'
    BY <1>3 DEF Save, SaveLog
  <2>2. QED
    BY <2>1 DEF SavedFirst, SavesLeft
<1>5. TrueOf(decisions', [event |-> "REQUEST_CREATED", req |-> nextReq])
  BY DEF TrueOf
<1>6. TrueLog(decisions', entries) => TrueLog(decisions', entries')
  BY <1>1, <1>5, LogStaysTrue
<1>7. QED
  BY <1>1, <1>2, <1>4, <1>6, HandlerKeepsRecords

LEMMA DecideKeepsRecords ==
  ASSUME TypeOK, TypeOK', RecordsInv, NEW r \in ReqId, NEW v \in Verdict, Decide(r, v)
  PROVE  RecordsInv'
<1> DEFINE d == [id |-> nextDec, req |-> r, decision |-> v, delivery |-> "available"]
<1>1. /\ UNCHANGED <<up, disk, diskEntries, acked, unsaved, lost>>
      /\ entries' = Appended("DECIDED", r) /\ decisions[r] = None
      /\ decisions' = [decisions EXCEPT ![r] = d]
  BY DEF Decide, Decidable, files, ghosts
<1>2. d \in Decision
  BY WorkflowBounds DEF Decide, TypeOK, DecId, Decision
<1>3. /\ decisions'[r] = d /\ d # None
      /\ \A q \in ReqId : q # r => decisions'[q] = decisions[q]
  BY <1>1, <1>2, NoneIsNoValue DEF TypeOK, DecisionMap
<1>4. Keeps(decisions', decisions)
  BY <1>1, <1>3 DEF Keeps
<1>5. PICK rs, ds : todo' = <<Save(rs, ds), [do |-> "notify", told |-> Given(d)], SaveLog(entries')>>
  BY <1>1 DEF Decide, DecideEffects
<1>6. SavedFirst'
  <2>1. /\ DOMAIN todo' = {1, 2, 3} /\ todo'[1].do = "save" /\ todo'[2].do = "notify"
        /\ todo'[3].do = "saveLog" /\ todo'[3].entries = entries'
    BY <1>5 DEF Save, SaveLog
  <2>2. QED
    BY <2>1 DEF SavedFirst, SavesLeft
<1>7. TrueOf(decisions', [event |-> "DECIDED", req |-> r])
  BY <1>3 DEF TrueOf
<1>8. TrueLog(decisions', entries) => TrueLog(decisions', entries')
  BY <1>1, <1>7, LogStaysTrue
<1>9. QED
  BY <1>1, <1>4, <1>6, <1>8, HandlerKeepsRecords

LEMMA AckKeepsRecords ==
  ASSUME TypeOK, TypeOK', FilesInv, RecordsInv, NEW r \in ReqId, Ack(r)
  PROVE  RecordsInv'
<1> DEFINE d == decisions[r]
<1> DEFINE e == [d EXCEPT !.delivery = "acknowledged"]
<1> DEFINE ds == [decisions EXCEPT ![r] = e]
<1> DEFINE last == <<SaveLog(entries'), [do |-> "answer", ack |-> d.id]>>
<1>1. /\ UNCHANGED <<up, disk, diskEntries, acked, unsaved, lost>>
      /\ entries' = Appended("ACKNOWLEDGED", r) /\ d # None
      /\ decisions' = ds
      /\ todo' = AckEffects(d, ds) \o last
  BY DEF Ack, files, ghosts
<1>2. d \in Decision /\ e \in Decision /\ e.id = d.id /\ e.delivery = "acknowledged"
  BY <1>1 DEF TypeOK, DecisionMap, Decision
<1>3. /\ decisions'[r] = e /\ e # None
      /\ \A q \in ReqId : q # r => decisions'[q] = decisions[q]
  BY <1>1, <1>2, NoneIsNoValue DEF TypeOK, DecisionMap
<1>4. Keeps(decisions', decisions)
  BY <1>2, <1>3 DEF Keeps
<1>5. Acknowledged(decisions', d.id)
  BY <1>2, <1>3 DEF Acknowledged
<1>6. SavedFirst'
  <2>1. CASE d.delivery = "acknowledged"
    <3>1. todo' = last
      BY <1>1, <2>1 DEF AckEffects, SaveLog
    <3>2. /\ DOMAIN todo' = {1, 2} /\ todo'[1].do = "saveLog" /\ todo'[1].entries = entries'
          /\ todo'[2].do = "answer" /\ todo'[2].ack = d.id
      BY <3>1 DEF SaveLog
    <3>3. QED
      BY <1>5, <3>2 DEF SavedFirst, SavesLeft
  <2>2. CASE d.delivery # "acknowledged"
    <3>1. todo' = <<Save(requests, ds), SaveLog(entries'), [do |-> "answer", ack |-> d.id]>>
      <4>1. AckEffects(d, ds) = <<Save(requests, ds)>>
        BY <2>2 DEF AckEffects
      <4>2. QED
        BY <1>1, <4>1, Joined, Zenon
    <3>2. /\ DOMAIN todo' = {1, 2, 3} /\ todo'[1].do = "save"
          /\ todo'[2].do = "saveLog" /\ todo'[2].entries = entries'
          /\ todo'[3].do = "answer" /\ todo'[3].ack = d.id
      BY <3>1 DEF SaveLog, Save
    <3>3. QED
      BY <1>5, <3>2 DEF SavedFirst, SavesLeft
  <2>3. QED
    BY <2>1, <2>2
<1>7. TrueOf(decisions', [event |-> "ACKNOWLEDGED", req |-> r])
  BY <1>2, <1>3 DEF TrueOf
<1>8. TrueLog(decisions', entries) => TrueLog(decisions', entries')
  BY <1>1, <1>7, LogStaysTrue
<1>9. QED
  BY <1>1, <1>4, <1>6, <1>8, HandlerKeepsRecords

\* With one effect done, what is left still is in its order.
LEMMA RestIsSavedFirst ==
  ASSUME TypeOK, RecordsInv, todo # <<>>, todo' = Tail(todo), UNCHANGED <<decisions, entries>>
  PROVE  SavedFirst'
<1> SUFFICES ASSUME NEW k \in DOMAIN todo' PROVE SavedFirst!(k)'
  BY DEF SavedFirst
<1>1. k + 1 \in DOMAIN todo /\ todo'[k] = todo[k + 1] /\ k \in Nat
  BY RestOfTodo DEF TypeOK
<1>2. \A j \in SavesLeft' : j \in Nat /\ j + 1 \in SavesLeft
  <2>1. DOMAIN todo' \subseteq Nat
    BY DEF TypeOK
  <2>2. QED
    BY <2>1, RestOfTodo DEF SavesLeft
<1>3. /\ todo[k + 1].do = "answer" =>
           Acknowledged(decisions, todo[k + 1].ack) /\ \A j \in SavesLeft : j < k + 1
      /\ todo[k + 1].do = "saveLog" =>
           todo[k + 1].entries = entries /\ \A j \in SavesLeft : j < k + 1
  BY <1>1 DEF RecordsInv, SavedFirst
<1>4. QED
  BY <1>1, <1>2, <1>3

\* Once the history is to be saved, or an ack to be answered, the store is saved.
LEMMA SavedBefore ==
  ASSUME TypeOK, FilesInv, RecordsInv, up, todo # <<>>, Head(todo).do \in {"saveLog", "answer"}
  PROVE  /\ ~unsaved => disk.decisions = decisions
         /\ Head(todo).do = "saveLog" => Head(todo).entries = entries
         /\ Head(todo).do = "answer" => Acknowledged(decisions, Head(todo).ack)
<1>1. 1 \in DOMAIN todo /\ Head(todo) = todo[1] /\ DOMAIN todo \subseteq Nat \ {0}
  BY DEF TypeOK
<1>2. SavesLeft = {}
  <2>1. \A j \in SavesLeft : j < 1
    BY <1>1 DEF RecordsInv, SavedFirst
  <2>2. QED
    BY <1>1, <2>1 DEF SavesLeft
<1>3. QED
  BY <1>1, <1>2, HereHas DEF FilesInv, FileIsBehindByOne, RecordsInv, SavedFirst

LEMMA SavesKeepsRecords ==
  ASSUME TypeOK, FilesInv, RecordsInv, Saves
  PROVE  RecordsInv'
<1>1. /\ up /\ todo # <<>> /\ todo' = Tail(todo)
      /\ UNCHANGED <<up, decisions, entries, acked, lost>>
  BY DEF Saves, memory
<1>2. SavedFirst'
  BY <1>1, RestIsSavedFirst
<1>3. CASE Head(todo).do = "save"
  <2>1. 1 \in SavesLeft /\ disk' = todo[1].store /\ ~unsaved' /\ diskEntries' = diskEntries
    BY <1>1, <1>3, RestOfTodo DEF Saves, SavesLeft
  <2>2. disk'.decisions = decisions
    BY <2>1, HereHas DEF FilesInv, TodoIsOfMemory
  <2>3. QED
    BY <1>1, <1>2, <2>1, <2>2 DEF RecordsInv
<1>4. CASE Head(todo).do = "saveLog"
  <2>1. diskEntries' = entries /\ UNCHANGED <<disk, unsaved>>
    BY <1>1, <1>4, SavedBefore DEF Saves
  <2>2. ~unsaved => disk.decisions = decisions
    BY <1>1, <1>4, SavedBefore
  <2>3. QED
    BY <1>1, <1>2, <2>1, <2>2 DEF RecordsInv
<1>5. QED
  BY <1>3, <1>4 DEF Saves

LEMMA RecordsNext == TypeOK /\ TypeOK' /\ FilesInv /\ RecordsInv /\ [Next]_vars => RecordsInv'
<1> SUFFICES ASSUME TypeOK, TypeOK', FilesInv, RecordsInv, [Next]_vars PROVE RecordsInv'
  OBVIOUS
<1>1. CASE Creations
  BY <1>1, CreateKeepsRecords DEF Creations
<1>2. CASE Rulings
  BY <1>2, DecideKeepsRecords DEF Rulings
<1>3. CASE Acks
  BY <1>3, AckKeepsRecords DEF Acks
<1>4. CASE Saves
  BY <1>4, SavesKeepsRecords
<1>5. CASE SaveFails \/ Notifies
  <2>1. /\ todo # <<>> /\ todo' = Tail(todo)
        /\ UNCHANGED <<up, decisions, entries, disk, diskEntries, acked, lost>>
    BY <1>5 DEF SaveFails, Notifies, memory, files
  <2>2. SavedFirst'
    BY <2>1, RestIsSavedFirst
  <2>3. unsaved => unsaved'
    BY <1>5, Zenon DEF SaveFails, Notifies
  <2>4. QED
    BY <2>1, <2>2, <2>3 DEF RecordsInv
<1>6. CASE Answers
  <2>1. /\ up /\ todo # <<>> /\ todo' = Tail(todo) /\ Head(todo).do = "answer"
        /\ UNCHANGED <<up, decisions, entries, disk, diskEntries, unsaved, lost>>
        /\ acked' = acked \cup {Head(todo).ack}
    BY <1>6 DEF Answers, memory, files
  <2>2. SavedFirst'
    BY <2>1, RestIsSavedFirst
  <2>3. /\ Acknowledged(decisions, Head(todo).ack)
        /\ ~unsaved => Acknowledged(disk.decisions, Head(todo).ack)
    BY <2>1, SavedBefore
  <2>4. QED
    BY <2>1, <2>2, <2>3 DEF RecordsInv
<1>7. CASE Crash
  <2>1. /\ ~up' /\ todo' = <<>> /\ UNCHANGED <<disk, diskEntries, acked>>
        /\ ~lost' => ~lost /\ ~unsaved
    BY <1>7 DEF Crash, files
  <2>2. SavedFirst'
    BY <2>1 DEF SavedFirst
  <2>3. QED
    BY <2>1, <2>2 DEF RecordsInv
<1>8. CASE Start
  <2>1. /\ decisions' = disk.decisions /\ entries' = diskEntries /\ todo = <<>> /\ ~unsaved
        /\ UNCHANGED <<disk, diskEntries, acked, unsaved, lost, todo>>
    BY <1>8 DEF Start, files, ghosts, FilesInv, TodoIsOfMemory
  <2>2. SavedFirst'
    BY <2>1 DEF SavedFirst
  <2>3. QED
    BY <2>1, <2>2 DEF RecordsInv
<1>9. CASE Pulls \/ UNCHANGED vars
  <2>1. UNCHANGED <<up, decisions, entries, todo, disk, diskEntries, acked, unsaved, lost>>
    BY <1>9 DEF Pulls, Poll, memory, files, vars, ghosts
  <2>2. QED
    BY <2>1 DEF RecordsInv, SavedFirst, SavesLeft
<1>10. QED
  BY <1>1, <1>2, <1>3, <1>4, <1>5, <1>6, <1>7, <1>8, <1>9 DEF Next

\* RecordsInv is an invariant: what an actor is answered and what the history says is borne
\* out by memory, and by the file once the save queued before it is done.
THEOREM RecordsInvariant == Spec => []RecordsInv
<1>1. QED
  BY RecordsInit, RecordsNext, WorkflowTypeCorrect, FilesInvariant, PTL DEF Spec

\* An ack the server has confirmed survives restarts, whatever is in between, as long as
\* no failed save is behind it.
THEOREM AcksStayDurable == Spec => []AcksAreDurable
<1>1. RecordsInv => AcksAreDurable
  BY DEF RecordsInv, AcksAreDurable, Acknowledged
<1>2. QED
  BY <1>1, RecordsInvariant, PTL

\* The stored history never speaks of a decision or an ack the store does not have, as long
\* as no failed save is behind it.
THEOREM HistoryIsNeverAhead == Spec => []AuditIsNotAhead
<1>1. RecordsInv => AuditIsNotAhead
  BY DEF RecordsInv, AuditIsNotAhead, TrueLog, TrueOf
<1>2. QED
  BY <1>1, RecordsInvariant, PTL

=============================================================================
