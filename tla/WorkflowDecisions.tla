------------------------- MODULE WorkflowDecisions -------------------------
(***************************************************************************)
(* The decision store of the workflow server: workflow/server/decisions.js *)
(* and history.js over persist.js, with the handlers of workflow/server.js *)
(* that use them. Whose a request is and who may call a handler is left to *)
(* the identities: a poll or an ack comes from the actor of the request.   *)
(*                                                                         *)
(* A handler changes memory in one step. What it then does outside memory, *)
(* in order, waits in `todo`: saving a store, telling the actor's sockets, *)
(* answering. No other handler runs before that is done, but a save can    *)
(* fail, which no caller looks at, and the process can die in between. A   *)
(* save itself is atomic: a temporary file renamed into place.             *)
(***************************************************************************)
EXTENDS Naturals, Sequences, SequencesExt

CONSTANTS
  Verdict,       \* the members of DECISION_VALUES operators of this instance use
  None,          \* null, "not in the map"
  HistoryMax,    \* HISTORY_MAX_ITEMS
  MaxRequests,   \* bound: requests ever created
  MaxDecisions,  \* bound: decisions ever created
  MaxFailures,   \* bound: saves that fail
  MaxCrashes     \* bound: crashes of the server

DECISION_VALUES == {"approve", "reject", "revise", "ask", "cancel"}

ASSUME VerdictAssumption == Verdict \subseteq DECISION_VALUES
ASSUME WorkflowBounds ==
  /\ HistoryMax \in Nat \ {0}
  /\ MaxRequests \in Nat /\ MaxDecisions \in Nat /\ MaxFailures \in Nat /\ MaxCrashes \in Nat

VARIABLES
  up,            \* the process runs
  requests,      \* requestsById
  decisions,     \* decisionsByRequestId
  entries,       \* the history ring
  nextReq,       \* the next request id (ids are never repeated)
  nextDec,       \* the next decision id
  todo,          \* what the running handler still has to do outside memory
  disk,          \* the decision store's file
  diskEntries,   \* the history store's file
  told,          \* decisions actors were given, by a poll or over a socket
  acked,         \* decision ids the server has confirmed an ack of
  unsaved,       \* the last save of the decision store failed, memory is ahead of it
  lost,          \* the server has died while it was
  failures,      \* saves that have failed
  crashes        \* crashes so far

memory == <<requests, decisions, entries, nextReq, nextDec>>
files == <<disk, diskEntries>>
ghosts == <<told, acked, unsaved, lost>>
vars == <<up, memory, todo, files, ghosts, failures, crashes>>

-----------------------------------------------------------------------------
(* The values *)

ReqId == 1..MaxRequests
DecId == 1..MaxDecisions

Request == [parent : ReqId \cup {None}, status : {"pending_decision", "decided"}]
Decision == [id : DecId, req : ReqId, decision : Verdict, delivery : {"available", "acknowledged"}]
Entry == [event : {"REQUEST_CREATED", "DECIDED", "ACKNOWLEDGED"}, req : ReqId]
Told == [req : ReqId, id : DecId, decision : Verdict]

ASSUME NoneIsNoValue == None \notin ReqId \cup Request \cup Decision \cup Told

RequestMap == [ReqId -> Request \cup {None}]
DecisionMap == [ReqId -> Decision \cup {None}]
Store == [requests : RequestMap, decisions : DecisionMap]
Log == {s \in Seq(Entry) : Len(s) <= HistoryMax}

Effect ==
  [do : {"save"}, store : Store] \cup [do : {"saveLog"}, entries : Log]
  \cup [do : {"notify"}, told : Told] \cup [do : {"answer"}, ack : DecId]

Given(d) == [req |-> d.req, id |-> d.id, decision |-> d.decision]

NoRequests == [r \in ReqId |-> None]
NoDecisions == [r \in ReqId |-> None]

Init ==
  /\ up = TRUE
  /\ requests = NoRequests /\ decisions = NoDecisions /\ entries = <<>>
  /\ nextReq = 1 /\ nextDec = 1
  /\ todo = <<>>
  /\ disk = [requests |-> NoRequests, decisions |-> NoDecisions] /\ diskEntries = <<>>
  /\ told = {} /\ acked = {} /\ unsaved = FALSE /\ lost = FALSE
  /\ failures = 0 /\ crashes = 0

-----------------------------------------------------------------------------
(* Helpers of the handlers. An operator X_bug is X with a plausible bug; no specification
   uses it, the mutation runs put it in X's place. *)

Idle == up /\ todo = <<>>

\* appendHistory: the oldest entry leaves a full ring.
\* Bug: the ring keeps one entry too many.
Appended_bug(event, r) ==
  LET s == Append(entries, [event |-> event, req |-> r]) IN
  IF Len(s) > HistoryMax + 1 THEN Tail(s) ELSE s

Appended(event, r) ==
  LET s == Append(entries, [event |-> event, req |-> r]) IN
  IF Len(s) > HistoryMax THEN Tail(s) ELSE s

\* persist() of decisions.js: both maps in one file.
\* Bug: a parent is left out of the file as long as it is undecided.
Save_bug(rs, ds) ==
  [do |-> "save", store |->
    [requests |-> [r \in ReqId |->
       IF rs[r] # None /\ rs[r].status = "pending_decision" /\ \E q \in ReqId : rs[q] # None /\ rs[q].parent = r
       THEN None ELSE rs[r]],
     decisions |-> ds]]

Save(rs, ds) == [do |-> "save", store |-> [requests |-> rs, decisions |-> ds]]
SaveLog(h) == [do |-> "saveLog", entries |-> h]

\* The order of a decision's effects: save, broadcast, history.
\* Bugs: the broadcast goes out first; the history goes first.
DecideEffects_bug(rs, ds, h, d) ==
  <<[do |-> "notify", told |-> Given(d)], Save(rs, ds), SaveLog(h)>>
DecideEffects_bug2(rs, ds, h, d) ==
  <<SaveLog(h), Save(rs, ds), [do |-> "notify", told |-> Given(d)]>>

DecideEffects(rs, ds, h, d) ==
  <<Save(rs, ds), [do |-> "notify", told |-> Given(d)], SaveLog(h)>>

\* decideRequest: the request's status changes with the decision.
\* Bug: the status is left for later.
Decided_bug(request) == request
Decided(request) == [request EXCEPT !.status = "decided"]

\* The first decision wins: 409 ALREADY_DECIDED.
\* Bug: a decision can be taken again as long as it has not been acknowledged.
Decidable_bug(r) ==
  requests[r] # None /\ (decisions[r] # None => decisions[r].delivery = "available")

Decidable(r) == requests[r] # None /\ decisions[r] = None

\* acknowledgeDecision saves when the ack is the first one.
\* Bug: the ack is in memory only.
AckEffects_bug(d, ds) == <<>>
AckEffects(d, ds) == IF d.delivery = "acknowledged" THEN <<>> ELSE <<Save(requests, ds)>>

-----------------------------------------------------------------------------
(* The handlers *)

\* POST /api/decision-requests. A parent must be a request that exists.
Create(p) ==
  LET rs == [requests EXCEPT ![nextReq] =
               [parent |-> p, status |-> "pending_decision"]]
      h == Appended("REQUEST_CREATED", nextReq) IN
  /\ Idle /\ nextReq <= MaxRequests
  /\ p # None => requests[p] # None
  /\ requests' = rs
  /\ entries' = h
  /\ nextReq' = nextReq + 1
  /\ todo' = <<Save(rs, decisions), SaveLog(h)>>
  /\ UNCHANGED <<up, decisions, nextDec, files, ghosts, failures, crashes>>

\* POST /api/decision-requests/:id/decide
Decide(r, v) ==
  LET d == [id |-> nextDec, req |-> r, decision |-> v, delivery |-> "available"]
      ds == [decisions EXCEPT ![r] = d]
      rs == [requests EXCEPT ![r] = Decided(@)]
      h == Appended("DECIDED", r) IN
  /\ Idle /\ nextDec <= MaxDecisions
  /\ Decidable(r)
  /\ requests' = rs
  /\ decisions' = ds
  /\ entries' = h
  /\ nextDec' = nextDec + 1
  /\ todo' = DecideEffects(rs, ds, h, d)
  /\ UNCHANGED <<up, nextReq, files, ghosts, failures, crashes>>

\* GET /api/decision-requests/:id/decision, answered with a decision
Poll(r) ==
  /\ Idle
  /\ requests[r] # None /\ decisions[r] # None
  /\ told' = told \cup {Given(decisions[r])}
  /\ UNCHANGED <<up, memory, todo, files, acked, unsaved, lost, failures, crashes>>

\* POST /api/decisions/:id/ack, by the actor of the request, who was told the decision.
\* Every ack is logged, a repeated one too.
Ack(r) ==
  LET d == decisions[r]
      ds == [decisions EXCEPT ![r] = [d EXCEPT !.delivery = "acknowledged"]]
      h == Appended("ACKNOWLEDGED", r) IN
  /\ Idle
  /\ d # None /\ Given(d) \in told
  /\ decisions' = ds
  /\ entries' = h
  /\ todo' = AckEffects(d, ds) \o <<SaveLog(h), [do |-> "answer", ack |-> d.id]>>
  /\ UNCHANGED <<up, requests, nextReq, nextDec, files, ghosts, failures, crashes>>

-----------------------------------------------------------------------------
(* What handlers do outside memory *)

Saves ==
  /\ up /\ todo # <<>>
  /\ \/ /\ Head(todo).do = "save"
        /\ disk' = Head(todo).store
        /\ unsaved' = FALSE
        /\ UNCHANGED diskEntries
     \/ /\ Head(todo).do = "saveLog"
        /\ diskEntries' = Head(todo).entries
        /\ UNCHANGED <<disk, unsaved>>
  /\ todo' = Tail(todo)
  /\ UNCHANGED <<up, memory, told, acked, lost, failures, crashes>>

\* saveStore catches the error and returns false; nobody looks at it.
SaveFails ==
  /\ up /\ todo # <<>> /\ Head(todo).do \in {"save", "saveLog"}
  /\ failures < MaxFailures
  /\ unsaved' = (unsaved \/ Head(todo).do = "save")
  /\ failures' = failures + 1
  /\ todo' = Tail(todo)
  /\ UNCHANGED <<up, memory, files, told, acked, lost, crashes>>

\* broadcast: the actor has a socket to receive it, or not.
Notifies ==
  /\ up /\ todo # <<>> /\ Head(todo).do = "notify"
  /\ told' \in {told, told \cup {Head(todo).told}}
  /\ todo' = Tail(todo)
  /\ UNCHANGED <<up, memory, files, acked, unsaved, lost, failures, crashes>>

Answers ==
  /\ up /\ todo # <<>> /\ Head(todo).do = "answer"
  /\ acked' = acked \cup {Head(todo).ack}
  /\ todo' = Tail(todo)
  /\ UNCHANGED <<up, memory, files, told, unsaved, lost, failures, crashes>>

Crash ==
  /\ up /\ crashes < MaxCrashes
  /\ up' = FALSE
  /\ requests' = NoRequests /\ decisions' = NoDecisions /\ entries' = <<>>
  /\ todo' = <<>>
  /\ lost' = (lost \/ unsaved)
  /\ unsaved' = FALSE
  /\ crashes' = crashes + 1
  /\ UNCHANGED <<nextReq, nextDec, files, told, acked, failures>>

\* initDecisionStore and initHistoryStore
Start ==
  /\ ~up
  /\ up' = TRUE
  /\ requests' = disk.requests /\ decisions' = disk.decisions /\ entries' = diskEntries
  /\ UNCHANGED <<nextReq, nextDec, todo, files, ghosts, failures, crashes>>

-----------------------------------------------------------------------------
Creations == \E p \in ReqId \cup {None} : Create(p)
Rulings == \E r \in ReqId, v \in Verdict : Decide(r, v)
Pulls == \E r \in ReqId : Poll(r)
Acks == \E r \in ReqId : Ack(r)

Next ==
  \/ Creations \/ Rulings \/ Pulls \/ Acks
  \/ Saves \/ SaveFails \/ Notifies \/ Answers
  \/ Crash \/ Start

Spec == Init /\ [][Next]_vars

-----------------------------------------------------------------------------
TypeOK ==
  /\ up \in BOOLEAN
  /\ requests \in RequestMap
  /\ decisions \in DecisionMap
  /\ entries \in Log
  /\ nextReq \in 1..(MaxRequests + 1)
  /\ nextDec \in 1..(MaxDecisions + 1)
  /\ todo \in Seq(Effect)
  /\ disk \in Store
  /\ diskEntries \in Log
  /\ told \subseteq Told
  /\ acked \subseteq DecId
  /\ unsaved \in BOOLEAN /\ lost \in BOOLEAN
  /\ failures \in 0..MaxFailures
  /\ crashes \in 0..MaxCrashes

-----------------------------------------------------------------------------
(* What the server promises *)

Ruling(ds) == [r \in ReqId |-> IF ds[r] = None THEN None ELSE Given(ds[r])]

Ledger ==
  INSTANCE DecisionLedger WITH Subject <- ReqId, ruling <- Ruling(disk.decisions), told <- told

\* As long as the decision store can be saved, its file is a decision ledger: the first
\* decision stays, through crashes, and actors are told no other and none before it is
\* stored (decideRequest, saveStore, initDecisionStore). A failed save suspends this
\* until the next one that succeeds, or the next start.
LedgerWhenSaved == Ledger!Init /\ [][unsaved \/ Ledger!Next]_(Ledger!vars)

\* Unless the server has died with a failed save behind it, no actor is ever told two
\* decisions on one request, by whichever of poll and socket.
ToldOneDecision == lost \/ \A x, y \in told : x.req = y.req => x = y

Here == [requests |-> requests, decisions |-> decisions]

Matching(s) ==
  \A r \in ReqId :
    s.decisions[r] # None <=> s.requests[r] # None /\ s.requests[r].status = "decided"

\* A request is marked decided if and only if it has a decision: in memory between
\* handlers and in the file always, since both are saved as one.
StatusMatches == Matching(Here) /\ Matching(disk)

Whole(rs) ==
  \A r \in ReqId : rs[r] # None /\ rs[r].parent # None => rs[rs[r].parent] # None

\* The parent of a request exists wherever the request does: whatever saves failed and
\* whenever the server died, a chain read back from the file is whole
\* (createDecisionRequest, listRequestChain).
ChainsAreWhole == Whole(requests) /\ Whole(disk.requests)

\* An ack the server has confirmed is on disk, unless a failed save is behind it: a
\* restart does not make the decision available again.
AcksAreDurable ==
  unsaved \/ lost \/
    \A i \in acked : \E r \in ReqId :
      disk.decisions[r] # None /\ disk.decisions[r].id = i
      /\ disk.decisions[r].delivery = "acknowledged"

\* The stored history never speaks of a decision or an ack that is not stored.
AuditIsNotAhead ==
  unsaved \/ lost \/
    \A k \in DOMAIN diskEntries :
      LET e == diskEntries[k]
          d == disk.decisions[e.req] IN
      /\ e.event = "DECIDED" => d # None
      /\ e.event = "ACKNOWLEDGED" => d # None /\ d.delivery = "acknowledged"

-----------------------------------------------------------------------------
(* The invariant behind these promises: what a handler still has to save is exactly what
   memory holds, so that the file is behind memory by one handler, or by a failed save. *)

SavesLeft == {k \in DOMAIN todo : todo[k].do = "save"}

Keyed(ds) == \A r \in ReqId : ds[r] # None => ds[r].req = r

\* es knows every decision ds has.
Knows(es, ds) == \A r \in ReqId : ds[r] # None => es[r] # None /\ Given(es[r]) = Given(ds[r])

\* Only what memory holds is saved, and a decision is broadcast after it was saved.
TodoIsOfMemory ==
  /\ ~up => todo = <<>>
  /\ \A k \in SavesLeft : todo[k].store = Here
  /\ \A k \in DOMAIN todo : todo[k].do = "notify" =>
       /\ decisions[todo[k].told.req] # None
       /\ todo[k].told = Given(decisions[todo[k].told.req])
       /\ \A j \in SavesLeft : j < k

FileIsBehindByOne ==
  up => /\ Knows(decisions, disk.decisions)
        /\ ~unsaved /\ SavesLeft = {} => disk = Here
        /\ ~unsaved => \A q, r \in ReqId :
             /\ decisions[q] # None /\ disk.decisions[q] = None
             /\ decisions[r] # None /\ disk.decisions[r] = None
             => q = r

ToldStays ==
  ~lost => \A g \in told :
    /\ up => decisions[g.req] # None /\ Given(decisions[g.req]) = g
    /\ ~unsaved => disk.decisions[g.req] # None /\ Given(disk.decisions[g.req]) = g

IdsAreFresh ==
  \A r \in ReqId : r >= nextReq => requests[r] = None /\ disk.requests[r] = None

FilesInv ==
  /\ IdsAreFresh
  /\ Keyed(decisions) /\ Keyed(disk.decisions)
  /\ ~up => ~unsaved
  /\ TodoIsOfMemory /\ FileIsBehindByOne /\ ToldStays
  /\ StatusMatches /\ ChainsAreWhole

(* The invariant behind AcksAreDurable and AuditIsNotAhead: whatever outlives the handler -
   a confirmed ack, a line of history - memory bears out, and the file does as soon as the
   saves before it are done. *)

Acknowledged(ds, i) ==
  \E r \in ReqId : ds[r] # None /\ ds[r].id = i /\ ds[r].delivery = "acknowledged"

\* A line of history is true of the decisions ds.
TrueOf(ds, e) ==
  /\ e.event = "DECIDED" => ds[e.req] # None
  /\ e.event = "ACKNOWLEDGED" => ds[e.req] # None /\ ds[e.req].delivery = "acknowledged"

TrueLog(ds, log) == \A k \in DOMAIN log : TrueOf(ds, log[k])

\* What is answered and what is logged memory bears out, and the store is saved first.
SavedFirst ==
  \A k \in DOMAIN todo :
    /\ todo[k].do = "answer" =>
         Acknowledged(decisions, todo[k].ack) /\ \A j \in SavesLeft : j < k
    /\ todo[k].do = "saveLog" =>
         todo[k].entries = entries /\ \A j \in SavesLeft : j < k

RecordsInv ==
  /\ SavedFirst
  /\ ~lost =>
       /\ \A i \in acked :
            /\ up => Acknowledged(decisions, i)
            /\ ~unsaved => Acknowledged(disk.decisions, i)
       /\ up => TrueLog(decisions, entries) /\ TrueLog(decisions, diskEntries)
       /\ ~unsaved => TrueLog(disk.decisions, diskEntries)

=============================================================================
