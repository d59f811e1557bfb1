----------------------------- MODULE Dashboard -----------------------------
(***************************************************************************)
(* The React dashboards (src/src) and what maestro-server.js does for them *)
(* over their sockets: notes, lane actions, the review sheet, the reject   *)
(* sheet, and merges that end while all of these go on.                    *)
(*                                                                         *)
(* A submission is broadcast once, to the dashboards connected then. An    *)
(* action travels to the server, whose answers come back in order, but     *)
(* only on the socket the action was sent on. The network may drop a       *)
(* socket; nothing reconnects it until the operator stops and starts.      *)
(*                                                                         *)
(* The notes have two copies: React's state, and the ref that callbacks    *)
(* read, which follows it at the next render. A user's event is rendered   *)
(* before the next event; a message of the socket is not.                  *)
(*                                                                         *)
(* One lane of one project. Left out: mock notes, scores, sounds, UNDO,    *)
(* a change of the server's address, and restarts of the server, which     *)
(* ApprovalServer models.                                                  *)
(***************************************************************************)
EXTENDS Naturals, FiniteSets, Sequences, Ranks

CONSTANTS
  Requests,      \* request ids
  Dashboards,    \* browser tabs
  Sheets,        \* bound: the tabs whose operator opens sheets
  LaneLimit,     \* notes a lane takes: 6 in the code
  MaxVersions,   \* bound: submissions of one request, each of another branch
  MaxSockets,    \* bound: times one dashboard connects
  MaxMerges,     \* bound: git children at once
  MaxFetches,    \* bound: review fetches of one dashboard at once
  AutoApproved   \* the submissions the policy lets the server approve by itself

ASSUME RequestsAreFinite ==
  IsFiniteSet(Requests) /\ IsFiniteSet(Dashboards) /\ Sheets \subseteq Dashboards
ASSUME BoundsAreNatural ==
  /\ LaneLimit \in Nat /\ MaxVersions \in Nat /\ MaxSockets \in Nat
  /\ MaxMerges \in Nat /\ MaxFetches \in Nat /\ AutoApproved \subseteq Nat

VARIABLES
  state,       \* requestStateById
  decided,     \* the decision stored for a request, which stays the first one
  version,     \* the last submission of a request, whose branch its meta data names
  merges,      \* git children, and whom their end is told
  playing, link, sock,
  toServer,    \* actions under way, each on the socket it was sent on
  fromServer,  \* events under way on the current socket
  notes,       \* the notes React holds
  seen,        \* notesRef.current
  preview,     \* the note the review sheet is open for
  sheet,       \* the note the reject sheet is open for
  fetches,     \* review fetches not yet ended
  review,      \* the version of the review on show
  skipped,     \* pending notes whose action the server has answered with MERGE_SKIPPED
  lost,        \* requests whose announcement a dashboard did not get, or had no room for
  raced,       \* requests resubmitted or rejected while they were being merged
  ambiguous    \* requests on which answers come that are not of the note on show: approved
               \* by the server itself, or from a sheet whose note had gone

server == <<state, decided, version, merges>>
client == <<playing, link, sock, notes, seen, preview, sheet, fetches, review>>
ghosts == <<skipped, lost, raced, ambiguous>>
vars == <<server, client, toServer, fromServer, ghosts>>

-----------------------------------------------------------------------------
(* Values *)

None == "none"
Versions == 1 .. MaxVersions
Sockets == 1 .. MaxSockets
Note == [request : Requests, version : Versions, status : {"READY", "APPROVING", "REJECTING"}]
NoNote == [request |-> None, version |-> 0, status |-> None]
Action == [action : {"APPROVE", "REJECT"}, request : Requests, version : Versions, sock : Sockets]
Event == [event : {"AGENT_TASK_READY"}, request : Requests, version : Versions]
         \cup [event : {"MERGE_SUCCESS", "MERGE_FAILED", "MERGE_SKIPPED", "AGENT_RESTARTED"},
               request : Requests]
Everyone == <<"everyone", 0>>
Merge == [id : 1 .. MaxMerges, request : Requests, version : Versions,
          to : {Everyone} \cup (Dashboards \X Sockets)]
\* answer: 0 until the server has looked the branch up
Fetch == [id : 1 .. MaxFetches, request : Requests, answer : 0 .. MaxVersions]

Least(S) == CHOOSE i \in S : \A j \in S : i <= j
Free(used, max) == (1 .. max) \ {x.id : x \in used}
Of(list, r) == {i \in DOMAIN list : list[i].request = r}
First(list, r) == list[Least(Of(list, r))]
Ready(list) == {i \in DOMAIN list : list[i].status = "READY"}

\* What is left keeps its order.
Without(list, r) == Picked(list, DOMAIN list \ Of(list, r))
\* Every note of the request changes, for a note's id is its request's.
WithStatus(list, r, status) ==
  [i \in DOMAIN list |-> IF list[i].request = r THEN [list[i] EXCEPT !.status = status] ELSE list[i]]

TypeOK ==
  /\ state \in [Requests -> {"none", "ready", "approving", "merged", "rejected"}]
  /\ decided \in [Requests -> {None, "approve", "reject"}]
  /\ version \in [Requests -> 0 .. MaxVersions]
  /\ merges \subseteq Merge
  /\ playing \in [Dashboards -> BOOLEAN]
  /\ link \in [Dashboards -> {"off", "connecting", "open"}]
  /\ sock \in [Dashboards -> 0 .. MaxSockets]
  /\ toServer \in [Dashboards -> Seq(Action)]
  /\ fromServer \in [Dashboards -> Seq(Event)]
  /\ notes \in [Dashboards -> Seq(Note)] /\ seen \in [Dashboards -> Seq(Note)]
  /\ preview \in [Dashboards -> Note \cup {NoNote}]
  /\ sheet \in [Dashboards -> Requests \cup {None}]
  /\ fetches \in [Dashboards -> SUBSET Fetch]
  /\ review \in [Dashboards -> 0 .. MaxVersions]
  /\ skipped \in [Dashboards -> SUBSET Requests] /\ lost \in [Dashboards -> SUBSET Requests]
  /\ raced \subseteq Requests /\ ambiguous \subseteq Requests

Init ==
  /\ state = [r \in Requests |-> "none"] /\ decided = [r \in Requests |-> None]
  /\ version = [r \in Requests |-> 0] /\ merges = {}
  /\ playing = [d \in Dashboards |-> FALSE] /\ link = [d \in Dashboards |-> "off"]
  /\ sock = [d \in Dashboards |-> 0]
  /\ toServer = [d \in Dashboards |-> <<>>] /\ fromServer = [d \in Dashboards |-> <<>>]
  /\ notes = [d \in Dashboards |-> <<>>] /\ seen = [d \in Dashboards |-> <<>>]
  /\ preview = [d \in Dashboards |-> NoNote] /\ sheet = [d \in Dashboards |-> None]
  /\ fetches = [d \in Dashboards |-> {}] /\ review = [d \in Dashboards |-> 0]
  /\ skipped = [d \in Dashboards |-> {}] /\ lost = [d \in Dashboards |-> {}]
  /\ raced = {} /\ ambiguous = {}

-----------------------------------------------------------------------------
(* The server. An operator X_bug is X with a plausible bug; no specification uses one. *)

Merging(r) == \E m \in merges : m.request = r

\* broadcastToClients
Broadcast(event) ==
  fromServer' = [d \in Dashboards |-> IF link[d] = "open" THEN Append(fromServer[d], event)
                                                          ELSE fromServer[d]]
\* What is sent on a socket that has been closed is gone.
SendTo(d, s, event) ==
  fromServer' = [fromServer EXCEPT ![d] = IF link[d] = "open" /\ sock[d] = s THEN Append(@, event)
                                                                             ELSE @]

Submit(r) ==
  /\ version[r] < MaxVersions
  /\ version' = [version EXCEPT ![r] = @ + 1]
  /\ Broadcast([event |-> "AGENT_TASK_READY", request |-> r, version |-> version[r] + 1])
  /\ raced' = raced \cup {q \in {r} : Merging(q)}
  /\ \/ /\ state' = [state EXCEPT ![r] = "ready"]
        /\ UNCHANGED <<merges, ambiguous>>
     \/ /\ version[r] + 1 \in AutoApproved /\ Free(merges, MaxMerges) # {}
        /\ ~ \E m \in merges : m.request = r /\ m.to = Everyone
        /\ state' = [state EXCEPT ![r] = "approving"]
        /\ merges' = merges \cup {[id |-> Least(Free(merges, MaxMerges)), request |-> r,
                                 version |-> version[r] + 1, to |-> Everyone]}
        /\ ambiguous' = ambiguous \cup {r}
  /\ UNCHANGED <<decided, client, toServer, skipped, lost>>

\* APPROVE: an earlier decision stays, and a request that is not ready is skipped.
Skips(r) == decided[r] = "reject" \/ state[r] \in {"approving", "merged", "rejected"}

Approve(d, s, r, v) ==
  /\ decided' = [decided EXCEPT ![r] = IF @ = None THEN "approve" ELSE @]
  /\ \/ /\ Skips(r)
        /\ SendTo(d, s, [event |-> "MERGE_SKIPPED", request |-> r])
        /\ UNCHANGED <<state, merges>>
     \/ /\ ~Skips(r) /\ Free(merges, MaxMerges) # {}
        /\ state' = [state EXCEPT ![r] = "approving"]
        /\ merges' = merges \cup {[id |-> Least(Free(merges, MaxMerges)), request |-> r,
                                 version |-> v, to |-> <<d, s>>]}
        /\ UNCHANGED fromServer
  /\ UNCHANGED raced

\* REJECT: the request is rejected whatever has become of it.
Reject(d, s, r) ==
  /\ decided' = [decided EXCEPT ![r] = IF @ = None THEN "reject" ELSE @]
  /\ state' = [state EXCEPT ![r] = "rejected"]
  /\ SendTo(d, s, [event |-> "AGENT_RESTARTED", request |-> r])
  /\ raced' = raced \cup {q \in {r} : Merging(q)}
  /\ UNCHANGED merges

\* The actions of one socket are handled in order; an old socket's may still come.
Handle(d, i) ==
  LET m == toServer[d][i] IN
  /\ \A j \in 1 .. i - 1 : toServer[d][j].sock # m.sock
  /\ toServer' = [toServer EXCEPT ![d] = SubSeq(@, 1, i - 1) \o SubSeq(@, i + 1, Len(@))]
  /\ \/ m.action = "APPROVE" /\ Approve(d, m.sock, m.request, m.version)
     \/ m.action = "REJECT" /\ Reject(d, m.sock, m.request)
  /\ UNCHANGED <<version, client, skipped, lost, ambiguous>>

\* git ends: a failure makes the request ready again.
MergeEnds_bug(m, ok) ==
  LET event == [event |-> "MERGE_SUCCESS", request |-> m.request] IN
  /\ m \in merges /\ merges' = merges \ {m}
  /\ state' = [state EXCEPT ![m.request] = IF ok THEN "merged" ELSE "ready"]
  /\ \/ ok /\ m.to = Everyone /\ Broadcast(event)
     \/ ok /\ m.to # Everyone /\ SendTo(m.to[1], m.to[2], event)
     \/ ~ok /\ UNCHANGED fromServer
  /\ UNCHANGED <<decided, version, client, toServer, ghosts>>
MergeEnds(m, ok) ==
  LET event == [event |-> IF ok THEN "MERGE_SUCCESS" ELSE "MERGE_FAILED", request |-> m.request] IN
  /\ m \in merges /\ merges' = merges \ {m}
  /\ state' = [state EXCEPT ![m.request] = IF ok THEN "merged" ELSE "ready"]
  /\ IF m.to = Everyone THEN Broadcast(event) ELSE SendTo(m.to[1], m.to[2], event)
  /\ UNCHANGED <<decided, version, client, toServer, ghosts>>

-----------------------------------------------------------------------------
(* A dashboard's socket *)

Start(d) ==
  /\ ~playing[d] /\ sock[d] < MaxSockets
  /\ playing' = [playing EXCEPT ![d] = TRUE]
  /\ link' = [link EXCEPT ![d] = "connecting"]
  /\ sock' = [sock EXCEPT ![d] = @ + 1]
  /\ notes' = [notes EXCEPT ![d] = <<>>] /\ seen' = [seen EXCEPT ![d] = <<>>]
  /\ skipped' = [skipped EXCEPT ![d] = {}]
  /\ UNCHANGED <<server, preview, sheet, fetches, review, toServer, fromServer, lost, raced, ambiguous>>

\* The server sends a new dashboard nothing of what is waiting.
Opens(d) ==
  /\ link[d] = "connecting"
  /\ link' = [link EXCEPT ![d] = "open"]
  /\ lost' = [lost EXCEPT ![d] = {r \in Requests : version[r] > 0}]
  /\ UNCHANGED <<server, playing, sock, notes, seen, preview, sheet, fetches, review,
                 toServer, fromServer, skipped, raced, ambiguous>>

\* The connection breaks: the last actions may not arrive, no event does.
Drops(d) ==
  /\ link[d] # "off"
  /\ link' = [link EXCEPT ![d] = "off"]
  /\ \E k \in 0 .. Len(toServer[d]) :
       /\ \A j \in k + 1 .. Len(toServer[d]) : toServer[d][j].sock = sock[d]
       /\ toServer' = [toServer EXCEPT ![d] = SubSeq(@, 1, k)]
  /\ fromServer' = [fromServer EXCEPT ![d] = <<>>]
  /\ UNCHANGED <<server, playing, sock, notes, seen, preview, sheet, fetches, review, ghosts>>

\* The sheets stay open, and what has been sent still arrives.
Stop(d) ==
  /\ playing[d]
  /\ playing' = [playing EXCEPT ![d] = FALSE] /\ link' = [link EXCEPT ![d] = "off"]
  /\ notes' = [notes EXCEPT ![d] = <<>>] /\ seen' = [seen EXCEPT ![d] = <<>>]
  /\ fromServer' = [fromServer EXCEPT ![d] = <<>>]
  /\ skipped' = [skipped EXCEPT ![d] = {}]
  /\ UNCHANGED <<server, sock, preview, sheet, fetches, review, toServer, lost, raced, ambiguous>>

Render(d) ==
  /\ seen[d] # notes[d]
  /\ seen' = [seen EXCEPT ![d] = notes[d]]
  /\ UNCHANGED <<server, playing, link, sock, notes, preview, sheet, fetches, review,
                 toServer, fromServer, ghosts>>

-----------------------------------------------------------------------------
(* Events *)

\* The notes of a request go, if the ref shows one.
Removes(d, r) ==
  notes' = [notes EXCEPT ![d] = IF Of(seen[d], r) = {} THEN @ ELSE Without(@, r)]

TaskReady(d, e) ==
  LET full == Len(notes[d]) >= LaneLimit IN
  /\ notes' = [notes EXCEPT ![d] =
       IF full THEN @ ELSE Append(@, [request |-> e.request, version |-> e.version, status |-> "READY"])]
  /\ lost' = [lost EXCEPT ![d] = IF full THEN @ \cup {e.request} ELSE @ \ {e.request}]

MergeFailed_bug(d, r) ==
  notes' = [notes EXCEPT ![d] = IF Of(seen[d], r) = {} THEN @ ELSE WithStatus(@, r, "FAILED")]
MergeFailed_bug2(d, r) ==
  notes' = [notes EXCEPT ![d] = IF Of(seen[d], r) = {} THEN @ ELSE Without(@, r)]
MergeFailed(d, r) ==
  notes' = [notes EXCEPT ![d] = IF Of(seen[d], r) = {} THEN @ ELSE WithStatus(@, r, "READY")]

\* MERGE_SKIPPED has no case: the note stays as it is.
OnEvent(d, e) ==
  \/ e.event = "AGENT_TASK_READY" /\ TaskReady(d, e)
  \/ e.event \in {"MERGE_SUCCESS", "AGENT_RESTARTED"} /\ Removes(d, e.request) /\ UNCHANGED lost
  \/ e.event = "MERGE_FAILED" /\ MergeFailed(d, e.request) /\ UNCHANGED lost
  \/ e.event = "MERGE_SKIPPED" /\ UNCHANGED <<notes, lost>>

Pending(list) == {list[i].request : i \in DOMAIN list \ Ready(list)}

Deliver(d) ==
  /\ link[d] = "open" /\ fromServer[d] # <<>>
  /\ fromServer' = [fromServer EXCEPT ![d] = Tail(@)]
  /\ OnEvent(d, Head(fromServer[d]))
  /\ LET e == Head(fromServer[d]) IN
     skipped' = [skipped EXCEPT ![d] =
       (@ \cup {r \in {e.request} : e.event = "MERGE_SKIPPED"}) \cap Pending(notes'[d])]
  /\ UNCHANGED <<server, playing, link, sock, seen, preview, sheet, fetches, review,
                 toServer, raced, ambiguous>>

-----------------------------------------------------------------------------
(* What the operator does *)

\* The snapshot may be old: the first note with its id counts, if there is one.
Target(d, note) ==
  IF Of(seen[d], note.request) = {} THEN note ELSE First(seen[d], note.request)

\* performNoteAction. Without a connection the note goes as if all had been done.
Perform(d, note, action) ==
  LET t == Target(d, note) IN
  IF t.status # "READY" THEN UNCHANGED <<notes, toServer, ambiguous>>
  ELSE
  /\ ambiguous' = ambiguous \cup {r \in {t.request} : Of(seen[d], r) = {}}
  /\ IF link[d] = "open"
    THEN /\ toServer' = [toServer EXCEPT ![d] = Append(@,
              [action |-> action, request |-> t.request, version |-> t.version, sock |-> sock[d]])]
         /\ notes' = [notes EXCEPT ![d] =
              WithStatus(@, t.request, IF action = "APPROVE" THEN "APPROVING" ELSE "REJECTING")]
    ELSE /\ notes' = [notes EXCEPT ![d] = Without(@, t.request)]
         /\ UNCHANGED toServer

\* The reject sheet opens for the note an action would go to.
AsksWhy(d, note) ==
  LET t == Target(d, note) IN
  sheet' = [sheet EXCEPT ![d] = IF t.status = "READY" THEN t.request ELSE @]

\* React renders before the user's next event.
Rendered_bug(d) ==
  /\ UNCHANGED seen
  /\ skipped' = [skipped EXCEPT ![d] = @ \cap Pending(notes'[d])]
Rendered(d) ==
  /\ seen' = [seen EXCEPT ![d] = notes'[d]]
  /\ skipped' = [skipped EXCEPT ![d] = @ \cap Pending(notes'[d])]
Elsewhere == UNCHANGED <<server, playing, link, sock, fromServer, lost, raced>>

\* A lane's key, its buttons, a short press of its grip: the lane's first note.
Lane(d) ==
  /\ playing[d] /\ preview[d] = NoNote /\ Ready(seen[d]) # {}
  /\ Perform(d, seen[d][Least(Ready(seen[d]))], "APPROVE")
  /\ Rendered(d) /\ Elsewhere /\ UNCHANGED <<preview, sheet, fetches, review>>

\* The same with shift, or a long press.
LaneReject(d) ==
  /\ d \in Sheets /\ playing[d] /\ preview[d] = NoNote /\ Ready(seen[d]) # {}
  /\ AsksWhy(d, seen[d][Least(Ready(seen[d]))])
  /\ UNCHANGED <<notes, ambiguous>> /\ Rendered(d) /\ Elsewhere
  /\ UNCHANGED <<toServer, preview, fetches, review>>

\* With a reason: the sheet's note, or the lane's first if that is gone or pending.
ConfirmSheet(d) ==
  LET mine == Of(seen[d], sheet[d]) \cap Ready(seen[d]) IN
  /\ sheet[d] # None
  /\ sheet' = [sheet EXCEPT ![d] = None]
  /\ \/ /\ playing[d] /\ mine # {}
        /\ Perform(d, seen[d][Least(mine)], "REJECT")
     \/ /\ mine = {} /\ playing[d] /\ preview[d] = NoNote /\ Ready(seen[d]) # {}
        /\ Perform(d, seen[d][Least(Ready(seen[d]))], "REJECT")
     \/ /\ ~playing[d] \/ (mine = {} /\ (preview[d] # NoNote \/ Ready(seen[d]) = {}))
        /\ UNCHANGED <<notes, toServer, ambiguous>>
  /\ Rendered(d) /\ Elsewhere /\ UNCHANGED <<preview, fetches, review>>

CancelSheet(d) ==
  /\ sheet[d] # None
  /\ sheet' = [sheet EXCEPT ![d] = None]
  /\ UNCHANGED <<notes, ambiguous>> /\ Rendered(d) /\ Elsewhere /\ UNCHANGED <<toServer, preview, fetches, review>>

\* A click on a note opens the review sheet and asks for the review of its request.
Preview(d) ==
  /\ d \in Sheets /\ preview[d] = NoNote /\ sheet[d] = None
  /\ Free(fetches[d], MaxFetches) # {}
  /\ \E i \in DOMAIN seen[d] :
       /\ preview' = [preview EXCEPT ![d] = seen[d][i]]
       /\ fetches' = [fetches EXCEPT ![d] = @ \cup
            {[id |-> Least(Free(@, MaxFetches)), request |-> seen[d][i].request, answer |-> 0]}]
  /\ UNCHANGED <<notes, ambiguous>> /\ Rendered(d) /\ Elsewhere /\ UNCHANGED <<toServer, sheet, review>>

\* The sheet closes: Escape, approve or reject. The review is cleared.
Closes(d) ==
  /\ preview[d] # NoNote
  /\ preview' = [preview EXCEPT ![d] = NoNote]
  /\ review' = [review EXCEPT ![d] = 0]
  /\ Rendered(d) /\ Elsewhere /\ UNCHANGED fetches

ClosePreview(d) == UNCHANGED <<notes, toServer, ambiguous, sheet>> /\ Closes(d)
ApprovePreview(d) ==
  /\ playing[d] /\ preview[d] # NoNote
  /\ Perform(d, preview[d], "APPROVE") /\ UNCHANGED sheet /\ Closes(d)
RejectPreview(d) ==
  /\ playing[d] /\ preview[d] # NoNote
  /\ AsksWhy(d, preview[d]) /\ UNCHANGED <<notes, toServer, ambiguous>> /\ Closes(d)

-----------------------------------------------------------------------------
(* The review *)

\* The server looks up the branch of the request's last submission.
BuildReview(d, f) ==
  /\ f \in fetches[d] /\ f.answer = 0
  /\ fetches' = [fetches EXCEPT ![d] = (@ \ {f}) \cup {[f EXCEPT !.answer = version[f.request]]}]
  /\ UNCHANGED <<server, playing, link, sock, notes, seen, preview, sheet, review,
                 toServer, fromServer, ghosts>>

\* The answer counts if the sheet is open for the same request. It may be an error.
ReviewArrives(d, f, ok) ==
  /\ f \in fetches[d] /\ f.answer # 0
  /\ fetches' = [fetches EXCEPT ![d] = @ \ {f}]
  /\ review' = [review EXCEPT ![d] =
       IF ok /\ preview[d] # NoNote /\ preview[d].request = f.request THEN f.answer ELSE @]
  /\ UNCHANGED <<server, playing, link, sock, notes, seen, preview, sheet,
                 toServer, fromServer, ghosts>>

-----------------------------------------------------------------------------
ServerStep ==
  \/ \E r \in Requests : Submit(r)
  \/ \E d \in Dashboards : \E i \in DOMAIN toServer[d] : Handle(d, i)
  \/ \E m \in merges, ok \in BOOLEAN : MergeEnds(m, ok)
  \/ \E d \in Dashboards : \E f \in fetches[d] : BuildReview(d, f)

SocketStep(d) == Start(d) \/ Opens(d) \/ Drops(d) \/ Stop(d) \/ Deliver(d) \/ Render(d)

OperatorStep(d) ==
  \/ Lane(d) \/ LaneReject(d) \/ ConfirmSheet(d) \/ CancelSheet(d)
  \/ Preview(d) \/ ClosePreview(d) \/ ApprovePreview(d) \/ RejectPreview(d)
  \/ \E f \in fetches[d], ok \in BOOLEAN : ReviewArrives(d, f, ok)

Next == ServerStep \/ \E d \in Dashboards : SocketStep(d) \/ OperatorStep(d)

Spec == Init /\ [][Next]_vars

(***************************************************************************)
(* What is sent arrives or its socket closes, the server runs its          *)
(* handlers, and git ends.                                                 *)
(***************************************************************************)
Fairness ==
  /\ \A d \in Dashboards : /\ WF_vars(\E i \in DOMAIN toServer[d] : Handle(d, i))
                           /\ WF_vars(Deliver(d)) /\ WF_vars(Render(d))
  /\ \A n \in 1 .. MaxMerges :
       WF_vars(\E m \in {x \in merges : x.id = n}, ok \in BOOLEAN : MergeEnds(m, ok))

FairSpec == Spec /\ Fairness

-----------------------------------------------------------------------------
(* Properties *)

\* An action of this dashboard's socket on this request has not been answered yet.
Queued(d, r) == {toServer[d][i].version : i \in
                   {j \in Of(toServer[d], r) : toServer[d][j].sock = sock[d]}}
MergedFor(d, r) == {m.version : m \in {x \in merges : x.request = r /\ x.to = <<d, sock[d]>>}}
Answered(d, r) == \E i \in DOMAIN fromServer[d] :
                    fromServer[d][i].request = r /\ fromServer[d][i].event # "AGENT_TASK_READY"

(***************************************************************************)
(* A note a connected dashboard shows as being approved or rejected really *)
(* is: the action is on its way, or git runs for it, or the answer is      *)
(* coming. Only MERGE_SKIPPED leaves a note pending with nothing to come   *)
(* (useMaestroRealtime.js handles the other answers).                      *)
(***************************************************************************)
PendingIsOutstanding ==
  \A d \in Dashboards : link[d] = "open" =>
    \A r \in Pending(notes[d]) \ skipped[d] :
      Queued(d, r) \cup MergedFor(d, r) # {} \/ Answered(d, r)

(***************************************************************************)
(* A request the server waits for an operator to decide is on every        *)
(* connected dashboard that got its announcement and had room for it, or   *)
(* the announcement is on its way. Not so one that was resubmitted or      *)
(* rejected in the middle of its merge: the merge's end takes the note.    *)
(***************************************************************************)
WaitingIsVisible ==
  \A d \in Dashboards : link[d] = "open" =>
    \A r \in Requests \ (raced \cup lost[d]) : state[r] = "ready" =>
      \/ Of(notes[d], r) # {}
      \/ \E i \in DOMAIN fromServer[d] :
           fromServer[d][i].event = "AGENT_TASK_READY" /\ fromServer[d][i].request = r

(***************************************************************************)
(* A dashboard sends no second action on a submission while the first on   *)
(* the same socket is unanswered, whichever of the keys, the sheets and    *)
(* the resubmitted notes it comes from. (Answers name the request only: one *)
(* of another submission, or of a merge nobody asked for, may make the     *)
(* note ready in between.)                                                 *)
(***************************************************************************)
Sent(d) == IF Len(toServer'[d]) > Len(toServer[d]) THEN {toServer'[d][Len(toServer'[d])]} ELSE {}

NoDoubleAction ==
  [][\A d \in Dashboards : \A m \in Sent(d) :
       m.request \notin ambiguous => m.version \notin Queued(d, m.request) \cup MergedFor(d, m.request)]_vars

(***************************************************************************)
(* A pending note does not stay so: it goes, or becomes ready again, or    *)
(* the connection ends, or its action was skipped.                         *)
(***************************************************************************)
PendingEnds ==
  \A d \in Dashboards, r \in Requests :
    r \in Pending(notes[d]) ~> \/ r \notin Pending(notes[d]) \/ r \in skipped[d] \/ link[d] # "open"

(***************************************************************************)
(* USER_GUIDE says the review shows what will be merged: if a review is on *)
(* show, what is approved from the sheet is the branch it is about.        *)
(***************************************************************************)
MergesWhatWasReviewed ==
  [][\A d \in Dashboards : \A m \in Sent(d) :
       review[d] # 0 => m.version = review[d]]_vars
-----------------------------------------------------------------------------
(* What is inductive, and implies the properties above *)

Submitted == {r \in Requests : version[r] > 0}

\* A socket that is not open has brought nothing, and a new one finds no notes.
LinksInv ==
  \A d \in Dashboards :
    /\ link[d] # "off" => playing[d] /\ sock[d] # 0
    /\ link[d] = "connecting" => notes[d] = <<>> /\ seen[d] = <<>>
    /\ link[d] # "open" => fromServer[d] = <<>>

\* The ref still shows each note that has become pending: an answer will find it.
ShownInv == \A d \in Dashboards : \A r \in Pending(notes[d]) : Of(seen[d], r) # {}

\* Nothing is about a request nobody has submitted.
SubmittedInv ==
  /\ \A r \in Requests : state[r] # "none" <=> r \in Submitted
  /\ \A m \in merges : m.request \in Submitted
  /\ \A d \in Dashboards :
       /\ \A i \in DOMAIN toServer[d] : toServer[d][i].request \in Submitted
       /\ \A i \in DOMAIN fromServer[d] : fromServer[d][i].request \in Submitted
       /\ \A i \in DOMAIN notes[d] : notes[d][i].request \in Submitted
       /\ \A i \in DOMAIN seen[d] : seen[d][i].request \in Submitted
       /\ preview[d] # NoNote => preview[d].request \in Submitted

\* A request that was left alone while it was merged has one merge, and waits for its end.
MergesInv ==
  \A m \in merges : m.request \notin raced =>
    state[m.request] = "approving" /\ \A n \in merges : n.request = m.request => n = m

Announced(d, r, from) ==
  \E j \in DOMAIN fromServer[d] :
    from <= j /\ fromServer[d][j].event = "AGENT_TASK_READY" /\ fromServer[d][j].request = r

\* While a request waits or is merged, its note is there or on its way, and so it is after
\* each event under way that removes the note.
NotesInv ==
  \A d \in Dashboards, r \in Requests \ raced :
    link[d] = "open" /\ state[r] \in {"ready", "approving"} =>
      /\ r \notin lost[d] => Of(notes[d], r) # {} \/ Announced(d, r, 1)
      /\ \A i \in DOMAIN fromServer[d] :
           fromServer[d][i].event \in {"MERGE_SUCCESS", "AGENT_RESTARTED"}
           /\ fromServer[d][i].request = r => Announced(d, r, i)

\* No socket is from the future, and only the policy's merges are for everyone.
SocketsInv ==
  /\ \A d \in Dashboards : \A i \in DOMAIN toServer[d] : toServer[d][i].sock <= sock[d]
  /\ \A m \in merges : IF m.to = Everyone THEN m.request \in ambiguous
                                          ELSE m.to[2] <= sock[m.to[1]]

\* Where the actions of this socket on a request are: on the way, in git, or answered.
Sends(d, r) == {i \in Of(toServer[d], r) : toServer[d][i].sock = sock[d]}
Runs(d, r) == {m \in merges : m.request = r /\ m.to = <<d, sock[d]>>}
Answers(d, r) == {i \in Of(fromServer[d], r) : fromServer[d][i].event # "AGENT_TASK_READY"}
AtMostOne(S) == \A x, y \in S : x = y

\* Of two actions on one request one is always answered first: as long as there is one, the first
\* note of the request is pending, for React and for the callbacks.
SingleInv ==
  \A d \in Dashboards, r \in Requests \ ambiguous : link[d] # "off" =>
    /\ AtMostOne(Sends(d, r)) /\ AtMostOne(Runs(d, r)) /\ AtMostOne(Answers(d, r))
    /\ Sends(d, r) # {} => Runs(d, r) = {} /\ Answers(d, r) = {}
    /\ Runs(d, r) # {} => Answers(d, r) = {}
    /\ Sends(d, r) \cup Runs(d, r) \cup Answers(d, r) # {} =>
         /\ Of(notes[d], r) # {} /\ First(notes[d], r).status # "READY"
         /\ Of(seen[d], r) # {} /\ First(seen[d], r).status # "READY"
    /\ Of(seen[d], r) # {} /\ First(seen[d], r).status = "READY" => Of(notes[d], r) # {}

=============================================================================
