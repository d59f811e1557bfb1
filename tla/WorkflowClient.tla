--------------------------- MODULE WorkflowClient ---------------------------
(***************************************************************************)
(* The web client of the workflow server (workflow/src/App.jsx and         *)
(* lib/api.js): the board of pending requests, replaced by every answer to *)
(* a reload; the socket, which asks for a reload on every event and after  *)
(* every authorization, reconnects when it is closed and asks for a token  *)
(* when it is refused; and the sheet. The history, which the same reloads  *)
(* fetch and whose failures are ignored, is left out.                      *)
(*                                                                         *)
(* The server is what the client sees of it: requests that are created and *)
(* decided, here or by others, and that tell every authorized socket.      *)
(* Calls are answered in any order.                                        *)
(***************************************************************************)
EXTENDS Naturals, Sequences, FiniteSets

CONSTANTS
  Requests,
  Chained,     \* those with a parentRequestId
  None,
  MaxDrops,    \* bound: times the socket is dropped
  MaxFailures, \* bound: calls that fail
  MaxSubmits,  \* bound: tokens entered
  MaxDecisions \* bound: decisions sent

VARIABLES
  strict,     \* the server asks for a token
  status,     \* status[r]: "none", "pending" or "decided"
  socket,     \* "closed", "connecting", "asking" (WORKFLOW_AUTH sent) or "trusted"
  queue,      \* messages on their way to the client
  closing,    \* sockets of an earlier effect whose close has not been reported
  timer,      \* a reconnect is scheduled
  connected,  \* the state that is shown
  token,      \* the token is the server's
  gate,       \* authRequired
  asked,      \* asked[t]: calls sent with token t that the server has not read
  answers,    \* answers on their way: the number of changes each was read at, or None: 401
  board,      \* the number of changes when what is shown was read, or None
  newest,     \* the newest answer ever shown
  failed,     \* a call has failed since the last reload began
  sheet,      \* selected
  chain,      \* the request whose chain is shown
  chains,     \* requests whose chain was asked for
  deciding,   \* decisions sent: those the server has not read (FALSE), or has (TRUE)
  drops, failures, submits, decisions

vars == <<strict, status, socket, queue, closing, timer, connected, token, gate, asked, answers,
          board, newest, failed, sheet, chain, chains, deciding, drops, failures, submits, decisions>>

server == <<strict, status>>
link == <<socket, queue, closing, timer, connected>>
auth == <<token, gate, submits>>
shown == <<board, newest>>
sheets == <<sheet, chain, chains>>

\* How many changes the server has seen: a request counts once it is made, and again once it is decided.
Changes ==
  Cardinality({r \in Requests : status[r] # "none"}) + Cardinality({r \in Requests : status[r] = "decided"})

Admitted(t) == ~strict \/ t

\* reload, and what it adds to the calls.
Reload(t) ==
  /\ asked' = [asked EXCEPT ![t] = @ + 1]
  /\ failed' = FALSE

Init ==
  /\ strict \in BOOLEAN /\ status = [r \in Requests |-> "none"]
  /\ socket = "connecting" /\ queue = <<>> /\ closing = 0 /\ timer = FALSE /\ connected = FALSE
  /\ token \in BOOLEAN /\ gate = FALSE
  /\ asked = [t \in BOOLEAN |-> IF t = token THEN 1 ELSE 0]
  /\ answers = {} /\ board = None /\ newest = 0
  /\ failed = FALSE
  /\ sheet = None /\ chain = None /\ chains = {} /\ deciding = {}
  /\ drops = 0 /\ failures = 0 /\ submits = 0 /\ decisions = 0

\* The server tells authorized sockets of a change.
Told(change) == queue' = IF socket = "trusted" THEN Append(queue, change) ELSE queue

\* An actor asks, or another operator decides.
Change(r) ==
  /\ status[r] # "decided"
  /\ status' = [status EXCEPT ![r] = IF @ = "none" THEN "pending" ELSE "decided"]
  /\ Told("event")
  /\ UNCHANGED <<strict, socket, closing, timer, connected, auth, asked, answers, shown, failed, sheets,
                 deciding, drops, failures, decisions>>

-----------------------------------------------------------------------------
\* The server reads the pending requests, or refuses to.
Reads(t) ==
  /\ asked[t] > 0
  /\ asked' = [asked EXCEPT ![t] = @ - 1]
  /\ answers' = answers \cup {IF Admitted(t) THEN Changes ELSE None}
  /\ UNCHANGED <<server, link, auth, shown, failed, sheets, deciding, drops, failures, decisions>>

\* setRequests takes whatever arrives.
Arrives(at) ==
  /\ at # None /\ answers' = answers \ {at}
  /\ board' = at
  /\ newest' = IF at > newest THEN at ELSE newest
  /\ UNCHANGED <<server, link, auth, asked, failed, sheets, deciding, drops, failures, decisions>>

\* A 401 asks for a token.
Refused ==
  /\ None \in answers /\ answers' = answers \ {None}
  /\ gate' = TRUE
  /\ UNCHANGED <<server, link, token, submits, asked, shown, failed, sheets, deciding, drops, failures, decisions>>

\* A call that fails otherwise is ignored.
CallFails(t) ==
  /\ failures < MaxFailures /\ failures' = failures + 1
  /\ asked[t] > 0
  /\ asked' = [asked EXCEPT ![t] = @ - 1]
  /\ failed' = TRUE
  /\ UNCHANGED <<server, link, auth, answers, shown, sheets, deciding, drops, decisions>>

-----------------------------------------------------------------------------
\* ws.onopen.
Opens ==
  /\ socket = "connecting" /\ socket' = "asking"
  /\ UNCHANGED <<server, queue, closing, timer, connected, auth, asked, answers, shown, failed, sheets,
                 deciding, drops, failures, decisions>>

\* The server answers WORKFLOW_AUTH_OK, or closes with 4401.
Authorizes ==
  /\ socket = "asking" /\ Admitted(token)
  /\ socket' = "trusted" /\ queue' = <<"AUTH_OK">>
  /\ UNCHANGED <<server, closing, timer, connected, auth, asked, answers, shown, failed, sheets, deciding,
                 drops, failures, decisions>>

\* ws.onclose with 4401: no reconnect, the gate is shown.
ClosedAsRefused ==
  /\ socket = "asking" /\ ~Admitted(token)
  /\ socket' = "closed" /\ queue' = <<>> /\ connected' = FALSE /\ gate' = TRUE
  /\ UNCHANGED <<server, closing, timer, token, submits, asked, answers, shown, failed, sheets, deciding,
                 drops, failures, decisions>>

\* ws.onclose with any other code: the socket is tried again, after a growing delay.
Dropped ==
  /\ socket # "closed" /\ drops < MaxDrops /\ drops' = drops + 1
  /\ socket' = "closed" /\ queue' = <<>> /\ connected' = FALSE /\ timer' = TRUE
  /\ UNCHANGED <<server, closing, auth, asked, answers, shown, failed, sheets, deciding, failures, decisions>>

Reconnects ==
  /\ timer /\ timer' = FALSE /\ socket' = "connecting"
  /\ UNCHANGED <<server, queue, closing, connected, auth, asked, answers, shown, failed, sheets, deciding,
                 drops, failures, decisions>>

\* The close of a socket whose effect was disposed.
OldSocketCloses ==
  /\ closing > 0 /\ closing' = closing - 1
  /\ connected' = FALSE
  /\ UNCHANGED <<server, socket, queue, timer, auth, asked, answers, shown, failed, sheets, deciding, drops, failures, decisions>>

\* Mutant: an authorization shows the connection and reloads nothing.
OnMessage_bug ==
  /\ queue # <<>> /\ queue' = Tail(queue)
  /\ connected' = (connected \/ Head(queue) = "AUTH_OK")
  /\ IF Head(queue) = "AUTH_OK" THEN UNCHANGED <<asked, failed>> ELSE Reload(token)
  /\ UNCHANGED <<server, socket, closing, timer, auth, answers, shown, sheets, deciding, drops, failures, decisions>>

\* ws.onmessage.
OnMessage ==
  /\ queue # <<>> /\ queue' = Tail(queue)
  /\ connected' = (connected \/ Head(queue) = "AUTH_OK")
  /\ Reload(token)
  /\ UNCHANGED <<server, socket, closing, timer, auth, answers, shown, sheets, deciding, drops, failures, decisions>>

\* TokenGate's onSubmit: the effect is disposed and runs again.
SubmitToken(t) ==
  /\ gate /\ submits < MaxSubmits /\ submits' = submits + 1
  /\ token' = t /\ gate' = FALSE
  /\ closing' = closing + IF socket = "closed" THEN 0 ELSE 1
  /\ socket' = "connecting" /\ queue' = <<>> /\ timer' = FALSE
  /\ Reload(t)
  /\ UNCHANGED <<server, connected, answers, shown, sheets, deciding, drops, failures, decisions>>

-----------------------------------------------------------------------------
\* A note of the board is chosen. Its chain is loaded while the sheet is open.
Select(r) ==
  /\ sheet = None /\ ~gate /\ status[r] # "none"
  /\ board # None
  /\ sheet' = r /\ chain' = None
  /\ chains' = IF r \in Chained THEN chains \cup {r} ELSE chains
  /\ UNCHANGED <<server, link, auth, asked, answers, shown, failed, deciding, drops, failures, decisions>>

\* setSelectedChain takes the answer whatever sheet is open by now.
ChainArrives(r) ==
  /\ r \in chains /\ chains' = chains \ {r}
  /\ chain' = r
  /\ UNCHANGED <<server, link, auth, asked, answers, shown, failed, sheet, deciding, drops, failures, decisions>>

Close ==
  /\ sheet # None /\ ~gate
  /\ sheet' = None /\ chain' = None
  /\ UNCHANGED <<server, link, auth, asked, answers, shown, failed, chains, deciding, drops, failures, decisions>>

\* decideRequest; the sheet stays until it is answered, and may be pressed again or closed.
Decide ==
  /\ sheet # None /\ ~gate
  /\ deciding' = deciding \cup {<<sheet, FALSE>>}
  /\ decisions < MaxDecisions /\ decisions' = decisions + 1
  /\ UNCHANGED <<server, link, auth, asked, answers, shown, failed, sheets, drops, failures>>

DecisionRead(r) ==
  /\ <<r, FALSE>> \in deciding
  /\ deciding' = (deciding \ {<<r, FALSE>>}) \cup {<<r, TRUE>>}
  /\ IF Admitted(token) /\ status[r] = "pending"
     THEN status' = [status EXCEPT ![r] = "decided"] /\ Told("event")
     ELSE UNCHANGED <<status, queue>>
  /\ UNCHANGED <<strict, socket, closing, timer, connected, auth, asked, answers, shown, failed, sheets,
                 drops, failures, decisions>>

\* `finally`, of an answer or of a failure: the sheet that is open is closed.
DecisionAnswered(r) ==
  /\ <<r, TRUE>> \in deciding
  /\ deciding' = deciding \ {<<r, TRUE>>}
  /\ sheet' = None /\ chain' = None
  /\ Reload(token)
  /\ UNCHANGED <<server, link, auth, answers, shown, chains, drops, failures, decisions>>

Next ==
  \/ \E r \in Requests : Change(r) \/ Select(r) \/ ChainArrives(r) \/ DecisionRead(r) \/ DecisionAnswered(r)
  \/ \E t \in BOOLEAN : Reads(t) \/ CallFails(t) \/ SubmitToken(t)
  \/ \E at \in answers : Arrives(at)
  \/ Refused
  \/ Opens \/ Authorizes \/ ClosedAsRefused \/ Dropped \/ Reconnects \/ OldSocketCloses \/ OnMessage
  \/ Close \/ Decide

Spec == Init /\ [][Next]_vars

-----------------------------------------------------------------------------
TypeOK ==
  /\ status \in [Requests -> {"none", "pending", "decided"}]
  /\ socket \in {"closed", "connecting", "asking", "trusted"}
  /\ queue \in Seq({"AUTH_OK", "event"}) /\ closing \in 0..MaxSubmits
  /\ timer \in BOOLEAN /\ connected \in BOOLEAN /\ token \in BOOLEAN /\ gate \in BOOLEAN
  /\ board = None \/ board \in 0..newest
  /\ sheet \in Requests \cup {None} /\ chain \in Requests \cup {None} /\ chains \subseteq Requests
  /\ deciding \subseteq Requests \X BOOLEAN

\* The client never gives up silently: without a socket it is going to reconnect or it asks for
\* a token; and what it calls connected is a socket the server trusts, or it is still to hear
\* of the end of one that it has left for another token (App.jsx of workflow).
NeverStuck ==
  /\ socket = "closed" => timer \/ gate
  /\ connected => socket = "trusted" \/ closing > 0

Quiet == socket = "trusted" /\ queue = <<>> /\ answers = {} /\ asked = [t \in BOOLEAN |-> 0]

\* Once everything has arrived, the board has shown what the server has now, also after the
\* socket was cut, unless a call failed; it shows something older only if an answer was overtaken.
BoardCatchesUp == Quiet /\ ~failed => newest = Changes

-----------------------------------------------------------------------------
(* Why they hold: an inductive invariant. *)

Counted ==
  /\ strict \in BOOLEAN /\ asked \in [BOOLEAN -> Nat] /\ failed \in BOOLEAN
  /\ newest \in 0..Changes /\ answers \subseteq 0..Changes \cup {None}
  /\ submits \in 0..MaxSubmits /\ closing <= submits

\* Only a trusted socket tells, and a reconnect is of one that is closed.
Linked ==
  /\ socket # "trusted" => queue = <<>>
  /\ timer => socket = "closed"
  /\ socket = "trusted" => Admitted(token)

\* A change that has not been shown is being told, asked for or answered.
ReloadIsDue ==
  socket = "trusted" /\ ~failed =>
    newest = Changes \/ Changes \in answers \/ queue # <<>> \/ asked[token] > 0

ClientInvariant == TypeOK /\ NeverStuck /\ Counted /\ Linked /\ ReloadIsDue
=============================================================================
