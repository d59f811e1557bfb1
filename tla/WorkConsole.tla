----------------------------- MODULE WorkConsole -----------------------------
(***************************************************************************)
(* The work console and the work requests of the dashboard                 *)
(* (src/src/hooks/useWorkSessions.js, useWorkRequests.js,                  *)
(* useWorkConsoleShell.js, and App.jsx, which shows one of the two).       *)
(*                                                                         *)
(* A session is what the server has of it: 0 if it does not exist, or how  *)
(* many messages it has. The socket's handlers are those of the render in  *)
(* which it was opened, so what WORK_SESSION_CREATED takes for the         *)
(* selection is the one of that moment. Answers come in any order, and     *)
(* the socket's events in theirs. Requests are told and shown as sessions  *)
(* are, without messages: a request's versions are counted like them.      *)
(***************************************************************************)
EXTENDS Naturals, Sequences, FiniteSets

CONSTANTS
  Sessions,    \* work sessions, at most SESSION_RENDER_LIMIT
  Tasks,       \* work requests, at most REQUEST_RENDER_LIMIT
  None, Asked, \* model values
  MaxChanges,  \* bound: messages of all sessions and versions of all requests
  MaxPosts,    \* bound: what the user creates, writes, closes and decides
  MaxSelects,  \* bound: sessions chosen
  MaxSockets,  \* bound: sockets opened
  MaxFailures  \* bound: calls that fail

Items == Sessions \cup Tasks

VARIABLES
  server,    \* server[i]
  shown,     \* shown[s]: the messages that are shown of a session
  listed,    \* listed[i]: what the entry of the list says of it
  selected,  \* selectedWorkSessionId
  own,       \* what it was when it was last chosen by the user or for want of a selection
  socket, queue,
  handler,   \* the selection the socket's handlers know
  early,     \* a socket was opened before anything was selected
  lists,     \* the lists the page has asked for: None, Asked, or what the server had
  detail,    \* the detail of the selected session: None, Asked or what the server had
  posts,     \* calls of the user: the item, and what the server made of it or Asked
  enabled,   \* isWorkflowEnabled: None until /health is answered
  panels,    \* which of the two panels is open
  cut,       \* an event was not told, or a call that would have shown it failed
  stale,     \* items of which an older answer was applied after a newer one
  used, failures

vars == <<server, shown, listed, selected, own, socket, queue, handler, early, lists, detail,
          posts, enabled, panels, cut, stale, used, failures>>

Nothing == [i \in Items |-> 0]

Init ==
  /\ server = Nothing /\ listed = Nothing /\ shown = [s \in Sessions |-> {}]
  /\ selected = None /\ own = None
  /\ socket = FALSE /\ queue = <<>> /\ handler = None /\ early = FALSE
  /\ lists = [sessions |-> Asked, tasks |-> None] /\ detail = None /\ posts = {}
  /\ enabled = None /\ panels \in {{}, {"console"}}
  /\ cut = FALSE /\ stale = {} /\ used = [change |-> 0, post |-> 0, select |-> 0, socket |-> 0] /\ failures = 0

link == <<socket, queue, handler, early>>
calls == <<lists, detail, posts>>
window == <<enabled, panels>>
screen == <<shown, listed, stale>>
choice == <<selected, own>>

\* The server adds a message to i, or creates it, and tells whoever is connected.
Changes(i) ==
  /\ used.change < MaxChanges /\ used' = [used EXCEPT !.change = @ + 1]
  /\ server' = [server EXCEPT ![i] = @ + 1]
  /\ queue' = IF socket THEN Append(queue, <<i, server[i] + 1>>) ELSE queue
  /\ cut' = (cut \/ ~socket)

\* An agent, a command or another operator.
Elsewhere(i) ==
  /\ Changes(i)
  /\ UNCHANGED <<screen, choice, socket, handler, early, calls, window, failures>>

-----------------------------------------------------------------------------
Connects ==
  /\ ~socket /\ used.socket < MaxSockets /\ used' = [used EXCEPT !.socket = @ + 1]
  /\ socket' = TRUE /\ handler' = selected /\ early' = (early \/ selected = None)
  /\ UNCHANGED <<server, screen, choice, queue, calls, window, cut, failures>>

Closes ==
  /\ socket /\ socket' = FALSE /\ queue' = <<>>
  /\ cut' = (cut \/ queue # <<>>)
  /\ UNCHANGED <<server, screen, choice, handler, early, calls, window, used, failures>>

\* upsertSession or upsertRequest of i as it was at version n.
Upserted(i, n) ==
  /\ listed' = [listed EXCEPT ![i] = n]
  /\ stale' = IF n < listed[i] THEN stale \cup {i} ELSE stale

\* appendMessage. Requests have no messages.
Appended(i, n) == [j \in Sessions |-> IF j = i THEN shown[j] \cup {n} ELSE shown[j]]

\* Mutant: a session that is created is selected whatever was.
OnEvent_bug ==
  /\ socket /\ queue # <<>> /\ queue' = Tail(queue)
  /\ LET i == Head(queue)[1]
         n == Head(queue)[2] IN
     /\ Upserted(i, n)
     /\ shown' = Appended(i, n)
     /\ IF i \in Sessions /\ n = 1
        THEN /\ selected' = i
             /\ own' = IF selected = None THEN i ELSE own
             /\ detail' = IF selected = i THEN detail ELSE Asked
        ELSE UNCHANGED <<choice, detail>>
  /\ UNCHANGED <<server, socket, handler, early, lists, posts, window, cut, used, failures>>

\* handleSocketEvent: the entry replaces the one of the list, the message is appended, and a
\* session that was created is selected if none was.
OnEvent ==
  /\ socket /\ queue # <<>> /\ queue' = Tail(queue)
  /\ LET i == Head(queue)[1]
         n == Head(queue)[2] IN
     /\ Upserted(i, n)
     /\ shown' = Appended(i, n)
     /\ IF i \in Sessions /\ n = 1 /\ handler = None
        THEN /\ selected' = i
             /\ own' = IF selected = None THEN i ELSE own
             /\ detail' = IF selected = i THEN detail ELSE Asked
        ELSE UNCHANGED <<choice, detail>>
  /\ UNCHANGED <<server, socket, handler, early, lists, posts, window, cut, used, failures>>

-----------------------------------------------------------------------------
\* A selection aborts the detail that was under way and asks for another.
Selects(s) ==
  /\ selected' = s /\ own' = s
  /\ detail' = IF s = selected THEN detail ELSE Asked

Select(s) ==
  /\ listed[s] > 0 /\ s # selected
  /\ used.select < MaxSelects /\ used' = [used EXCEPT !.select = @ + 1]
  /\ Selects(s)
  /\ UNCHANGED <<server, screen, link, lists, posts, window, cut, failures>>

\* The effect that selects the first session of the list.
SelectsFirst(s) ==
  /\ selected = None /\ listed[s] > 0
  /\ Selects(s)
  /\ UNCHANGED <<server, screen, link, lists, posts, window, cut, used, failures>>

ReadsDetail ==
  /\ detail = Asked /\ detail' = server[selected]
  /\ UNCHANGED <<server, screen, choice, link, lists, posts, window, cut, used, failures>>

\* The messages of the selected session are those of the answer.
DetailArrives ==
  /\ detail \notin {None, Asked} /\ detail' = None
  /\ LET s == selected IN
     /\ listed' = [listed EXCEPT ![s] = detail]
     /\ shown' = [shown EXCEPT ![s] = 1..detail]
     /\ stale' = IF detail < listed[s] THEN stale \cup {s} ELSE stale
  /\ UNCHANGED <<server, choice, link, lists, posts, window, cut, used, failures>>

-----------------------------------------------------------------------------
Kinds == [sessions |-> Sessions, tasks |-> Tasks]

\* /health: the requests are asked for only if the server has the feature.
Health(e) ==
  /\ enabled = None /\ enabled' = e
  /\ lists' = [lists EXCEPT !.tasks = IF e THEN Asked ELSE None]
  /\ UNCHANGED <<server, screen, choice, link, detail, posts, panels, cut, used, failures>>

ReadsList(k) ==
  /\ lists[k] = Asked /\ lists' = [lists EXCEPT ![k] = [i \in Kinds[k] |-> server[i]]]
  /\ UNCHANGED <<server, screen, choice, link, detail, posts, window, cut, used, failures>>

\* The list is the answer. The messages of a session are not in it.
ListArrives(k) ==
  /\ lists[k] \notin {None, Asked} /\ lists' = [lists EXCEPT ![k] = None]
  /\ listed' = [i \in Items |-> IF i \in Kinds[k] THEN lists[k][i] ELSE listed[i]]
  /\ stale' = stale \cup {i \in Kinds[k] : lists[k][i] < listed[i]}
  /\ UNCHANGED <<server, shown, choice, link, detail, posts, window, cut, used, failures>>

-----------------------------------------------------------------------------
\* createSession, createRequest; submitMessage, closeSession, decideRequest.
Post(i) ==
  /\ used.post < MaxPosts /\ used' = [used EXCEPT !.post = @ + 1]
  /\ IF i \in Sessions THEN "console" \in panels /\ (server[i] = 0 \/ i = selected)
                       ELSE "requests" \in panels /\ (server[i] = 0 \/ listed[i] > 0)
  /\ posts' = posts \cup {[item |-> i, new |-> server[i] = 0, answer |-> Asked]}
  /\ UNCHANGED <<server, screen, choice, link, lists, detail, window, cut, failures>>

Handled(p) ==
  /\ p.answer = Asked
  /\ Changes(p.item)
  /\ posts' = (posts \ {p}) \cup {[p EXCEPT !.answer = server[p.item] + 1]}
  /\ UNCHANGED <<screen, choice, socket, handler, early, lists, detail, window, failures>>

\* The answer has the item and the messages the call has made; a new session is selected.
Answered(p) ==
  /\ p.answer # Asked /\ posts' = posts \ {p}
  /\ Upserted(p.item, p.answer)
  /\ shown' = Appended(p.item, p.answer)
  /\ IF p.new /\ p.item \in Sessions THEN Selects(p.item) ELSE UNCHANGED <<choice, detail>>
  /\ UNCHANGED <<server, link, lists, window, cut, used, failures>>

\* A call fails before or after the server has acted. What was shown stays.
Fails ==
  /\ failures < MaxFailures /\ failures' = failures + 1
  /\ cut' = TRUE
  /\ \/ \E p \in posts : posts' = posts \ {p} /\ UNCHANGED <<lists, detail, enabled>>
     \/ detail # None /\ detail' = None /\ UNCHANGED <<lists, posts, enabled>>
     \/ \E k \in DOMAIN lists : lists[k] # None
          /\ lists' = [lists EXCEPT ![k] = None] /\ UNCHANGED <<detail, posts, enabled>>
     \/ enabled = None /\ enabled' = FALSE /\ UNCHANGED <<lists, detail, posts>>
  /\ UNCHANGED <<server, screen, choice, link, panels, used>>

\* handleWorkConsoleToggle and handleWorkRequestPanelToggle: opening one closes the other.
Toggle(p) ==
  /\ p = "requests" => enabled = TRUE
  /\ panels' = IF p \in panels THEN panels \ {p} ELSE {p}
  /\ UNCHANGED <<server, screen, choice, link, calls, enabled, cut, used, failures>>

Next ==
  \/ \E i \in Items : Elsewhere(i) \/ Post(i)
  \/ \E s \in Sessions : Select(s) \/ SelectsFirst(s)
  \/ \E k \in {"sessions", "tasks"} : ReadsList(k) \/ ListArrives(k)
  \/ \E p \in posts : Handled(p) \/ Answered(p)
  \/ \E e \in BOOLEAN : Health(e)
  \/ \E p \in {"console", "requests"} : Toggle(p)
  \/ Connects \/ Closes \/ OnEvent \/ ReadsDetail \/ DetailArrives \/ Fails

Spec == Init /\ [][Next]_vars

-----------------------------------------------------------------------------
TypeOK ==
  /\ server \in [Items -> 0..MaxChanges] /\ shown \in [Sessions -> SUBSET (1..MaxChanges)]
  /\ listed \in [Items -> 0..MaxChanges] /\ stale \subseteq Items
  /\ selected \in Sessions \cup {None} /\ own \in Sessions \cup {None}
  /\ handler \in Sessions \cup {None} /\ enabled \in BOOLEAN \cup {None}
  /\ panels \in {{}, {"console"}, {"requests"}} /\ cut \in BOOLEAN /\ early \in BOOLEAN

\* Nobody but the user changes the selected session, to which a message in the making is sent,
\* except that a socket opened before anything was selected selects every session created since.
SelectionIsOwn == selected # own => early

\* Once everything has arrived, the selected session shows all its messages, and the lists are
\* those of the server, unless an event could not be told, a call failed, or an answer was applied
\* that was older than what was shown.
ConsoleCatchesUp ==
  queue = <<>> /\ detail = None /\ posts = {} /\ lists = [sessions |-> None, tasks |-> None] /\ ~cut =>
    /\ \A i \in Sessions \ stale : listed[i] = server[i] /\ (i = selected => shown[i] = 1..server[i])
    /\ enabled = TRUE => \A i \in Tasks \ stale : listed[i] = server[i]

-----------------------------------------------------------------------------
(* Why they hold: an inductive invariant. *)

Told == {queue[k] : k \in DOMAIN queue}

\* What is known of an item, or on its way, is of versions it has had.
AnswersAreOld ==
  /\ used \in [{"change", "post", "select", "socket"} -> Nat] /\ used.change <= MaxChanges
  /\ \A i \in Items : server[i] \in 0..used.change /\ listed[i] \in 0..server[i]
  /\ \A s \in Sessions : shown[s] \subseteq 1..server[s]
  /\ queue \in Seq(Items \X Nat) /\ \A e \in Told : e[2] \in 1..server[e[1]]
  /\ detail \in {None, Asked} \/ detail \in 0..server[selected]
  /\ detail # None => selected \in Sessions
  /\ \A k \in {"sessions", "tasks"} :
       lists[k] \in {None, Asked} \/ \A i \in Kinds[k] : lists[k][i] \in 0..server[i]
  /\ \A p \in posts : p.item \in Items /\ (p.answer = Asked \/ p.answer \in 1..server[p.item])

\* Each version is shown or on its way, and nothing is shown that the list does not know.
NothingIsLost ==
  ~cut =>
    /\ \A i \in Items \ stale : \A n \in 1..server[i] : n <= listed[i] \/ <<i, n>> \in Told
    /\ \A s \in Sessions \ stale : \A n \in 1..server[s] : n \in shown[s] \/ <<s, n>> \in Told
    /\ \A s \in Sessions \ stale : \A n \in shown[s] : n <= listed[s]

ConsoleInvariant ==
  /\ TypeOK /\ AnswersAreOld /\ NothingIsLost /\ SelectionIsOwn
  /\ socket /\ handler = None => early
=============================================================================
