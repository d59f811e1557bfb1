------------------------------ MODULE OpsPanels ------------------------------
(***************************************************************************)
(* The panels of the dashboard that show what the approval server keeps    *)
(* (src/src/hooks: useAgentRegistry, useAutoApproveOps,                    *)
(* useProjectRegistryOps, useApprovalHistory), one of them at a time: they *)
(* share only the socket, and each reacts to events of its own.            *)
(*                                                                         *)
(* What the server keeps is a number of changes, and what a panel shows is *)
(* the set of those it has read. The handlers of the socket are those of   *)
(* the render in which it was opened (useMaestroRealtime.js,               *)
(* connectWebSocket): what they know of the panel stays as it was then.    *)
(* Answers come in any order. The server's address does not change.        *)
(***************************************************************************)
EXTENDS Naturals, Sequences, FiniteSets

CONSTANTS
  MaxChanges,  \* bound: changes of what the server keeps
  MaxSockets,  \* bound: sockets opened
  MaxFailures, \* bound: calls that fail
  MaxActs,     \* bound: times the panel is opened or closed, or its token is changed
  MaxAsked     \* bound: calls at a time for another poll to begin

Panels == {"agents", "auto", "projects", "history"}
Refused == 0 - 1

VARIABLES
  panel,    \* which one it is
  strict,   \* the server asks for a token
  changes,  \* of what the server keeps
  token,    \* the panel has the token
  open,     \* it is shown; the agents are part of the work console
  socket,   \* whether there is one
  queue,    \* the changes it is being told of
  handler,  \* what the socket's handler knows: whether the panel is open, and its token
  asked,    \* asked[t]: calls made with token t that the server has not read
  answers,  \* answers on their way: the changes when it was read, or Refused
  timer,    \* debounced refreshes: {} or the token of the refresh
  shown,    \* the changes the panel shows
  locked,   \* the panel says that a token is needed
  missed,   \* since the panel was last refreshed of itself, a change happened that no handler heard
  failed,   \* since it last asked, a call has failed or was refused
  seen,     \* every change it has ever shown
  failures, sockets, acts

vars == <<panel, strict, changes, token, open, socket, queue, handler, asked, answers, timer, shown,
          locked, missed, failed, seen, failures, sockets, acts>>

calls == <<asked, answers, failed, failures>>
display == <<shown, seen>>
link == <<socket, queue, handler, sockets>>
view == <<open, token, acts>>
fixed == <<panel, strict>>

Admitted(t) == ~strict \/ t \/ panel = "history"

Ask(t) == asked' = [asked EXCEPT ![t] = @ + 1] /\ failed' = FALSE
AsksNothing == UNCHANGED <<asked, failed>>
Shows(what) == shown' = what /\ seen' = seen \cup what

\* The history and the projects are read when the page is loaded, the agents if their console
\* was open when it was last closed.
Init ==
  /\ panel \in Panels /\ strict \in BOOLEAN /\ token \in BOOLEAN
  /\ open \in {FALSE} \cup (IF panel = "agents" THEN {TRUE} ELSE {})
  /\ changes = 0 /\ socket = FALSE /\ queue = <<>> /\ handler = [open |-> FALSE, token |-> FALSE]
  /\ asked = [t \in BOOLEAN |->
                IF t = token /\ (panel \in {"history", "projects"} \/ open) THEN 1 ELSE 0]
  /\ answers = {} /\ timer = {} /\ shown = {} /\ locked = FALSE /\ missed = FALSE /\ failed = FALSE
  /\ seen = {} /\ failures = 0 /\ sockets = 0 /\ acts = 0

-----------------------------------------------------------------------------
\* Something happens on the server and its sockets are told.
Happens ==
  /\ changes < MaxChanges /\ changes' = changes + 1
  /\ queue' = IF socket THEN Append(queue, changes + 1) ELSE queue
  /\ missed' = (missed \/ ~socket)
  /\ UNCHANGED <<fixed, view, socket, handler, sockets, calls, timer, display, locked>>

\* An agent registers or reports, or a project is registered and not selected: no event.
HappensUntold ==
  /\ panel \in {"agents", "projects"}
  /\ changes < MaxChanges /\ changes' = changes + 1
  /\ missed' = TRUE
  /\ UNCHANGED <<fixed, view, link, calls, timer, display, locked>>

\* connectWebSocket takes the handlers of this render.
Connects ==
  /\ ~socket /\ sockets < MaxSockets /\ sockets' = sockets + 1
  /\ socket' = TRUE /\ handler' = [open |-> open, token |-> token]
  /\ UNCHANGED <<fixed, changes, view, queue, calls, timer, display, locked, missed>>

\* It is closed, by the user or not, and not opened again by itself.
Closes ==
  /\ socket /\ socket' = FALSE /\ queue' = <<>>
  /\ missed' = (missed \/ queue # <<>>)
  /\ UNCHANGED <<fixed, changes, view, handler, sockets, calls, timer, display, locked>>

Received == socket /\ queue # <<>> /\ queue' = Tail(queue)

\* useAgentRegistry: an event about a request refreshes the agents at once, if they are shown.
AgentEvent ==
  /\ panel = "agents" /\ Received
  /\ IF handler.open THEN Ask(handler.token) /\ UNCHANGED missed
                     ELSE AsksNothing /\ missed' = TRUE
  /\ UNCHANGED <<fixed, changes, view, socket, handler, sockets, answers, failures, timer, display, locked>>

\* Mutant: an event cancels the refresh that was due and schedules none.
AutoEvent_bug ==
  /\ panel = "auto" /\ Received
  /\ IF handler.open THEN timer' = (IF timer = {} THEN {handler.token} ELSE {}) /\ UNCHANGED missed
                     ELSE missed' = TRUE /\ UNCHANGED timer
  /\ UNCHANGED <<fixed, changes, view, socket, handler, sockets, calls, display, locked>>

\* useAutoApproveOps: it refreshes the panel a little later, once for several events.
AutoEvent ==
  /\ panel = "auto" /\ Received
  /\ IF handler.open THEN timer' = {handler.token} /\ UNCHANGED missed
                     ELSE missed' = TRUE /\ UNCHANGED timer
  /\ UNCHANGED <<fixed, changes, view, socket, handler, sockets, calls, display, locked>>

\* useProjectRegistryOps: PROJECT_SWITCHED and PROJECT_UPDATED carry the current project; the
\* list comes with the refresh.
ProjectEvent ==
  /\ panel = "projects" /\ Received
  /\ Shows(1..Head(queue))
  /\ timer' = {handler.token}
  /\ UNCHANGED <<fixed, changes, view, socket, handler, sockets, calls, locked, missed>>

\* useApprovalHistory: HISTORY_APPEND carries the entry, which is shown once.
HistoryEvent ==
  /\ panel = "history" /\ Received
  /\ Shows(shown \cup {Head(queue)})
  /\ UNCHANGED <<fixed, changes, view, socket, handler, sockets, calls, timer, locked, missed>>

TimerFires(t) ==
  /\ t \in timer /\ timer' = {}
  /\ Ask(t)
  /\ UNCHANGED <<fixed, changes, view, link, answers, failures, display, locked, missed>>

-----------------------------------------------------------------------------
Acts == acts < MaxActs /\ acts' = acts + 1

\* What the effects of opening a panel do.
OpeningAsks == panel # "history"

\* The panel is opened or closed.
Toggle ==
  /\ Acts /\ open' = ~open
  /\ IF open' /\ OpeningAsks THEN Ask(token) ELSE AsksNothing
  /\ missed' = (missed /\ ~(open' /\ panel # "history"))
  /\ UNCHANGED <<fixed, changes, token, link, answers, failures, timer, display, locked>>

\* The interval of an open panel.
Poll ==
  /\ panel \in {"agents", "auto"} /\ open /\ asked[token] < MaxAsked
  /\ Ask(token) /\ missed' = FALSE
  /\ UNCHANGED <<fixed, changes, view, link, answers, failures, timer, display, locked>>

\* saveProjectToken and clearProjectToken refresh the projects, and the same of the automatic
\* approvals if that panel is open. The agents keep the token the page was loaded with.
SetToken(t) ==
  /\ panel \in {"auto", "projects"} /\ t # token
  /\ Acts /\ token' = t
  /\ IF panel = "projects" \/ open THEN Ask(t) /\ missed' = FALSE ELSE AsksNothing /\ UNCHANGED missed
  /\ UNCHANGED <<fixed, changes, open, link, answers, failures, timer, display, locked>>

\* applySelectedProject, updateSelectedProjectLaneCount and registerProject: the server's part.
\* Its answer carries all projects, as that of a refresh.
Applies ==
  /\ panel = "projects" /\ open /\ Admitted(token)
  /\ changes < MaxChanges /\ changes' = changes + 1
  /\ queue' = IF socket THEN Append(queue, changes + 1) ELSE queue
  /\ missed' = (missed \/ ~socket)
  /\ answers' = answers \cup {changes + 1}
  /\ UNCHANGED <<fixed, view, socket, handler, sockets, asked, failed, failures, timer, display, locked>>

-----------------------------------------------------------------------------
\* GET /api/agents, /api/auto-approve/..., /api/projects or /api/history.
Reads(t) ==
  /\ asked[t] > 0 /\ asked' = [asked EXCEPT ![t] = @ - 1]
  /\ answers' = answers \cup {IF Admitted(t) THEN changes ELSE Refused}
  /\ UNCHANGED <<fixed, changes, view, link, failed, failures, timer, display, locked, missed>>

\* What is shown is what the answer says, whatever was shown before.
Arrives(at) ==
  /\ at # Refused /\ answers' = answers \ {at}
  /\ Shows(1..at) /\ locked' = FALSE
  /\ UNCHANGED <<fixed, changes, view, link, asked, failed, failures, timer, missed>>

Locks ==
  /\ Refused \in answers /\ answers' = answers \ {Refused}
  /\ locked' = TRUE /\ failed' = TRUE
  /\ UNCHANGED <<fixed, changes, view, link, asked, failures, timer, display, missed>>

\* The error is shown, and what was shown stays.
CallFails(t) ==
  /\ failures < MaxFailures /\ failures' = failures + 1
  /\ asked[t] > 0 /\ asked' = [asked EXCEPT ![t] = @ - 1]
  /\ failed' = TRUE
  /\ UNCHANGED <<fixed, changes, view, link, answers, timer, display, locked, missed>>

Next ==
  \/ Happens \/ HappensUntold \/ Connects \/ Closes
  \/ AgentEvent \/ AutoEvent \/ ProjectEvent \/ HistoryEvent
  \/ Toggle \/ Poll \/ Applies \/ Locks
  \/ \E t \in BOOLEAN : SetToken(t) \/ TimerFires(t) \/ Reads(t) \/ CallFails(t)
  \/ \E at \in answers : Arrives(at)

Spec == Init /\ [][Next]_vars

-----------------------------------------------------------------------------
TypeOK ==
  /\ panel \in Panels /\ strict \in BOOLEAN /\ changes \in 0..MaxChanges
  /\ token \in BOOLEAN /\ open \in BOOLEAN /\ socket \in BOOLEAN
  /\ queue \in Seq(1..MaxChanges) /\ handler \in [open : BOOLEAN, token : BOOLEAN]
  /\ timer \subseteq BOOLEAN /\ shown \subseteq 1..MaxChanges
  /\ locked \in BOOLEAN /\ missed \in BOOLEAN /\ failed \in BOOLEAN

Settled == queue = <<>> /\ timer = {} /\ answers = {} /\ asked = [t \in BOOLEAN |-> 0]

\* A panel that is open, the projects and the history have shown what the server has once all
\* calls are answered, unless no handler was told (there was no socket, or it was opened while
\* the panel was closed) and the panel has not refreshed itself since, or the last call failed
\* or was refused. (They show something older if an answer was overtaken by a newer one.)
PanelsCatchUp ==
  Settled /\ (open \/ panel \in {"projects", "history"}) /\ ~missed /\ ~failed => seen = 1..changes

-----------------------------------------------------------------------------
(* Why it holds: an inductive invariant. *)

Counted ==
  /\ asked \in [BOOLEAN -> Nat] /\ answers \subseteq 0..changes \cup {Refused}
  /\ shown \subseteq 1..changes /\ seen \subseteq 1..changes /\ queue \in Seq(1..changes)
  /\ timer # {} => panel \in {"auto", "projects"}

Watches == (open \/ panel \in {"projects", "history"}) /\ ~missed /\ ~failed
Asking == \E t \in BOOLEAN : asked[t] > 0

\* A panel that refreshes itself has seen all, or there is something to refresh it.
RefreshIsDue ==
  panel # "history" /\ Watches =>
    \/ seen = 1..changes \/ changes \in answers \/ Refused \in answers
    \/ timer # {} \/ queue # <<>> \/ Asking

\* Of each change that the history has not shown it is going to be told.
NothingUnheard ==
  panel = "history" /\ Watches =>
    \A c \in 1..changes :
      \/ c \in seen
      \/ \E i \in DOMAIN queue : queue[i] = c
      \/ \E at \in answers : at >= c
      \/ Asking

PanelInvariant == TypeOK /\ Counted /\ RefreshIsDue /\ NothingUnheard
=============================================================================
