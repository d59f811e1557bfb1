----------------------------- MODULE WorkStore -----------------------------
(***************************************************************************)
(* Work sessions, their messages and commands, and work requests of        *)
(* maestro-server.js: three maps in memory and one file for all of them.   *)
(*                                                                         *)
(* A handler is a list of steps. Each changes memory, prunes, and writes   *)
(* the whole file before the next one starts. The write may throw: memory  *)
(* keeps the change, the file does not, and the rest of the handler is     *)
(* skipped. Only then is the caller answered. A `try` around the handler   *)
(* turns the error into a 400; the handler that closes a session has none, *)
(* and the error ends the process.                                         *)
(*                                                                         *)
(* Steps happen in different milliseconds, so times order them; the write  *)
(* itself is taken to be atomic.                                           *)
(***************************************************************************)
EXTENDS Naturals, FiniteSets, Sequences

CONSTANTS
  Sessions, Requests,  \* the ids handed out, never the same one twice
  Verdicts,            \* the states WORK_REQUEST_DECISION_STATE leads to, those used here
  MaxClosed,           \* WORK_SESSION_MAX_ITEMS
  MaxMessages,         \* WORK_MESSAGE_MAX_ITEMS
  MaxRequests,         \* WORK_REQUEST_MAX_ITEMS
  MaxTime,             \* bound: steps with a time of their own
  MaxFailures,         \* bound: writes that throw
  MaxCrashes           \* bound: crashes of the process

ASSUME IdsAreDistinct == Sessions \cap Requests = {} /\ IsFiniteSet(Sessions \cup Requests)
ASSUME VerdictsAreStates == Verdicts \subseteq {"request_approved", "request_rejected", "cancelled"}
ASSUME LimitsArePositive ==
  /\ MaxClosed \in Nat \ {0} /\ MaxMessages \in Nat \ {0} /\ MaxRequests \in Nat \ {0}
  /\ MaxTime \in Nat /\ MaxFailures \in Nat /\ MaxCrashes \in Nat

VARIABLES
  up,        \* the process runs
  mem,       \* the three maps
  file,      \* .maestro-workflows.json
  job,       \* what the running handler has still to do
  time,      \* the clock
  used,      \* ids handed out so far
  told,      \* what callers were told has become of a session or a request, and was saved
  toldUnsaved, \* what they were told of memory while the file is behind it
  unsaved,   \* the last write failed, and memory is ahead of the file
  cut,       \* the sessions and requests whose handler, some time, has not run to its end
  failures, crashes

vars == <<up, mem, file, job, time, used, told, toldUnsaved, unsaved, cut, failures, crashes>>

-----------------------------------------------------------------------------
(* The values *)

Terminal == {"completed"}
Kinds == {"message", "command", "command_result", "status"}
Message == [createdAt : Nat, kind : Kinds]

Maps == [status : [Sessions -> {"absent", "active"} \cup Terminal],
         updatedAt : [Sessions -> Nat],
         lastMessageAt : [Sessions -> Nat],
         messages : [Sessions -> Seq(Message)],
         request : [Requests -> {"absent", "submitted"} \cup Verdicts],
         createdAt : [Requests -> Nat]]

NoMaps == [status |-> [s \in Sessions |-> "absent"],
          updatedAt |-> [s \in Sessions |-> 0],
          lastMessageAt |-> [s \in Sessions |-> 0],
          messages |-> [s \in Sessions |-> <<>>],
          request |-> [r \in Requests |-> "absent"],
          createdAt |-> [r \in Requests |-> 0]]

Step ==
  [do : {"create", "close"}, id : Sessions] \cup [do : {"append"}, id : Sessions, kind : Kinds]
  \cup [do : {"submit"}, id : Requests] \cup [do : {"decide"}, id : Requests, verdict : Verdicts]

Idle == [steps |-> <<>>, id |-> {}, caught |-> TRUE]
Job == [steps : Seq(Step), id : SUBSET (Sessions \cup Requests), caught : BOOLEAN]

\* What is to be known of a session or a request: its state.
StateOf(m, x) == IF x \in Sessions THEN m.status[x] ELSE m.request[x]
Final(x) == IF x \in Sessions THEN Terminal ELSE Verdicts
Outcome == [of : Sessions, is : Terminal] \cup [of : Requests, is : Verdicts]

-----------------------------------------------------------------------------
(* Pruning. An operator X_bug is X with a plausible bug; no specification uses one.        *)

Closed(m) == {s \in Sessions : m.status[s] \in Terminal}

\* Closed sessions but the MaxClosed updated last.
Surplus_bug(m) == {s \in Closed(m) :
  Cardinality({t \in Closed(m) : m.updatedAt[t] < m.updatedAt[s]}) >= MaxClosed}
Surplus_bug2(m) == {s \in Sessions : m.status[s] # "absent" /\
  Cardinality({t \in Sessions : m.updatedAt[t] > m.updatedAt[s]}) >= MaxClosed}
Surplus(m) == {s \in Closed(m) :
                 Cardinality({t \in Closed(m) : m.updatedAt[t] > m.updatedAt[s]}) >= MaxClosed}

WithoutSessions(m, gone) ==
  [m EXCEPT !.status = [s \in Sessions |-> IF s \in gone THEN "absent" ELSE m.status[s]],
            !.updatedAt = [s \in Sessions |-> IF s \in gone THEN 0 ELSE m.updatedAt[s]],
            !.lastMessageAt = [s \in Sessions |-> IF s \in gone THEN 0 ELSE m.lastMessageAt[s]],
            !.messages = [s \in Sessions |-> IF s \in gone THEN <<>> ELSE m.messages[s]]]

PruneSessions_bug(m) ==
  [WithoutSessions(m, Surplus(m)) EXCEPT !.messages = m.messages]
PruneSessions(m) == WithoutSessions(m, Surplus(m))

Submitted(m) == {r \in Requests : m.request[r] # "absent"}

\* All but the MaxRequests created last, decided or not.
SurplusRequests(m) ==
  {r \in Submitted(m) :
     Cardinality({q \in Submitted(m) : m.createdAt[q] > m.createdAt[r]}) >= MaxRequests}

PruneRequests(m) ==
  LET gone == SurplusRequests(m) IN
  [m EXCEPT !.request = [r \in Requests |-> IF r \in gone THEN "absent" ELSE m.request[r]],
            !.createdAt = [r \in Requests |-> IF r \in gone THEN 0 ELSE m.createdAt[r]]]

-----------------------------------------------------------------------------
(* The steps of handlers, on the maps *)

Ring(list) ==
  IF Len(list) > MaxMessages THEN SubSeq(list, Len(list) - MaxMessages + 1, Len(list)) ELSE list

CreateSession(m, s, t) ==
  PruneSessions([m EXCEPT !.status[s] = "active", !.updatedAt[s] = t])

\* updateWorkSession and appendWorkMessage do nothing for a session that is not there.
CloseSession(m, s, t) ==
  IF m.status[s] = "absent" THEN m ELSE
  PruneSessions([m EXCEPT !.status[s] = "completed", !.updatedAt[s] = t])

AppendMessage(m, s, kind, t) ==
  IF m.status[s] = "absent" THEN m ELSE
  PruneSessions([m EXCEPT !.messages[s] = Ring(Append(@, [createdAt |-> t, kind |-> kind])),
                          !.updatedAt[s] = t, !.lastMessageAt[s] = t])

SubmitRequest_bug(m, r, t) == [m EXCEPT !.request[r] = "submitted", !.createdAt[r] = t]
SubmitRequest(m, r, t) ==
  PruneRequests([m EXCEPT !.request[r] = "submitted", !.createdAt[r] = t])

DecideRequest_bug(m, r, verdict) == [m EXCEPT !.request[r] = "decided"]
DecideRequest(m, r, verdict) == [m EXCEPT !.request[r] = verdict]

After(m, step, t) ==
  CASE step.do = "create" -> CreateSession(m, step.id, t)
    [] step.do = "close"  -> CloseSession(m, step.id, t)
    [] step.do = "append" -> AppendMessage(m, step.id, step.kind, t)
    [] step.do = "submit" -> SubmitRequest(m, step.id, t)
    [] step.do = "decide" -> DecideRequest(m, step.id, step.verdict)

-----------------------------------------------------------------------------
(* Calls: each hands its steps to the handler *)

Call(steps, id, caught) ==
  /\ up /\ job = Idle
  /\ time + Len(steps) <= MaxTime
  /\ job' = [steps |-> steps, id |-> {id}, caught |-> caught]
  /\ UNCHANGED <<up, mem, file, time, told, toldUnsaved, unsaved, cut, failures, crashes>>

Appends(s, kind) == [do |-> "append", id |-> s, kind |-> kind]
Closes(s) == [do |-> "close", id |-> s]

\* POST /api/work-sessions.
NewSession(s) ==
  /\ s \notin used
  /\ used' = used \cup {s}
  /\ Call(<<[do |-> "create", id |-> s], Appends(s, "status")>>, s, TRUE)

\* POST .../messages with a body that is no command, by an operator or an agent.
PostMessage(s) ==
  /\ mem.status[s] # "absent"
  /\ Call(<<Appends(s, "message")>>, s, TRUE)
  /\ UNCHANGED used

\* A command is recorded, obeyed, and answered in the session. /status, /ask and unknown
\* ones change nothing; so does closing what is closed.
CommandSteps_bug(s, close) ==
  IF close /\ mem.status[s] \notin Terminal
  THEN <<Appends(s, "command"), Closes(s), Appends(s, "status")>>
  ELSE <<Appends(s, "command"), Appends(s, "command_result")>>
CommandSteps(s, close) ==
  IF close /\ mem.status[s] \notin Terminal
  THEN <<Appends(s, "command"), Closes(s), Appends(s, "status"), Appends(s, "command_result")>>
  ELSE <<Appends(s, "command"), Appends(s, "command_result")>>

PostCommand(s, close) ==
  /\ mem.status[s] # "absent"
  /\ Call(CommandSteps(s, close), s, TRUE)
  /\ UNCHANGED used

\* POST .../close. A closed session is "closed" again; nothing catches an error.
PostClose(s) ==
  /\ mem.status[s] # "absent"
  /\ Call(<<Closes(s), Appends(s, "status")>>, s, FALSE)
  /\ UNCHANGED used

\* POST /api/work-requests.
PostRequest(r) ==
  /\ r \notin used
  /\ used' = used \cup {r}
  /\ Call(<<[do |-> "submit", id |-> r]>>, r, TRUE)

\* Whether decideWorkRequest goes on, or answers 404 or 409.
MayDecide_bug(r) == mem.request[r] # "absent"
MayDecide(r) == mem.request[r] = "submitted"

\* POST /api/work-requests/:id/decision, of a request that is still open.
PostDecision(r, verdict) ==
  /\ MayDecide(r)
  /\ Call(<<[do |-> "decide", id |-> r, verdict |-> verdict]>>, r, TRUE)
  /\ UNCHANGED used

-----------------------------------------------------------------------------
(* What is told *)

\* The states of these that will not change again. What is in memory only is kept apart: it is
\* what a process that ends now forgets.
Tell(ids) ==
  LET news == {[of |-> x, is |-> StateOf(mem, x)] :
                x \in {y \in ids : StateOf(mem, y) \in Final(y)}}
  IN  IF unsaved THEN toldUnsaved' = toldUnsaved \cup news /\ UNCHANGED told
      ELSE told' = told \cup news /\ UNCHANGED toldUnsaved

Tells(ids) ==
  /\ up /\ job = Idle /\ \E x \in ids : StateOf(mem, x) \in Final(x)
  /\ Tell(ids)
  /\ UNCHANGED <<up, mem, file, job, time, used, unsaved, cut, failures, crashes>>

\* GET of a session or a request; the lists tell of several of them.
Read(x) == Tells({x})

\* POST .../decision of a decided request: 409 WORK_REQUEST_ALREADY_DECIDED. It does not say which
\* decision; it is counted as if it did.
RefuseDecision(r) == ~MayDecide(r) /\ Tells({r})

-----------------------------------------------------------------------------
(* The handler goes on *)

\* What the write leaves on disk.
Stored_bug(m) == mem
Stored(m) == m

\* A step, and its write succeeds.
Saves ==
  /\ up /\ job.steps # <<>>
  /\ mem' = After(mem, Head(job.steps), time + 1)
  /\ file' = Stored(mem')
  /\ job' = [job EXCEPT !.steps = Tail(@)]
  /\ time' = time + 1
  /\ unsaved' = FALSE
  /\ told' = told \cup toldUnsaved /\ toldUnsaved' = {}
  /\ UNCHANGED <<up, used, cut, failures, crashes>>

\* A step, and its write throws into the handler's catch.
SaveFails ==
  /\ up /\ job.steps # <<>> /\ job.caught /\ failures < MaxFailures
  /\ mem' = After(mem, Head(job.steps), time + 1)
  /\ time' = time + 1
  /\ job' = Idle
  /\ unsaved' = TRUE /\ cut' = cut \cup job.id
  /\ failures' = failures + 1
  /\ UNCHANGED <<up, file, used, told, toldUnsaved, crashes>>

\* A step, and its write throws out of the handler: the process exits.
SaveKills ==
  /\ up /\ job.steps # <<>> /\ ~job.caught /\ failures < MaxFailures
  /\ up' = FALSE
  /\ mem' = NoMaps /\ job' = Idle
  /\ toldUnsaved' = {}
  /\ cut' = cut \cup job.id
  /\ failures' = failures + 1
  /\ UNCHANGED <<file, time, used, told, unsaved, crashes>>

\* All is saved. The dashboards and the caller are told what it is now.
Answer ==
  /\ up /\ job # Idle /\ job.steps = <<>>
  /\ Tell(job.id)
  /\ job' = Idle
  /\ UNCHANGED <<up, mem, file, time, used, unsaved, cut, failures, crashes>>

Crash ==
  /\ up /\ crashes < MaxCrashes
  /\ up' = FALSE
  /\ mem' = NoMaps /\ job' = Idle
  /\ toldUnsaved' = {}
  /\ cut' = IF job.steps # <<>> THEN cut \cup job.id ELSE cut
  /\ crashes' = crashes + 1
  /\ UNCHANGED <<file, time, used, told, unsaved, failures>>

\* loadWorkflowStore: messages of sessions that are not there are skipped.
Loaded(f) ==
  PruneRequests(PruneSessions(
    [f EXCEPT !.messages = [s \in Sessions |-> IF f.status[s] = "absent" THEN <<>>
                                               ELSE Ring(f.messages[s])]]))

Start ==
  /\ ~up
  /\ up' = TRUE
  /\ mem' = Loaded(file)
  /\ unsaved' = FALSE
  /\ UNCHANGED <<file, job, time, used, told, toldUnsaved, cut, failures, crashes>>

Init ==
  /\ up = TRUE
  /\ mem = NoMaps /\ file = NoMaps
  /\ job = Idle
  /\ time = 0
  /\ used = {} /\ told = {} /\ toldUnsaved = {}
  /\ unsaved = FALSE /\ cut = {}
  /\ failures = 0 /\ crashes = 0

Next ==
  \/ \E s \in Sessions : NewSession(s) \/ PostMessage(s) \/ PostClose(s)
  \/ \E s \in Sessions, close \in BOOLEAN : PostCommand(s, close)
  \/ \E r \in Requests : PostRequest(r)
  \/ \E r \in Requests, verdict \in Verdicts : PostDecision(r, verdict)
  \/ \E x \in Sessions \cup Requests : Read(x)
  \/ \E r \in Requests : RefuseDecision(r)
  \/ Saves \/ SaveFails \/ SaveKills \/ Answer
  \/ Crash \/ Start

Spec == Init /\ [][Next]_vars

-----------------------------------------------------------------------------
(* Properties *)

TypeOK ==
  /\ up \in BOOLEAN
  /\ mem \in Maps /\ file \in Maps
  /\ job \in Job
  /\ time \in Nat
  /\ used \subseteq Sessions \cup Requests
  /\ told \subseteq Outcome /\ toldUnsaved \subseteq Outcome
  /\ unsaved \in BOOLEAN /\ cut \subseteq Sessions \cup Requests
  /\ failures \in Nat /\ crashes \in Nat

\* What a caller or a dashboard was told to be closed or decided, by an answer, an event, a read or
\* a refusal, is so in memory and in the file for as long as it is kept: no failed write, crash or
\* later call changes it. What was read after a failed write (GET tells what is in memory only) is
\* so in memory until the next write saves it with all the rest; if the process ends before, it is
\* forgotten, and nothing is said of it.
ToldIsKept ==
  /\ \A o \in told :
       /\ StateOf(file, o.of) \in {o.is, "absent"}
       /\ up => StateOf(mem, o.of) \in {o.is, "absent"}
  /\ \A o \in toldUnsaved : up /\ StateOf(mem, o.of) \in {o.is, "absent"}

\* A list of messages belongs to a session that is kept, is within its limit, in order of time,
\* and its last message is the one the session names (appendWorkMessage, pruneClosedWorkSessions).
MessagesFit(m) ==
  \A s \in Sessions :
    LET list == m.messages[s] IN
    /\ m.status[s] = "absent" => list = <<>>
    /\ Len(list) <= MaxMessages
    /\ \A i, j \in DOMAIN list : i < j => list[i].createdAt < list[j].createdAt
    /\ list # <<>> => /\ list[Len(list)].createdAt = m.lastMessageAt[s]
                      /\ m.lastMessageAt[s] <= m.updatedAt[s]
Consistent == MessagesFit(mem) /\ MessagesFit(file)

\* Once a handler is done, the file is what memory is, unless the last write failed.
MemoryIsSaved == up /\ job.steps = <<>> /\ ~unsaved => file = mem

\* The command at i has its result before there is another command.
HasResult(list, i) ==
  \E j \in DOMAIN list : /\ i < j /\ list[j].kind = "command_result"
                         /\ \A k \in i+1..j : list[k].kind # "command"
Answered(list) == \A i \in DOMAIN list : list[i].kind = "command" => HasResult(list, i)

\* Between handlers, each command on disk is followed by its result before there is another
\* command, in every session none of whose own handlers was cut off, by a crash or a failed write:
\* what is cut off in one session leaves the others whole.
CommandsAnswered == job.steps = <<>> => \A s \in Sessions \ cut : Answered(file.messages[s])

\* A session that is created is a new one, and so is a request; a request that is being decided
\* was not decided before. Only a handler's first step can be one of these.
StepsAreNew ==
  \A i \in DOMAIN job.steps : LET step == job.steps[i] IN
    /\ step.do \in {"create", "submit"} => i = 1 /\ \A o \in told \cup toldUnsaved : o.of # step.id
    /\ step.do = "decide" => i = 1 /\ mem.request[step.id] = "submitted"

\* Only ids that were handed out are in the maps, in the running handler, or were told.
KnownIds ==
  /\ \A x \in Sessions \cup Requests :
       StateOf(mem, x) # "absent" \/ StateOf(file, x) # "absent" => x \in used
  /\ job.id \subseteq used /\ \A i \in DOMAIN job.steps : job.steps[i].id \in job.id
  /\ \A o \in told \cup toldUnsaved : o.of \in used

\* The maps need no pruning: what is loaded is what was saved.
Tidy(m) ==
  /\ Surplus(m) = {} /\ SurplusRequests(m) = {}
  /\ \A s \in Sessions : /\ Len(m.messages[s]) <= MaxMessages
                         /\ m.status[s] = "absent" => m.messages[s] = <<>>

\* Inductive: ToldIsKept and MemoryIsSaved hold because the handlers that make something new make
\* it only once, callers are answered after the last write, and what is written is tidy.
StoreInv ==
  /\ ToldIsKept /\ MemoryIsSaved /\ StepsAreNew /\ KnownIds
  /\ Tidy(mem) /\ Tidy(file)
  /\ \A s \in Sessions : mem.updatedAt[s] <= time /\ file.updatedAt[s] <= time
  /\ job # Idle => up /\ (job.steps = <<>> => file = mem /\ ~unsaved)

\* The last command may still be without its result.
AnsweredButLast(list) ==
  \A i \in DOMAIN list : list[i].kind = "command" =>
    HasResult(list, i) \/ \A k \in DOMAIN list : i < k => list[k].kind # "command"

IsCommand(step) == step.do = "append" /\ step.kind = "command"
Brings(steps, s) == steps # <<>> /\ steps[Len(steps)] = Appends(s, "command_result")

\* A command is a handler's first step and its result the last; between the two, only that
\* session's last command is without a result, and the file of all others is complete.
ResultsFollow ==
  /\ \A i \in DOMAIN job.steps : IsCommand(job.steps[i]) =>
       i = 1 /\ Len(job.steps) > 1 /\ Brings(job.steps, job.steps[i].id)
  /\ \A s \in Sessions \ cut :
       /\ up => \/ Answered(mem.messages[s])
                \/ AnsweredButLast(mem.messages[s]) /\ Brings(job.steps, s) /\ ~IsCommand(job.steps[1])
       /\ s \notin job.id \/ job.steps = <<>> => Answered(file.messages[s])

\* Inductive with StoreInv: Consistent and CommandsAnswered, and pruning by age, rest on times
\* that only grow and on handlers that end with what they owe.
ListsInv ==
  /\ Consistent
  /\ \A r \in Requests : mem.createdAt[r] <= time /\ file.createdAt[r] <= time
  /\ ResultsFollow

\* No session is dropped while it is open, by whatever happens to others, and none that the file
\* holds is missing after a restart.
OpenSessionsSurvive ==
  [][\A s \in Sessions :
       \/ up /\ up' /\ mem.status[s] = "active"
       \/ ~up /\ up' /\ file.status[s] = "active"
       => mem'.status[s] # "absent"]_vars

\* What the running server drops is what was changed, or created, longest ago: as many as the
\* limit allows remain, all of them newer.
OldestGoFirst ==
  [][up /\ up' =>
       /\ \A s \in Sessions : mem.status[s] # "absent" /\ mem'.status[s] = "absent" =>
            Cardinality({t \in Closed(mem') : mem'.updatedAt[t] > mem.updatedAt[s]}) = MaxClosed
       /\ \A r \in Requests : mem.request[r] # "absent" /\ mem'.request[r] = "absent" =>
            Cardinality({q \in Submitted(mem') : mem'.createdAt[q] > mem.createdAt[r]}) = MaxRequests]_vars

=============================================================================
