----------------------------- MODULE AgentTokens -----------------------------
(***************************************************************************)
(* Agents, their tokens and the endpoints they guard (maestro-server.js:   *)
(* registerAgent, resolveAgentAuth and the /api/agents,                    *)
(* /api/approval-requests and /api/approval-decisions handlers).           *)
(*                                                                         *)
(* A token is its number in `issued`. A handler with a body is authorized  *)
(* when its head arrives and acts when the body has. Whether a save fails  *)
(* is a choice: persistAgentStore logs the error and its callers go on.    *)
(* Agent ids are kept at up to 80 characters, the agent of a request at    *)
(* up to 64: `Long` are the agents whose id the second limit cuts.         *)
(***************************************************************************)
EXTENDS Naturals, Sequences, FiniteSets

CONSTANTS
  Agents,       \* agent ids
  Long,         \* those longer than 64 characters
  Cut, Unknown, \* what such an id is cut to, and "unknown_agent"
  Requests,     \* ids of approval requests
  Server,       \* MAESTRO_SERVER_TOKEN, and whoever presents it
  None,         \* null, "not in the map"
  MaxTokens,    \* bound: tokens issued
  MaxCalls,     \* bound: calls that await their body at a time
  MaxFailures,  \* bound: saves that fail
  MaxCrashes    \* bound: crashes of the server

VARIABLES
  up,        \* the process runs
  setup,     \* "open": no server token; "grace"; "enforce": AGENT_AUTH_ENFORCE
  mem,       \* agentsById, approvalRequestsById and the ids of approvalDecisionsByRequestId
  file,      \* .maestro-agents.json
  issued,    \* the agent each token was issued to
  dead,      \* tokens that were replaced or revoked
  calls,     \* calls that were authorized and await their body
  heard,     \* <<agent, request>>: decisions told to agents that presented their own token
  mistaken,  \* agents refused the decision on a request they had signed themselves
  behind,    \* the last save failed
  lost,      \* the server died while that was so
  failures, crashes

vars == <<up, setup, mem, file, issued, dead, calls, heard, mistaken, behind, lost, failures, crashes>>

Names == Agents \cup {Cut, Unknown}
Who == Agents \cup {Server}
Unissued == 0  \* a record whose tokenHash is null

\* The agents' tokens; a request's agent and who signed its last submission; the decisions.
Store == [token : [Agents -> 0..MaxTokens \cup {None}],
          agent : [Requests -> Names \cup {None}], by : [Requests -> Who \cup {None}],
          decided : SUBSET Requests, acked : SUBSET Requests]
Call == [do : {"submit", "ack"}, who : Who, req : Requests, claims : Agents \cup {None}]

\* sanitizeHistoryText(agentId, 64) || 'unknown_agent'
Stored(a) == IF a = None THEN Unknown ELSE IF a \in Long THEN Cut ELSE a

Credentials == {Server} \cup 1..Len(issued)

\* resolveAgentAuth lets a caller with credential c act as `who`, which is Server if it is nobody's.
Admits(c, who) ==
  \/ setup = "open" /\ who = Server
  \/ setup # "open" /\ who \in Agents /\ mem.token[who] = c
  \/ setup = "grace" /\ who = Server /\ c = Server

\* isRequestAuthorized.
IsRequestAuthorized(c) == setup = "open" \/ c = Server

Init ==
  /\ up = TRUE /\ setup \in {"open", "grace", "enforce"}
  /\ mem = [token |-> [a \in Agents |-> None],
            agent |-> [r \in Requests |-> None], by |-> [r \in Requests |-> None],
            decided |-> {}, acked |-> {}]
  /\ file = mem
  /\ issued = <<>> /\ dead = {} /\ calls = {} /\ heard = {} /\ mistaken = {}
  /\ behind = FALSE /\ lost = FALSE /\ failures = 0 /\ crashes = 0

\* The handler leaves m in memory and writes it, which may fail unnoticed.
Persist(m) ==
  /\ mem' = m
  /\ \/ file' = m /\ behind' = FALSE /\ UNCHANGED failures
     \/ failures < MaxFailures /\ failures' = failures + 1 /\ behind' = TRUE /\ UNCHANGED file

\* A new token replaces the one before. The record keeps its status.
Register(a) ==
  /\ up /\ Len(issued) < MaxTokens
  /\ Persist([mem EXCEPT !.token[a] = Len(issued) + 1])
  /\ issued' = Append(issued, a)
  /\ dead' = dead \cup ({mem.token[a]} \cap 1..MaxTokens)
  /\ UNCHANGED <<up, setup, calls, heard, mistaken, lost, crashes>>

\* Mutant: a revoked token is removed from memory only.
Revoke_bug(a) ==
  /\ up /\ mem.token[a] # None
  /\ mem' = [mem EXCEPT !.token[a] = Unissued]
  /\ dead' = dead \cup ({mem.token[a]} \cap 1..MaxTokens)
  /\ UNCHANGED <<up, setup, file, issued, calls, heard, mistaken, behind, lost, failures, crashes>>

Revoke(a) ==
  /\ up /\ mem.token[a] # None
  /\ Persist([mem EXCEPT !.token[a] = Unissued])
  /\ dead' = dead \cup ({mem.token[a]} \cap 1..MaxTokens)
  /\ UNCHANGED <<up, setup, issued, calls, heard, mistaken, lost, crashes>>

\* Only the record's status and times change, which are left out, but the store is saved.
Heartbeat(a, c) ==
  /\ up /\ mem.token[a] # None
  /\ Admits(c, a) \/ Admits(c, Server)
  /\ Persist(mem)
  /\ UNCHANGED <<up, setup, issued, dead, calls, heard, mistaken, lost, crashes>>

Awaits(call) ==
  /\ calls' = calls \cup {call}
  /\ Cardinality(calls') <= MaxCalls
  /\ UNCHANGED <<up, setup, mem, file, issued, dead, heard, mistaken, behind, lost, failures, crashes>>

\* POST /api/approval-requests, and POST /api/request, which asks for the server's token.
SubmitArrives(c, who, r, claimed) ==
  /\ up
  /\ Admits(c, who) \/ (who = Server /\ IsRequestAuthorized(c))
  /\ Awaits([do |-> "submit", who |-> who, req |-> r, claims |-> claimed])

\* POST .../ack, of a decision the caller has been told.
AckArrives(c, who, r) ==
  /\ up /\ Admits(c, who)
  /\ who = Server \/ <<who, r>> \in heard
  /\ r \in mem.decided
  /\ who \in Agents => mem.agent[r] \in {None, who}
  /\ Awaits([do |-> "ack", who |-> who, req |-> r, claims |-> None])

\* The agent a submission is stored under.
AgentOf(call) == Stored(IF call.who \in Agents THEN call.who ELSE call.claims)

Returns(call) ==
  /\ up /\ calls' = calls \ {call}
  /\ UNCHANGED <<up, setup, issued, dead, heard, mistaken, lost, crashes>>

SubmitActs(call) ==
  /\ call.do = "submit"
  /\ call.who \in Agents => call.claims \in {None, call.who}
  /\ Persist([mem EXCEPT !.agent[call.req] = AgentOf(call), !.by[call.req] = call.who])
  /\ Returns(call)

\* 403 AGENT_MISMATCH.
SubmitRefused(call) ==
  /\ call.do = "submit" /\ call.who \in Agents /\ call.claims \notin {None, call.who}
  /\ UNCHANGED <<mem, file, behind, failures>>
  /\ Returns(call)

\* acknowledgeApprovalDecision changes memory and saves nothing; 404 after a restart that lost it.
AckActs(call) ==
  /\ call.do = "ack"
  /\ mem' = [mem EXCEPT !.acked = @ \cup ({call.req} \cap mem.decided)]
  /\ UNCHANGED <<file, behind, failures>>
  /\ Returns(call)

\* An operator decides (storeApprovalDecision): the first decision stays.
Decide(r) ==
  /\ up /\ r \notin mem.decided /\ mem.agent[r] # None
  /\ Persist([mem EXCEPT !.decided = @ \cup {r}])
  /\ UNCHANGED <<up, setup, issued, dead, calls, heard, mistaken, lost, crashes>>

\* GET .../decision.
MayPoll(who, r) == who \in Agents => mem.agent[r] = who

Poll(c, who, r) ==
  /\ up /\ Admits(c, who) /\ mem.agent[r] # None
  /\ heard' = IF MayPoll(who, r) /\ r \in mem.decided /\ who \in Agents
              THEN heard \cup {<<who, r>>} ELSE heard
  /\ mistaken' = IF ~MayPoll(who, r) /\ mem.by[r] = who THEN mistaken \cup {who} ELSE mistaken
  /\ UNCHANGED <<up, setup, mem, file, issued, dead, calls, behind, lost, failures, crashes>>

Crash ==
  /\ up /\ crashes < MaxCrashes
  /\ up' = FALSE /\ crashes' = crashes + 1
  /\ lost' = (lost \/ behind)
  /\ calls' = {}
  /\ UNCHANGED <<setup, mem, file, issued, dead, heard, mistaken, behind, failures>>

\* loadAgentStore.
Start ==
  /\ ~up /\ up' = TRUE
  /\ mem' = file /\ behind' = FALSE
  /\ UNCHANGED <<setup, file, issued, dead, calls, heard, mistaken, lost, failures, crashes>>

Next ==
  \/ \E a \in Agents : Register(a) \/ Revoke(a) \/ \E c \in Credentials : Heartbeat(a, c)
  \/ \E c \in Credentials, who \in Who, r \in Requests :
       \/ \E a \in Agents \cup {None} : SubmitArrives(c, who, r, a)
       \/ AckArrives(c, who, r)
       \/ Poll(c, who, r)
  \/ \E call \in calls : SubmitActs(call) \/ SubmitRefused(call) \/ AckActs(call)
  \/ \E r \in Requests : Decide(r)
  \/ Crash \/ Start

Spec == Init /\ [][Next]_vars

-----------------------------------------------------------------------------
TypeOK ==
  /\ up \in BOOLEAN /\ setup \in {"open", "grace", "enforce"}
  /\ mem \in Store /\ file \in Store
  /\ issued \in Seq(Agents) /\ dead \subseteq 1..MaxTokens
  /\ calls \subseteq Call /\ heard \subseteq Agents \X Requests /\ mistaken \subseteq Who
  /\ behind \in BOOLEAN /\ lost \in BOOLEAN
  /\ failures \in 0..MaxFailures /\ crashes \in 0..MaxCrashes

\* A token admits the agent it was issued to and no other, and once replaced or revoked it
\* admits nobody again, through failed saves and restarts, unless the process died after a
\* save that failed.
TokensHold ==
  /\ \A a \in Agents : mem.token[a] \in 1..Len(issued) => issued[mem.token[a]] = a
  /\ up /\ ~lost => \A a \in Agents : mem.token[a] \notin dead

\* An agent is refused the decision on a request it signed itself only if its id is cut.
OwnRequestsAreServed == mistaken \subseteq Long

-----------------------------------------------------------------------------
(* Inductive invariants, for the proofs. *)

\* The agents' tokens in a store were issued, to them.
Owned(m) ==
  \A a \in Agents :
    /\ m.token[a] \in 0..Len(issued) \cup {None}
    /\ m.token[a] \in 1..Len(issued) => issued[m.token[a]] = a

\* The file has the tokens of memory unless a save has failed, and a server that has not died
\* since then comes up with what it had.
TokensInv ==
  /\ Len(issued) <= MaxTokens /\ dead \subseteq 1..Len(issued)
  /\ Owned(mem) /\ Owned(file)
  /\ ~behind => file.token = mem.token
  /\ ~lost => (up \/ ~behind) /\ \A a \in Agents : mem.token[a] \notin dead

\* A request an agent has signed is stored under the agent.
Signed(m) == \A r \in Requests : m.by[r] \in Agents => m.agent[r] = Stored(m.by[r])
SignedInv == Signed(mem) /\ Signed(file) /\ OwnRequestsAreServed
=============================================================================
