--------------------------- MODULE WorkflowAccess ---------------------------
(***************************************************************************)
(* Who may do and hear what in the workflow server: actors.js,             *)
(* operators.js and auth.js, with the socket handler, broadcast and the    *)
(* handlers of workflow/server.js that use them, in strict mode (a server  *)
(* token is set; in open mode there are no identities to keep apart).      *)
(*                                                                         *)
(* A token is the pair of the principal it was issued to and a number, and *)
(* a registry maps a principal to the number whose hash it stores. People  *)
(* and programs are holders: each keeps the tokens of some principals, old *)
(* ones too. Requests that carry a body are authorized when their head     *)
(* arrives and act when their body has. The decision store itself, and     *)
(* what its failed saves do, is WorkflowDecisions.                         *)
(***************************************************************************)
EXTENDS Naturals, FiniteSets

CONSTANTS
  Actors, Operators,  \* the ids the registries know
  Root,               \* the holder of SERVER_TOKEN
  Holders, Holds,     \* Holds[h]: the principals whose tokens h is given
  Sockets,            \* connections that may be open at a time
  Requests,           \* ids of decision requests
  None,               \* null, "not in the map"
  Revoked,            \* a record whose tokenHash is null
  MaxTokens,          \* bound: MaxTokens[p] tokens are issued to p
  MaxCalls,           \* bound: calls that await their body at a time
  MaxFailures,        \* bound: saves that fail
  MaxCrashes          \* bound: crashes of the server

Registered == Actors \cup Operators
Principals == Registered \cup {Root}

ASSUME AccessAssumption ==
  /\ Actors \cap Operators = {} /\ Root \notin Registered
  /\ Holds \in [Holders -> SUBSET Principals]
  /\ None \notin Principals \cup Requests \cup {"operator", "actor"}
  /\ {None, Revoked} \cap Nat = {} /\ None # Revoked
  /\ MaxTokens \in [Registered -> Nat]
  /\ MaxCalls \in Nat /\ MaxFailures \in Nat /\ MaxCrashes \in Nat

VARIABLES
  up,        \* the process runs
  token,     \* actorsById and operatorsById: the token a principal has now
  disk,      \* their files
  issued,    \* how many tokens a principal has been issued
  dead,      \* how many of them have been replaced or revoked
  socks,     \* wss.clients
  calls,     \* calls that were authorized and await their body
  owner,     \* the actorId of a request
  decider,   \* the decidedBy of its decision
  author,    \* the holder that sent the request
  signer,    \* the holder that sent the decision
  told,      \* <<holder, what, request>>: what the last step told or granted to whom
  unsaved,   \* registries whose last save failed
  lost,      \* registries the server died with while that was so
  failures,  \* saves that have failed
  crashes    \* crashes so far

registry == <<token, disk, issued, dead, unsaved, failures>>
store == <<owner, decider, author, signer>>
vars == <<up, registry, socks, calls, store, told, lost, crashes>>

-----------------------------------------------------------------------------
(* The values *)

Number == UNION {1..MaxTokens[p] : p \in Registered}
Holding == [Registered -> Number \cup {None, Revoked}]

Socket ==
  [client : Holders, state : {"open", "closing"},
   scope : {"operator", "actor", None},  \* None: not yet isAuthorized
   actor : Actors \cup {None}, operator : Operators \cup {Root, None}]

Call ==
  [do : {"create"}, as : Actors, claim : Actors, by : Holders]
  \cup [do : {"decide"}, as : Operators \cup {Root}, claim : Operators \cup {Root},
        req : Requests, by : Holders]

\* Events and polls tell of requests and decisions; the others are answers to a holder's own call.
Item == Holders \X {"request", "decision", "ack", "created", "decided", "refused"} \X Requests

Registry(p) == IF p \in Actors THEN Actors ELSE Operators

\* Who a bearer token speaks for: findActorByToken, findOperatorByToken, SERVER_TOKEN.
Speaks(p, n) ==
  \/ p = Root
  \/ p \in Registered /\ n \in Number /\ token[p] = n

\* The tokens a holder may present: every one it was ever given.
Presents(h, p, n) ==
  p \in Holds[h] /\ n \in 1..(IF p = Root THEN 1 ELSE issued[p])

NoSockets == [s \in Sockets |-> None]

Init ==
  /\ up = TRUE
  /\ token = [p \in Registered |-> None] /\ disk = token
  /\ issued = [p \in Registered |-> 0] /\ dead = issued
  /\ socks = NoSockets /\ calls = {}
  /\ owner = [r \in Requests |-> None] /\ decider = owner
  /\ author = owner /\ signer = owner
  /\ told = {}
  /\ unsaved = {} /\ lost = {} /\ failures = 0 /\ crashes = 0

-----------------------------------------------------------------------------
(* Helpers of the handlers. An operator X_bug is X with a plausible bug; no specification
   uses it, the mutation runs put it in X's place. *)

\* persist(): the whole registry of p in its file, atomically, or not at all when
\* saveStore fails, which no caller looks at.
\* Bug: a revoked principal is left out of the file's update.
Persist_bug(p) ==
  \/ /\ disk' = [q \in Registered |->
          IF q \in Registry(p) /\ token'[q] # Revoked THEN token'[q] ELSE disk[q]]
     /\ unsaved' = unsaved \ {Registry(p)}
     /\ UNCHANGED failures
  \/ /\ failures < MaxFailures
     /\ unsaved' = unsaved \cup {Registry(p)}
     /\ failures' = failures + 1
     /\ UNCHANGED disk

Persist(p) ==
  \/ /\ disk' = [q \in Registered |-> IF q \in Registry(p) THEN token'[q] ELSE disk[q]]
     /\ unsaved' = unsaved \ {Registry(p)}
     /\ UNCHANGED failures
  \/ /\ failures < MaxFailures
     /\ unsaved' = unsaved \cup {Registry(p)}
     /\ failures' = failures + 1
     /\ UNCHANGED disk

Is(s, scope) == socks[s] # None /\ socks[s].scope = scope

\* broadcast(data, {targetActorId}): what a socket is sent.
\* Bug: actors' sockets are not filtered.
Hears_bug(s, target) ==
  socks[s] # None /\ socks[s].state = "open" /\ socks[s].scope # None

Hears(s, target) ==
  /\ socks[s] # None /\ socks[s].state = "open" /\ socks[s].scope # None
  /\ socks[s].scope = "actor" => socks[s].actor = target

Told(what, r, target) ==
  {<<socks[s].client, what, r>> : s \in {x \in Sockets : Hears(x, target)}}

\* closeActorSockets and closeOperatorSockets.
\* Bug: only sockets of actors are closed.
Closed_bug(s, p) == Is(s, "actor") /\ socks[s].actor = p

Closed(s, p) ==
  \/ Is(s, "actor") /\ socks[s].actor = p
  \/ Is(s, "operator") /\ socks[s].operator = p

\* The identity a decision is recorded under: that of the token, not that of the body.
\* Bug: the body's.
DecidedBy_bug(c) == c.claim
DecidedBy(c) == c.as

\* An actor may speak for itself only: 403 ACTOR_MISMATCH.
\* Bug: nobody compares.
Matches_bug(p, q) == TRUE
Matches(p, q) == p = q

\* What a WORKFLOW_AUTH message makes of a socket: the root's and an actor's grant()
\* set the actor, an operator's branch leaves what an earlier grant set.
\* Bug: an operator's branch forgets whose the socket is.
Granted_bug(sock, p) ==
  IF p \in Actors THEN [sock EXCEPT !.scope = "actor", !.actor = p]
  ELSE [sock EXCEPT !.scope = "operator", !.actor = IF p = Root THEN None ELSE @]

Granted(sock, p) ==
  IF p \in Actors THEN [sock EXCEPT !.scope = "actor", !.actor = p]
  ELSE [sock EXCEPT !.scope = "operator", !.operator = p,
                    !.actor = IF p = Root THEN None ELSE @]

-----------------------------------------------------------------------------
(* The registries. Only the holder of the server token reaches the first two. *)

\* POST /api/actors/register, /api/operators/register: a new token replaces the old one.
\* The sockets the old one opened stay.
Register(p) ==
  /\ up /\ issued[p] < MaxTokens[p]
  /\ token' = [token EXCEPT ![p] = issued[p] + 1]
  /\ issued' = [issued EXCEPT ![p] = @ + 1]
  /\ dead' = [dead EXCEPT ![p] = issued[p]]
  /\ Persist(p)
  /\ told' = {}
  /\ UNCHANGED <<up, socks, calls, store, lost, crashes>>

\* POST /api/actors/:id/revoke, /api/operators/:id/revoke
Revoke(p) ==
  /\ up /\ token[p] # None
  /\ token' = [token EXCEPT ![p] = Revoked]
  /\ dead' = [dead EXCEPT ![p] = issued[p]]
  /\ Persist(p)
  /\ socks' = [s \in Sockets |->
       IF Closed(s, p) THEN [socks[s] EXCEPT !.state = "closing"] ELSE socks[s]]
  /\ told' = {}
  /\ UNCHANGED <<up, issued, calls, store, lost, crashes>>

\* POST /api/actors/:id/heartbeat saves the registry as it is.
Heartbeat(h, p, n) ==
  /\ up /\ p \in Actors /\ Presents(h, p, n) /\ Speaks(p, n)
  /\ UNCHANGED token
  /\ Persist(p)
  /\ told' = {}
  /\ UNCHANGED <<up, issued, dead, socks, calls, store, lost, crashes>>

-----------------------------------------------------------------------------
(* Calls *)

\* POST /api/decision-requests with an actor's token, .../decide with an operator's or
\* the server's: authorized, then readJsonBody is awaited. `claim` is the identity the
\* body will give.
Arrives(h, p, n, q, r) ==
  LET c == IF p \in Actors THEN [do |-> "create", as |-> p, claim |-> q, by |-> h]
           ELSE [do |-> "decide", as |-> p, claim |-> q, req |-> r, by |-> h] IN
  /\ up /\ Cardinality(calls) < MaxCalls
  /\ Presents(h, p, n) /\ Speaks(p, n)
  /\ p \in Actors <=> q \in Actors
  /\ calls' = calls \cup {c}
  /\ told' = {}
  /\ UNCHANGED <<up, registry, socks, store, lost, crashes>>

\* The body of a creation has arrived. A body that names another actor is refused. The sender is
\* answered, whatever has become of its token while the body was awaited.
Creates(c, r) ==
  /\ up /\ c \in calls /\ c.do = "create"
  /\ calls' = calls \ {c}
  /\ \/ /\ Matches(c.as, c.claim)
        /\ owner[r] = None
        /\ owner' = [owner EXCEPT ![r] = c.as]
        /\ author' = [author EXCEPT ![r] = c.by]
        /\ told' = Told("request", r, None) \cup {<<c.by, "created", r>>}
     \/ /\ ~Matches(c.as, c.claim)
        /\ told' = {}
        /\ UNCHANGED <<owner, author>>
  /\ UNCHANGED <<up, registry, socks, decider, signer, lost, crashes>>

\* The body of a decision has arrived. It is sent to the actor's and the operators'
\* sockets, its history entry to the operators', and the sender is answered: with the decision, or
\* that there is one (409 ALREADY_DECIDED).
Decides(c) ==
  LET r == c.req IN
  /\ up /\ c \in calls /\ c.do = "decide"
  /\ calls' = calls \ {c}
  /\ \/ /\ owner[r] # None /\ decider[r] = None
        /\ decider' = [decider EXCEPT ![r] = DecidedBy(c)]
        /\ signer' = [signer EXCEPT ![r] = c.by]
        /\ told' = Told("decision", r, owner[r]) \cup Told("decision", r, None)
                    \cup {<<c.by, "decided", r>>}
     \/ /\ owner[r] = None \/ decider[r] # None
        /\ told' = IF decider[r] # None THEN {<<c.by, "refused", r>>} ELSE {}
        /\ UNCHANGED <<decider, signer>>
  /\ UNCHANGED <<up, registry, socks, owner, author, lost, crashes>>

\* GET /api/decision-requests/:id/decision of a decided request
Poll(h, p, n, r) ==
  /\ up /\ p \in Actors /\ Presents(h, p, n) /\ Speaks(p, n)
  /\ owner[r] # None /\ Matches(p, owner[r])
  /\ decider[r] # None
  /\ told' = {<<h, "decision", r>>}
  /\ UNCHANGED <<up, registry, socks, calls, store, lost, crashes>>

\* POST /api/decisions/:id/ack. Its history entry goes to the operators' sockets.
Ack(h, p, n, r) ==
  /\ up /\ p \in Actors /\ Presents(h, p, n) /\ Speaks(p, n)
  /\ decider[r] # None /\ Matches(p, owner[r])
  /\ told' = Told("decision", r, None) \cup {<<h, "ack", r>>}
  /\ UNCHANGED <<up, registry, socks, calls, owner, decider, author, signer, lost, crashes>>

-----------------------------------------------------------------------------
(* Sockets *)

Connect(h, s) ==
  /\ up /\ socks[s] = None
  /\ socks' = [socks EXCEPT ![s] =
       [client |-> h, state |-> "open", scope |-> None, actor |-> None, operator |-> None]]
  /\ told' = {}
  /\ UNCHANGED <<up, registry, calls, store, lost, crashes>>

\* A WORKFLOW_AUTH message, also on a socket that is authorized or closing. A token that
\* speaks for nobody closes the socket.
Auth(s, p, n) ==
  /\ up /\ socks[s] # None /\ Presents(socks[s].client, p, n)
  /\ socks' = [socks EXCEPT ![s] =
       IF Speaks(p, n) THEN Granted(@, p) ELSE [@ EXCEPT !.state = "closing"]]
  /\ told' = {}
  /\ UNCHANGED <<up, registry, calls, store, lost, crashes>>

\* WS_AUTH_TIMEOUT_MS has passed without a grant.
AuthTimeout(s) ==
  /\ up /\ Is(s, None) /\ socks[s].state = "open"
  /\ socks' = [socks EXCEPT ![s].state = "closing"]
  /\ told' = {}
  /\ UNCHANGED <<up, registry, calls, store, lost, crashes>>

\* The closing handshake ends, or the client goes away.
Disconnect(s) ==
  /\ socks[s] # None
  /\ socks' = [socks EXCEPT ![s] = None]
  /\ told' = {}
  /\ UNCHANGED <<up, registry, calls, store, lost, crashes>>

-----------------------------------------------------------------------------
(* Failure *)

Crash ==
  /\ up /\ crashes < MaxCrashes
  /\ up' = FALSE
  /\ token' = [p \in Registered |-> None]
  /\ socks' = NoSockets /\ calls' = {}
  /\ lost' = lost \cup unsaved
  /\ unsaved' = {}
  /\ crashes' = crashes + 1
  /\ told' = {}
  /\ UNCHANGED <<disk, issued, dead, failures, store>>

\* initActorStore, initOperatorStore
Start ==
  /\ ~up
  /\ up' = TRUE
  /\ token' = disk
  /\ told' = {}
  /\ UNCHANGED <<disk, issued, dead, unsaved, failures, socks, calls, store, lost, crashes>>

-----------------------------------------------------------------------------
Registrations == \E p \in Registered : Register(p)
Revocations == \E p \in Registered : Revoke(p)
Heartbeats == \E h \in Holders, p \in Actors, n \in Number : Heartbeat(h, p, n)
Calls ==
  \E h \in Holders, p, q \in Principals, n \in Number, r \in Requests : Arrives(h, p, n, q, r)
Bodies == \E c \in calls : Decides(c) \/ \E r \in Requests : Creates(c, r)
Polls == \E h \in Holders, p \in Actors, n \in Number, r \in Requests : Poll(h, p, n, r)
Acks == \E h \in Holders, p \in Actors, n \in Number, r \in Requests : Ack(h, p, n, r)
Connections == \E h \in Holders, s \in Sockets : Connect(h, s)
Messages == \E s \in Sockets, p \in Principals, n \in Number : Auth(s, p, n)
Timeouts == \E s \in Sockets : AuthTimeout(s)
Disconnections == \E s \in Sockets : Disconnect(s)

Next ==
  \/ Registrations \/ Revocations \/ Heartbeats
  \/ Calls \/ Bodies \/ Polls \/ Acks
  \/ Connections \/ Messages \/ Timeouts \/ Disconnections
  \/ Crash \/ Start

Spec == Init /\ [][Next]_vars

-----------------------------------------------------------------------------
TypeOK ==
  /\ up \in BOOLEAN
  /\ token \in Holding /\ disk \in Holding
  /\ issued \in [Registered -> Number \cup {0}] /\ dead \in [Registered -> Number \cup {0}]
  /\ socks \in [Sockets -> Socket \cup {None}]
  /\ \A s \in Sockets : Is(s, "actor") => socks[s].actor # None
  /\ \A s \in Sockets : Is(s, "operator") => socks[s].operator # None
  /\ calls \subseteq Call
  /\ owner \in [Requests -> Actors \cup {None}]
  /\ decider \in [Requests -> Operators \cup {Root, None}]
  /\ author \in [Requests -> Holders \cup {None}]
  /\ signer \in [Requests -> Holders \cup {None}]
  /\ told \subseteq Item
  /\ unsaved \subseteq {Actors, Operators} /\ lost \subseteq {Actors, Operators}
  /\ failures \in 0..MaxFailures /\ crashes \in 0..MaxCrashes

-----------------------------------------------------------------------------
(* What the server promises *)

\* A principal is trusted as long as its registry holds a token for it.
Trusted(p) ==
  \/ p = Root
  \/ p \in Registered /\ token[p] \in Number

\* The registries know exactly the tokens they should, through restarts: the last one
\* issued, unless it was revoked, and never one that was replaced or revoked
\* (registerActor, revokeActor and their operator twins; initActorStore). Only a
\* registry the server died with after a failed save is excepted.
TokensAreCurrent ==
  up => \A p \in Registered : Registry(p) \notin lost =>
    {n \in Number : Speaks(p, n)} = {n \in Number : n > dead[p] /\ n <= issued[p]}

\* Every open socket that is sent anything belongs to a principal the registry still
\* trusts and whose tokens its client was given: a revocation leaves none behind, in
\* whatever order the messages on the socket, its re-authentications, revocations and
\* restarts come (closeActorSockets, closeOperatorSockets).
SocketsAreTrusted ==
  \A s \in Sockets : socks[s] # None /\ socks[s].state = "open" =>
    /\ socks[s].scope = "actor" =>
         Trusted(socks[s].actor) /\ socks[s].actor \in Holds[socks[s].client]
    /\ socks[s].scope = "operator" =>
         Trusted(socks[s].operator) /\ socks[s].operator \in Holds[socks[s].client]

Operates(h) == Holds[h] \cap (Operators \cup {Root}) # {}

\* Over sockets, polls and answers, a holder that was never given an operator's token learns of no
\* request of others, and of no decision but those on requests of its own actors (broadcast's
\* filter, the poll's ACTOR_MISMATCH), also with a call that was authorized before.
Confidential ==
  \A k \in told :
    \/ Operates(k[1])
    \/ k[2] # "request" /\ owner[k[3]] \in Holds[k[1]]

\* Nobody is told anything while none of its principals is trusted: not over a socket that was
\* opened before a revocation, and not by a poll or an ack. A call that was authorized before the
\* revocation and awaits its body is the exception: its sender is still answered, and hears of
\* nothing but the request or the decision it has made with it, or that another one was first.
TellsOnlyTrusted ==
  \A k \in told :
    \/ \E p \in Holds[k[1]] : Trusted(p)
    \/ k[2] = "created" /\ author[k[3]] = k[1]
    \/ k[2] = "decided" /\ signer[k[3]] = k[1]
    \/ k[2] = "refused" /\ decider[k[3]] # None

\* Requests, decisions and acks are accepted under an identity of the holder that sent
\* them, although a call was authorized before its body arrived, and a registration, a
\* revocation or other calls may have come in between.
Signed ==
  /\ \A r \in Requests : owner[r] # None => owner[r] \in Holds[author[r]]
  /\ \A r \in Requests : decider[r] # None => decider[r] \in Holds[signer[r]]
  /\ \A k \in told : k[2] = "ack" => owner[k[3]] \in Holds[k[1]]

-----------------------------------------------------------------------------
(* The invariant behind these promises. *)

\* v is what the registry should hold for p.
Current(v, p) ==
  /\ v \in Number => v = issued[p] /\ dead[p] < issued[p]
  /\ v \notin Number => dead[p] = issued[p]

\* Only the last token can be alive; memory is right as long as nothing was lost, and a
\* file is as long as its last save succeeded.
RegistriesAreCurrent ==
  /\ \A p \in Registered : dead[p] <= issued[p] /\ issued[p] <= dead[p] + 1
  /\ \A p \in Registered : up /\ Registry(p) \notin lost => Current(token[p], p)
  /\ \A p \in Registered : Registry(p) \notin lost \cup unsaved => Current(disk[p], p)
  /\ ~up => unsaved = {} /\ calls = {} /\ socks = NoSockets

CallsAreSigned == \A c \in calls : c.as \in Holds[c.by]

AccessInv == RegistriesAreCurrent /\ CallsAreSigned /\ SocketsAreTrusted /\ Signed
=============================================================================
