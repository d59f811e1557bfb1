------------------------ MODULE WorkflowAccess_proofs ------------------------
(***************************************************************************)
(* Theorems about WorkflowAccess, for any principals, holders, sockets and *)
(* requests, and any number of tokens, failed saves and crashes.           *)
(***************************************************************************)
EXTENDS WorkflowAccess, TLAPS

-----------------------------------------------------------------------------
(* Lemmas about the helpers *)

LEMMA NumbersAreNat ==
  /\ Number \subseteq Nat \ {0}
  /\ None \notin Number /\ Revoked \notin Number
  /\ \A p \in Registered, n \in Nat : n < MaxTokens[p] => n + 1 \in Number
<1>1. Number \subseteq Nat \ {0}
  BY AccessAssumption DEF Number
<1>2. None \notin Number /\ Revoked \notin Number
  BY <1>1, AccessAssumption
<1>3. ASSUME NEW p \in Registered, NEW n \in Nat, n < MaxTokens[p]
      PROVE  n + 1 \in Number
  <2>1. MaxTokens[p] \in Nat
    BY AccessAssumption
  <2>2. n + 1 \in 1..MaxTokens[p]
    BY <1>3, <2>1
  <2>3. QED
    BY <2>2 DEF Number
<1>4. QED
  BY <1>1, <1>2, <1>3

LEMMA RegistriesAreDisjoint ==
  \A p, q \in Registered :
    /\ p \in Registry(p) /\ Registry(p) \in {Actors, Operators}
    /\ q \in Registry(p) <=> Registry(q) = Registry(p)
BY AccessAssumption DEF Registered, Registry

LEMMA ItemsTold ==
  ASSUME NEW what, NEW r, NEW target, NEW k \in Told(what, r, target)
  PROVE  \E s \in Sockets :
           Hears(s, target) /\ k[1] = socks[s].client /\ k[2] = what /\ k[3] = r
BY DEF Told

LEMMA ToldFits ==
  ASSUME TypeOK, NEW what \in {"request", "decision", "ack"}, NEW r \in Requests, NEW target
  PROVE  Told(what, r, target) \subseteq Item
BY DEF TypeOK, Told, Hears, Item, Socket

\* A save keeps the registries and its counters typed.
LEMMA PersistType ==
  ASSUME TypeOK, NEW p \in Registered, token' \in Holding, Persist(p)
  PROVE  /\ disk' \in Holding
         /\ unsaved' \subseteq {Actors, Operators}
         /\ failures' \in 0..MaxFailures
BY AccessAssumption, RegistriesAreDisjoint DEF TypeOK, Persist, Holding

-----------------------------------------------------------------------------
(* Types *)

LEMMA InitType == Init => TypeOK
BY AccessAssumption DEF Init, TypeOK, Holding, NoSockets, Is

LEMMA IssuedIsNat ==
  ASSUME TypeOK, NEW p \in Registered
  PROVE  issued[p] \in Nat
<1>1. issued[p] \in Number \/ issued[p] = 0
  BY DEF TypeOK
<1>2. ASSUME NEW n \in Number PROVE n \in Nat
  BY NumbersAreNat
<1>3. 0 \in Nat
  OBVIOUS
<1>4. QED
  BY <1>1, <1>2, <1>3

LEMMA RegisterType ==
  ASSUME TypeOK, NEW p \in Registered, Register(p)
  PROVE  TypeOK'
<1>1. issued[p] \in Nat /\ issued[p] + 1 \in Number
  <2>2. issued[p] \in Nat
    BY IssuedIsNat
  <2>3. issued[p] < MaxTokens[p]
    BY DEF Register
  <2>4. QED
    BY <2>2, <2>3, NumbersAreNat
<1>2. token' \in Holding
  BY <1>1 DEF TypeOK, Register, Holding
<1>3. issued' \in [Registered -> Number \cup {0}] /\ dead' \in [Registered -> Number \cup {0}]
  BY <1>1 DEF TypeOK, Register
<1>4. Persist(p)
  BY DEF Register
<1>5. QED
  BY <1>2, <1>3, <1>4, PersistType, AccessAssumption DEF TypeOK, Register, store, Is, Item

LEMMA RevokeType ==
  ASSUME TypeOK, NEW p \in Registered, Revoke(p)
  PROVE  TypeOK'
<1>1. token' \in Holding
  BY DEF TypeOK, Revoke, Holding
<1>2. dead' \in [Registered -> Number \cup {0}]
  BY DEF TypeOK, Revoke
<1>3. Persist(p)
  BY DEF Revoke
<1>4. \A s \in Sockets :
        /\ socks'[s] \in Socket \cup {None}
        /\ Is(s, "actor")' => socks'[s].actor # None
        /\ Is(s, "operator")' => socks'[s].operator # None
  <2> SUFFICES ASSUME NEW s \in Sockets
               PROVE  /\ socks'[s] \in Socket \cup {None}
                      /\ Is(s, "actor")' => socks'[s].actor # None
                      /\ Is(s, "operator")' => socks'[s].operator # None
    OBVIOUS
  <2>1. CASE Closed(s, p)
    <3>1. socks[s] \in Socket
      BY <2>1 DEF Closed, Is, TypeOK
    <3>2. socks'[s] = [socks[s] EXCEPT !.state = "closing"]
      BY <2>1 DEF Revoke
    <3>3. QED
      BY <2>1, <3>1, <3>2 DEF Closed, Is, TypeOK, Socket
  <2>2. CASE ~Closed(s, p)
    BY <2>2 DEF Revoke, Is, TypeOK
  <2>3. QED
    BY <2>1, <2>2
<1>5. socks' \in [Sockets -> Socket \cup {None}]
  BY <1>4 DEF Revoke
<1>6. QED
  BY <1>1, <1>2, <1>3, <1>4, <1>5, PersistType, AccessAssumption
  DEF TypeOK, Revoke, store, Item

LEMMA HeartbeatType ==
  ASSUME TypeOK, NEW h \in Holders, NEW p \in Actors, NEW n \in Number, Heartbeat(h, p, n)
  PROVE  TypeOK'
<1>1. token' \in Holding /\ p \in Registered /\ Persist(p)
  BY DEF TypeOK, Heartbeat, Registered
<1>2. QED
  BY <1>1, PersistType, AccessAssumption DEF TypeOK, Heartbeat, store, Is, Item

LEMMA ArrivesType ==
  ASSUME TypeOK, NEW h \in Holders, NEW p \in Principals, NEW q \in Principals,
         NEW n \in Number, NEW r \in Requests, Arrives(h, p, n, q, r)
  PROVE  TypeOK'
<1>1. calls' \subseteq Call
  BY DEF TypeOK, Arrives, Call, Principals, Registered
<1>2. QED
  BY <1>1 DEF TypeOK, Arrives, registry, store, Is, Item

LEMMA CreatesType ==
  ASSUME TypeOK, NEW c \in calls, NEW r \in Requests, Creates(c, r)
  PROVE  TypeOK'
<1>1. c.as \in Actors /\ c.by \in Holders
  BY DEF TypeOK, Creates, Call
<1>2. Told("request", r, None) \subseteq Item
  BY ToldFits
<1>3. owner' \in [Requests -> Actors \cup {None}] /\ author' \in [Requests -> Holders \cup {None}]
  BY <1>1 DEF TypeOK, Creates
<1>4. told' \subseteq Item /\ calls' \subseteq Call
  BY <1>1, <1>2 DEF TypeOK, Creates, Item
<1>5. QED
  BY <1>3, <1>4 DEF TypeOK, Creates, registry, Is

LEMMA DecidesType ==
  ASSUME TypeOK, NEW c \in calls, Decides(c)
  PROVE  TypeOK'
<1>1. c.as \in Operators \cup {Root} /\ c.by \in Holders /\ c.req \in Requests
  BY DEF TypeOK, Decides, Call
<1>2. Told("decision", c.req, owner[c.req]) \subseteq Item /\ Told("decision", c.req, None) \subseteq Item
  BY <1>1, ToldFits
<1>3. /\ decider' \in [Requests -> Operators \cup {Root, None}]
      /\ signer' \in [Requests -> Holders \cup {None}]
  BY <1>1 DEF TypeOK, Decides, DecidedBy
<1>4. told' \subseteq Item /\ calls' \subseteq Call
  BY <1>1, <1>2 DEF TypeOK, Decides, Item
<1>5. QED
  BY <1>3, <1>4 DEF TypeOK, Decides, registry, Is

LEMMA ReadsType ==
  ASSUME TypeOK, NEW h \in Holders, NEW p \in Actors, NEW n \in Number, NEW r \in Requests,
         Poll(h, p, n, r) \/ Ack(h, p, n, r)
  PROVE  TypeOK'
<1>1. Told("decision", r, None) \subseteq Item
  BY ToldFits
<1>2. told' \subseteq Item
  BY <1>1 DEF Poll, Ack, Item
<1>3. QED
  BY <1>2 DEF TypeOK, Poll, Ack, registry, store, Is

\* A step that changes one socket keeps TypeOK if the new socket is well formed.
LEMMA SocketType ==
  ASSUME TypeOK, NEW s \in Sockets, NEW new \in Socket \cup {None},
         new # None /\ new.scope = "actor" => new.actor # None,
         new # None /\ new.scope = "operator" => new.operator # None,
         socks' = [socks EXCEPT ![s] = new], told' = {},
         UNCHANGED <<up, registry, calls, store, lost, crashes>>
  PROVE  TypeOK'
<1>1. socks' \in [Sockets -> Socket \cup {None}]
  BY DEF TypeOK
<1>2. \A x \in Sockets :
        /\ Is(x, "actor")' => socks'[x].actor # None
        /\ Is(x, "operator")' => socks'[x].operator # None
  BY DEF TypeOK, Is
<1>3. QED
  BY <1>1, <1>2 DEF TypeOK, registry, store, Item

LEMMA GrantedFits ==
  ASSUME NEW sock \in Socket, NEW p \in Principals
  PROVE  LET new == Granted(sock, p) IN
         /\ new \in Socket
         /\ new.client = sock.client /\ new.state = sock.state
         /\ p \in Actors => new.scope = "actor" /\ new.actor = p
         /\ p \notin Actors => new.scope = "operator" /\ new.operator = p
BY AccessAssumption DEF Granted, Socket, Principals, Registered

LEMMA SocketsType ==
  ASSUME TypeOK, NEW s \in Sockets,
         \/ \E h \in Holders : Connect(h, s)
         \/ \E p \in Principals, n \in Number : Auth(s, p, n)
         \/ AuthTimeout(s) \/ Disconnect(s)
  PROVE  TypeOK'
<1>1. CASE \E h \in Holders : Connect(h, s)
  <2>1. PICK h \in Holders : Connect(h, s)
    BY <1>1
  <2> DEFINE new == [client |-> h, state |-> "open", scope |-> None, actor |-> None, operator |-> None]
  <2>2. new \in Socket
    BY DEF Socket
  <2>3. new.scope # "actor" /\ new.scope # "operator"
    BY AccessAssumption
  <2>4. QED
    BY <2>1, <2>2, <2>3, SocketType DEF Connect
<1>2. CASE \E p \in Principals, n \in Number : Auth(s, p, n)
  <2>1. PICK p \in Principals, n \in Number : Auth(s, p, n)
    BY <1>2
  <2> DEFINE new == IF Speaks(p, n) THEN Granted(socks[s], p)
                    ELSE [socks[s] EXCEPT !.state = "closing"]
  <2>2. socks[s] \in Socket
    BY <2>1 DEF Auth, TypeOK
  <2>3. new \in Socket
    BY <2>2, GrantedFits DEF Socket
  <2>4. CASE Speaks(p, n)
    <3>1. /\ new.scope = "actor" => new.actor # None
          /\ new.scope = "operator" => new.operator # None
      BY <2>2, <2>4, GrantedFits, AccessAssumption DEF Principals, Registered
    <3>2. socks' = [socks EXCEPT ![s] = new]
      BY <2>1 DEF Auth
    <3>3. QED
      BY <2>1, <2>3, <3>1, <3>2, SocketType DEF Auth
  <2>5. CASE ~Speaks(p, n)
    <3>1. /\ new.scope = "actor" => new.actor # None
          /\ new.scope = "operator" => new.operator # None
      BY <2>1, <2>2, <2>5 DEF TypeOK, Is, Socket, Auth
    <3>2. socks' = [socks EXCEPT ![s] = new]
      BY <2>1 DEF Auth
    <3>3. QED
      BY <2>1, <2>3, <3>1, <3>2, SocketType DEF Auth
  <2>6. QED
    BY <2>4, <2>5
<1>3. CASE AuthTimeout(s)
  <2> DEFINE new == [socks[s] EXCEPT !.state = "closing"]
  <2>1. socks[s] \in Socket /\ socks[s].scope = None
    BY <1>3 DEF AuthTimeout, Is, TypeOK
  <2>2. new \in Socket /\ new.scope = None
    BY <2>1 DEF Socket
  <2>3. socks' = [socks EXCEPT ![s] = new]
    BY <1>3 DEF AuthTimeout
  <2>4. QED
    BY <1>3, <2>2, <2>3, SocketType, AccessAssumption DEF AuthTimeout
<1>4. CASE Disconnect(s)
  BY <1>4, SocketType DEF Disconnect
<1>5. QED
  BY <1>1, <1>2, <1>3, <1>4

LEMMA FailureType ==
  ASSUME TypeOK, Crash \/ Start
  PROVE  TypeOK'
<1>1. CASE Crash
  <2>1. token' \in Holding
    BY <1>1 DEF Crash, Holding
  <2>2. /\ socks' \in [Sockets -> Socket \cup {None}]
        /\ \A s \in Sockets : socks'[s] = None
    BY <1>1 DEF Crash, NoSockets
  <2>3. lost' \subseteq {Actors, Operators} /\ crashes' \in 0..MaxCrashes
    BY <1>1, AccessAssumption DEF Crash, TypeOK
  <2>4. QED
    BY <1>1, <2>1, <2>2, <2>3 DEF TypeOK, Crash, Is, store, Item
<1>2. CASE Start
  BY <1>2 DEF TypeOK, Start, Is, store, Item
<1>3. QED
  BY <1>1, <1>2

\* The values of the variables keep their types in every behaviour.
THEOREM AccessTypeCorrect == Spec => []TypeOK
<1>1. Init => TypeOK
  BY InitType
<1>2. TypeOK /\ [Next]_vars => TypeOK'
  <2> SUFFICES ASSUME TypeOK, [Next]_vars PROVE TypeOK'
    OBVIOUS
  <2>1. CASE Registrations
    BY <2>1, RegisterType DEF Registrations
  <2>2. CASE Revocations
    BY <2>2, RevokeType DEF Revocations
  <2>3. CASE Heartbeats
    BY <2>3, HeartbeatType DEF Heartbeats
  <2>4. CASE Calls
    BY <2>4, ArrivesType DEF Calls
  <2>5. CASE Bodies
    BY <2>5, CreatesType, DecidesType DEF Bodies
  <2>6. CASE Polls \/ Acks
    BY <2>6, ReadsType DEF Polls, Acks
  <2>7. CASE Connections \/ Messages \/ Timeouts \/ Disconnections
    BY <2>7, SocketsType DEF Connections, Messages, Timeouts, Disconnections
  <2>8. CASE Crash \/ Start
    BY <2>8, FailureType
  <2>9. CASE UNCHANGED vars
    BY <2>9 DEF vars, registry, store, TypeOK, Is, Item
  <2>10. QED
    BY <2>1, <2>2, <2>3, <2>4, <2>5, <2>6, <2>7, <2>8, <2>9 DEF Next
<1>3. QED
  BY <1>1, <1>2, PTL DEF Spec

-----------------------------------------------------------------------------
(* The invariant: registries *)

\* What a registration or a revocation leaves in the registries is current.
LEMMA NewTokenIsCurrent ==
  ASSUME TypeOK, RegistriesAreCurrent, NEW p \in Registered, Register(p) \/ Revoke(p)
  PROVE  /\ dead'[p] <= issued'[p] /\ issued'[p] <= dead'[p] + 1
         /\ Current(token[p], p)'
         /\ \A q \in Registered \ {p} :
              issued'[q] = issued[q] /\ dead'[q] = dead[q] /\ token'[q] = token[q]
<1>1. issued[p] \in Nat
  BY IssuedIsNat
<1>2. CASE Register(p)
  <2>1. token'[p] = issued[p] + 1 /\ issued'[p] = issued[p] + 1 /\ dead'[p] = issued[p]
    BY <1>2 DEF Register, TypeOK, Holding
  <2>2. issued[p] + 1 \in Number
    <3>1. issued[p] < MaxTokens[p]
      BY <1>2 DEF Register
    <3>2. QED
      BY <1>1, <3>1, NumbersAreNat
  <2>3. \A q \in Registered \ {p} :
          issued'[q] = issued[q] /\ dead'[q] = dead[q] /\ token'[q] = token[q]
    BY <1>2 DEF Register, TypeOK, Holding
  <2>4. QED
    BY <1>1, <2>1, <2>2, <2>3 DEF Current
<1>3. CASE Revoke(p)
  <2>1. token'[p] = Revoked /\ issued'[p] = issued[p] /\ dead'[p] = issued[p]
    BY <1>3 DEF Revoke, TypeOK, Holding
  <2>2. Revoked \notin Number
    BY NumbersAreNat
  <2>3. \A q \in Registered \ {p} :
          issued'[q] = issued[q] /\ dead'[q] = dead[q] /\ token'[q] = token[q]
    BY <1>3 DEF Revoke, TypeOK, Holding
  <2>4. QED
    BY <1>1, <2>1, <2>2, <2>3 DEF Current
<1>4. QED
  BY <1>2, <1>3

\* A save that succeeds brings the file up to memory; one that fails marks its registry.
LEMMA PersistKeepsCurrent ==
  ASSUME TypeOK, RegistriesAreCurrent, NEW p \in Registered, Persist(p), UNCHANGED lost,
         \A q \in Registered : Registry(q) \notin lost => Current(token[q], q)',
         \A q \in Registered \ {p} : issued'[q] = issued[q] /\ dead'[q] = dead[q]
  PROVE  \A q \in Registered : Registry(q) \notin lost' \cup unsaved' => Current(disk[q], q)'
<1> SUFFICES ASSUME NEW q \in Registered, Registry(q) \notin lost, Registry(q) \notin unsaved'
             PROVE  Current(disk[q], q)'
  OBVIOUS
<1>1. CASE unsaved' = unsaved \ {Registry(p)} /\
           disk' = [x \in Registered |-> IF x \in Registry(p) THEN token'[x] ELSE disk[x]]
  <2>1. CASE q \in Registry(p)
    <3>1. disk'[q] = token'[q]
      BY <1>1, <2>1
    <3>2. QED
      BY <3>1 DEF Current
  <2>2. CASE q \notin Registry(p)
    <3>1. disk'[q] = disk[q] /\ q # p /\ Registry(q) \notin unsaved
      BY <1>1, <2>2, RegistriesAreDisjoint
    <3>2. Current(disk[q], q)
      BY <3>1 DEF RegistriesAreCurrent
    <3>3. QED
      BY <3>1, <3>2 DEF Current
  <2>3. QED
    BY <2>1, <2>2
<1>2. CASE unsaved' = unsaved \cup {Registry(p)} /\ UNCHANGED disk
  <2>1. q # p /\ Registry(q) \notin unsaved
    BY <1>2
  <2>2. Current(disk[q], q)
    BY <2>1 DEF RegistriesAreCurrent
  <2>3. QED
    BY <1>2, <2>1, <2>2 DEF Current
<1>3. QED
  BY <1>1, <1>2 DEF Persist

LEMMA RegistryStep ==
  ASSUME TypeOK, RegistriesAreCurrent, [Next]_vars
  PROVE  RegistriesAreCurrent'
<1>1. ASSUME NEW p \in Registered, Register(p) \/ Revoke(p)
      PROVE  RegistriesAreCurrent'
  <2>1. /\ dead'[p] <= issued'[p] /\ issued'[p] <= dead'[p] + 1
        /\ Current(token[p], p)'
        /\ \A q \in Registered \ {p} :
             issued'[q] = issued[q] /\ dead'[q] = dead[q] /\ token'[q] = token[q]
    BY <1>1, NewTokenIsCurrent
  <2>2. up /\ up' /\ UNCHANGED lost /\ Persist(p)
    BY <1>1 DEF Register, Revoke
  <2>3. \A q \in Registered : Registry(q) \notin lost => Current(token[q], q)'
    BY <2>1, <2>2 DEF RegistriesAreCurrent, Current
  <2>4. \A q \in Registered : Registry(q) \notin lost' \cup unsaved' => Current(disk[q], q)'
    BY <2>1, <2>2, <2>3, PersistKeepsCurrent
  <2>5. \A q \in Registered : dead'[q] <= issued'[q] /\ issued'[q] <= dead'[q] + 1
    BY <2>1 DEF RegistriesAreCurrent
  <2>6. QED
    BY <2>2, <2>3, <2>4, <2>5 DEF RegistriesAreCurrent
<1>2. ASSUME NEW h \in Holders, NEW p \in Actors, NEW n \in Number, Heartbeat(h, p, n)
      PROVE  RegistriesAreCurrent'
  <2>1. p \in Registered /\ up /\ up' /\ UNCHANGED <<token, issued, dead, lost>> /\ Persist(p)
    BY <1>2 DEF Heartbeat, Registered
  <2>2. \A q \in Registered : Registry(q) \notin lost => Current(token[q], q)'
    BY <2>1 DEF RegistriesAreCurrent, Current
  <2>3. \A q \in Registered : Registry(q) \notin lost' \cup unsaved' => Current(disk[q], q)'
    BY <2>1, <2>2, PersistKeepsCurrent
  <2>4. QED
    BY <2>1, <2>2, <2>3 DEF RegistriesAreCurrent
<1>3. CASE Crash
  <2>1. \A q \in Registered : Registry(q) \notin lost' \cup unsaved' => Current(disk[q], q)'
    BY <1>3 DEF Crash, RegistriesAreCurrent, Current
  <2>2. QED
    BY <1>3, <2>1 DEF Crash, RegistriesAreCurrent
<1>4. CASE Start
  <2>1. unsaved = {} /\ UNCHANGED <<disk, issued, dead, lost, unsaved>> /\ token' = disk /\ up'
    BY <1>4 DEF Start, RegistriesAreCurrent
  <2>2. \A q \in Registered : Registry(q) \notin lost => Current(disk[q], q)
    BY <2>1 DEF RegistriesAreCurrent
  <2>3. QED
    BY <2>1, <2>2 DEF RegistriesAreCurrent, Current
<1>5. ASSUME UNCHANGED <<up, registry, lost>>, (calls' = calls /\ socks' = socks) \/ up
      PROVE  RegistriesAreCurrent'
  BY <1>5 DEF RegistriesAreCurrent, Current, registry
<1>6. CASE Disconnections
  <2>1. up
    BY <1>6 DEF Disconnections, Disconnect, RegistriesAreCurrent, NoSockets
  <2>2. QED
    BY <1>5, <1>6, <2>1 DEF Disconnections, Disconnect
<1>7. QED
  BY <1>1, <1>2, <1>3, <1>4, <1>5, <1>6
  DEF Next, vars, Registrations, Revocations, Heartbeats, Calls, Arrives, Bodies, Creates, Decides,
      Polls, Poll, Acks, Ack, Connections, Connect, Messages, Auth, Timeouts, AuthTimeout

-----------------------------------------------------------------------------
(* The invariant: calls and sockets *)

LEMMA CallStep ==
  ASSUME TypeOK, CallsAreSigned, [Next]_vars
  PROVE  CallsAreSigned'
<1>1. ASSUME NEW h \in Holders, NEW p \in Principals, NEW q \in Principals,
             NEW n \in Number, NEW r \in Requests, Arrives(h, p, n, q, r)
      PROVE  CallsAreSigned'
  BY <1>1 DEF Arrives, Presents, CallsAreSigned
<1>2. ASSUME calls' \subseteq calls
      PROVE  CallsAreSigned'
  BY <1>2 DEF CallsAreSigned
<1>3. QED
  BY <1>1, <1>2
  DEF Next, vars, Registrations, Register, Revocations, Revoke, Heartbeats, Heartbeat, Calls,
      Bodies, Creates, Decides, Polls, Poll, Acks, Ack, Connections, Connect, Messages, Auth,
      Timeouts, AuthTimeout, Disconnections, Disconnect, Crash, Start

\* One socket is trusted.
SocketIsTrusted(s) ==
  socks[s] # None /\ socks[s].state = "open" =>
    /\ socks[s].scope = "actor" =>
         Trusted(socks[s].actor) /\ socks[s].actor \in Holds[socks[s].client]
    /\ socks[s].scope = "operator" =>
         Trusted(socks[s].operator) /\ socks[s].operator \in Holds[socks[s].client]

\* A socket that stays as it is stays trusted when those the registry trusts stay so.
LEMMA SameSocket ==
  ASSUME NEW s \in Sockets, SocketIsTrusted(s), socks'[s] = socks[s],
         \A p \in Registered : token[p] \in Number => token'[p] \in Number
  PROVE  SocketIsTrusted(s)'
BY DEF SocketIsTrusted, Trusted

LEMMA RevocationCloses ==
  ASSUME TypeOK, SocketsAreTrusted, NEW p \in Registered, Revoke(p)
  PROVE  SocketsAreTrusted'
<1> SUFFICES ASSUME NEW s \in Sockets PROVE SocketIsTrusted(s)'
  BY DEF SocketsAreTrusted, SocketIsTrusted
<1>1. SocketIsTrusted(s)
  BY DEF SocketsAreTrusted, SocketIsTrusted
<1>2. CASE Closed(s, p)
  <2>1. socks[s] \in Socket
    BY <1>2 DEF Closed, Is, TypeOK
  <2>2. socks'[s] = [socks[s] EXCEPT !.state = "closing"]
    BY <1>2 DEF Revoke
  <2>3. QED
    BY <2>1, <2>2 DEF SocketIsTrusted, Socket
<1>3. CASE ~Closed(s, p)
  <2>1. socks'[s] = socks[s]
    BY <1>3 DEF Revoke
  <2>2. \A q \in Registered : q # p => token'[q] = token[q]
    BY DEF Revoke, TypeOK, Holding
  <2>3. socks[s] # None /\ socks[s].scope = "actor" => socks[s].actor # p
    BY <1>3 DEF Closed, Is
  <2>4. socks[s] # None /\ socks[s].scope = "operator" => socks[s].operator # p
    BY <1>3 DEF Closed, Is
  <2>5. QED
    BY <1>1, <2>1, <2>2, <2>3, <2>4 DEF SocketIsTrusted, Trusted
<1>4. QED
  BY <1>2, <1>3

LEMMA AuthIsTrusted ==
  ASSUME TypeOK, SocketsAreTrusted, NEW s \in Sockets, NEW p \in Principals, NEW n \in Number,
         Auth(s, p, n)
  PROVE  SocketsAreTrusted'
<1> SUFFICES ASSUME NEW x \in Sockets PROVE SocketIsTrusted(x)'
  BY DEF SocketsAreTrusted, SocketIsTrusted
<1>1. SocketIsTrusted(x) /\ UNCHANGED token
  BY DEF SocketsAreTrusted, SocketIsTrusted, Auth, registry
<1>2. CASE x # s
  <2>1. socks'[x] = socks[x]
    BY <1>2 DEF Auth
  <2>2. QED
    BY <1>1, <2>1, SameSocket
<1>3. CASE x = s
  <2>1. socks[s] \in Socket
    BY DEF Auth, TypeOK
  <2>2. CASE Speaks(p, n)
    <3>1. socks'[s] = Granted(socks[s], p)
      BY <2>2 DEF Auth, TypeOK
    <3>2. Trusted(p)' /\ p \in Holds[socks[s].client]
      BY <1>1, <2>2 DEF Speaks, Trusted, Auth, Presents
    <3>3. /\ socks'[s].client = socks[s].client
          /\ p \in Actors => socks'[s].scope = "actor" /\ socks'[s].actor = p
          /\ p \notin Actors => socks'[s].scope = "operator" /\ socks'[s].operator = p
      BY <2>1, <3>1, GrantedFits
    <3>4. QED
      BY <1>3, <3>2, <3>3 DEF SocketIsTrusted
  <2>3. CASE ~Speaks(p, n)
    <3>1. socks'[s] = [socks[s] EXCEPT !.state = "closing"]
      BY <2>3 DEF Auth, TypeOK
    <3>2. socks'[s].state = "closing"
      BY <2>1, <3>1 DEF Socket
    <3>3. QED
      BY <1>3, <3>2 DEF SocketIsTrusted
  <2>4. QED
    BY <2>2, <2>3
<1>4. QED
  BY <1>2, <1>3

LEMMA SocketStep ==
  ASSUME TypeOK, RegistriesAreCurrent, SocketsAreTrusted, [Next]_vars
  PROVE  SocketsAreTrusted'
<1>1. CASE Registrations
  <2>1. PICK p \in Registered : Register(p)
    BY <1>1 DEF Registrations
  <2>2. token'[p] \in Number
    BY <2>1, IssuedIsNat, NumbersAreNat DEF Register, TypeOK, Holding
  <2>3. \A q \in Registered : token[q] \in Number => token'[q] \in Number
    BY <2>1, <2>2 DEF Register, TypeOK, Holding
  <2>4. socks' = socks
    BY <2>1 DEF Register
  <2>5. QED
    BY <2>3, <2>4, SameSocket DEF SocketsAreTrusted, SocketIsTrusted
<1>2. CASE Revocations
  BY <1>2, RevocationCloses DEF Revocations
<1>3. CASE Messages
  BY <1>3, AuthIsTrusted DEF Messages
<1>4. CASE Connections
  <2>1. PICK h \in Holders, s \in Sockets : Connect(h, s)
    BY <1>4 DEF Connections
  <2>2. \A x \in Sockets : x # s => socks'[x] = socks[x]
    BY <2>1 DEF Connect
  <2>3. socks'[s].scope = None
    BY <2>1 DEF Connect, TypeOK
  <2>4. None # "actor" /\ None # "operator"
    BY AccessAssumption
  <2>5. UNCHANGED token
    BY <2>1 DEF Connect, registry
  <2>6. QED
    BY <2>2, <2>3, <2>4, <2>5 DEF SocketsAreTrusted, Trusted
<1>5. CASE Timeouts
  <2>1. PICK s \in Sockets : AuthTimeout(s)
    BY <1>5 DEF Timeouts
  <2>2. socks[s] \in Socket
    BY <2>1 DEF AuthTimeout, Is, TypeOK
  <2>3. /\ \A x \in Sockets : x # s => socks'[x] = socks[x]
        /\ socks'[s].state = "closing"
    BY <2>1, <2>2 DEF AuthTimeout, TypeOK, Socket
  <2>4. UNCHANGED token
    BY <2>1 DEF AuthTimeout, registry
  <2>5. QED
    BY <2>3, <2>4 DEF SocketsAreTrusted, Trusted
<1>6. CASE Disconnections
  <2>1. PICK s \in Sockets : Disconnect(s)
    BY <1>6 DEF Disconnections
  <2>2. /\ \A x \in Sockets : x # s => socks'[x] = socks[x]
        /\ socks'[s] = None
    BY <2>1 DEF Disconnect, TypeOK
  <2>3. UNCHANGED token
    BY <2>1 DEF Disconnect, registry
  <2>4. QED
    BY <2>2, <2>3 DEF SocketsAreTrusted, Trusted
<1>7. CASE Crash
  BY <1>7 DEF Crash, NoSockets, SocketsAreTrusted
<1>8. CASE Start
  BY <1>8 DEF Start, RegistriesAreCurrent, NoSockets, SocketsAreTrusted
<1>9. ASSUME UNCHANGED <<token, socks>>
      PROVE  SocketsAreTrusted'
  BY <1>9 DEF SocketsAreTrusted, Trusted
<1>10. QED
  BY <1>1, <1>2, <1>3, <1>4, <1>5, <1>6, <1>7, <1>8, <1>9
  DEF Next, vars, registry, Heartbeats, Heartbeat, Calls, Arrives, Bodies, Creates, Decides,
      Polls, Poll, Acks, Ack

LEMMA SignedStep ==
  ASSUME TypeOK, CallsAreSigned, Signed, [Next]_vars
  PROVE  Signed'
<1>1. ASSUME NEW c \in calls, NEW r \in Requests, Creates(c, r)
      PROVE  Signed'
  <2>1. c.as \in Holds[c.by]
    BY DEF CallsAreSigned
  <2>2. \A k \in told' : k[2] # "ack"
    BY <1>1, ItemsTold DEF Creates
  <2>3. QED
    BY <1>1, <2>1, <2>2 DEF Creates, Signed, TypeOK
<1>2. ASSUME NEW c \in calls, Decides(c)
      PROVE  Signed'
  <2>1. c.as \in Holds[c.by]
    BY DEF CallsAreSigned
  <2>2. \A k \in told' : k[2] # "ack"
    BY <1>2, ItemsTold DEF Decides
  <2>3. QED
    BY <1>2, <2>1, <2>2 DEF Decides, DecidedBy, Signed, TypeOK
<1>3. ASSUME NEW h \in Holders, NEW p \in Actors, NEW n \in Number, NEW r \in Requests,
             Poll(h, p, n, r)
      PROVE  Signed'
  <2>1. \A k \in told' : k[2] # "ack"
    BY <1>3 DEF Poll
  <2>2. QED
    BY <1>3, <2>1 DEF Poll, Signed, store
<1>4. ASSUME NEW h \in Holders, NEW p \in Actors, NEW n \in Number, NEW r \in Requests,
             Ack(h, p, n, r)
      PROVE  Signed'
  <2>1. \A k \in Told("decision", r, None) : k[2] # "ack"
    BY ItemsTold
  <2>2. owner[r] \in Holds[h]
    BY <1>4 DEF Ack, Matches, Presents
  <2>3. QED
    BY <1>4, <2>1, <2>2 DEF Ack, Signed
<1>5. ASSUME UNCHANGED store, told' = {} \/ told' = told
      PROVE  Signed'
  BY <1>5 DEF Signed, store
<1>6. QED
  BY <1>1, <1>2, <1>3, <1>4, <1>5
  DEF Next, vars, Registrations, Register, Revocations, Revoke, Heartbeats, Heartbeat, Calls,
      Arrives, Bodies, Polls, Acks, Connections, Connect, Messages, Auth, Timeouts, AuthTimeout,
      Disconnections, Disconnect, Crash, Start

\* The invariant behind the promises holds in every behaviour.
THEOREM AccessInvariant == Spec => []AccessInv
<1>1. Init => TypeOK /\ AccessInv
  <2> SUFFICES ASSUME Init PROVE AccessInv
    BY InitType
  <2>1. RegistriesAreCurrent
    BY NumbersAreNat DEF Init, RegistriesAreCurrent, Current
  <2>2. CallsAreSigned /\ SocketsAreTrusted /\ Signed
    BY DEF Init, NoSockets, CallsAreSigned, SocketsAreTrusted, Signed
  <2>3. QED
    BY <2>1, <2>2 DEF AccessInv
<1>2. TypeOK /\ AccessInv /\ [Next]_vars => AccessInv'
  BY RegistryStep, CallStep, SocketStep, SignedStep DEF AccessInv
<1>3. QED
  BY <1>1, <1>2, AccessTypeCorrect, PTL DEF Spec

-----------------------------------------------------------------------------
(* The promises *)

\* Sockets that are sent anything belong to principals the registries still trust: no
\* revocation leaves one behind.
THEOREM RevocationLeavesNoSocket == Spec => []SocketsAreTrusted
BY AccessInvariant, PTL DEF AccessInv

\* Requests, decisions and acks are accepted under an identity of their sender.
THEOREM IdentitiesAreTrue == Spec => []Signed
BY AccessInvariant, PTL DEF AccessInv

\* Restarts neither forget a token nor revive one that was replaced or revoked, unless a
\* failed save preceded the crash.
THEOREM TokensStayCurrent == Spec => []TokensAreCurrent
<1>1. TypeOK /\ AccessInv => TokensAreCurrent
  <2> SUFFICES ASSUME TypeOK, RegistriesAreCurrent, up,
                      NEW p \in Registered, Registry(p) \notin lost, NEW n \in Number
               PROVE  Speaks(p, n) <=> n > dead[p] /\ n <= issued[p]
    BY DEF TokensAreCurrent, AccessInv
  <2>1. Current(token[p], p) /\ dead[p] <= issued[p] /\ issued[p] <= dead[p] + 1
    BY DEF RegistriesAreCurrent
  <2>2. p # Root
    BY AccessAssumption
  <2>3. n \in Nat /\ issued[p] \in Nat /\ dead[p] \in Nat
    <3>1. dead[p] \in Number \/ dead[p] = 0
      BY DEF TypeOK
    <3>2. ASSUME NEW m \in Number PROVE m \in Nat
      BY NumbersAreNat
    <3>3. 0 \in Nat
      OBVIOUS
    <3>4. QED
      BY <3>1, <3>2, <3>3, IssuedIsNat
  <2>4. CASE token[p] \in Number
    BY <2>1, <2>2, <2>3, <2>4 DEF Speaks, Current
  <2>5. CASE token[p] \notin Number
    BY <2>1, <2>2, <2>3, <2>5 DEF Speaks, Current
  <2>6. QED
    BY <2>4, <2>5
<1>2. QED
  BY <1>1, AccessTypeCorrect, AccessInvariant, PTL

\* Whoever a socket is sent something for is trusted, and is the target if it is an actor.
LEMMA HearersAreTrusted ==
  ASSUME TypeOK, SocketsAreTrusted, NEW target, NEW s \in Sockets, Hears(s, target)
  PROVE  \E p \in Holds[socks[s].client] :
           Trusted(p) /\ (p \in Operators \cup {Root} \/ (p = target /\ target # None))
<1>1. socks[s] \in Socket
  BY DEF Hears, TypeOK
<1>2. CASE socks[s].scope = "actor"
  <2>1. socks[s].actor # None
    BY <1>2 DEF Hears, Is, TypeOK
  <2>2. QED
    BY <1>2, <2>1 DEF Hears, SocketsAreTrusted
<1>3. CASE socks[s].scope = "operator"
  <2>1. socks[s].operator # None
    BY <1>3 DEF Hears, Is, TypeOK
  <2>2. socks[s].operator \in Operators \cup {Root}
    BY <1>1, <2>1 DEF Socket
  <2>3. Trusted(socks[s].operator) /\ socks[s].operator \in Holds[socks[s].client]
    BY <1>3 DEF Hears, SocketsAreTrusted
  <2>4. QED
    BY <2>2, <2>3
<1>4. QED
  BY <1>1, <1>2, <1>3 DEF Hears, Socket

\* What one step tells, to whom: of a trusted principal each, and decisions to the owner
\* of the request or an operator.
LEMMA ToldStep ==
  ASSUME TypeOK, CallsAreSigned, SocketsAreTrusted, Confidential, TellsOnlyTrusted, [Next]_vars
  PROVE  Confidential' /\ TellsOnlyTrusted'
<1>1. ASSUME NEW c \in calls, NEW r \in Requests, Creates(c, r)
      PROVE  Confidential' /\ TellsOnlyTrusted'
  <2>1. CASE told' = {}
    BY <2>1 DEF Confidential, TellsOnlyTrusted
  <2>2. CASE told' # {}
    <3>1. /\ UNCHANGED token /\ owner' = [owner EXCEPT ![r] = c.as]
          /\ author' = [author EXCEPT ![r] = c.by]
          /\ told' = Told("request", r, None) \cup {<<c.by, "created", r>>}
      BY <1>1, <2>2 DEF Creates, registry
    <3>2. ASSUME NEW k \in Told("request", r, None)
          PROVE  Operates(k[1]) /\ \E p \in Holds[k[1]] : Trusted(p)
      BY ItemsTold, HearersAreTrusted DEF Operates
    <3>3. owner'[r] \in Holds[c.by] /\ author'[r] = c.by
      BY <3>1 DEF CallsAreSigned, TypeOK
    <3>4. QED
      BY <3>1, <3>2, <3>3 DEF Confidential, TellsOnlyTrusted, Trusted
  <2>3. QED
    BY <2>1, <2>2
<1>2. ASSUME NEW c \in calls, Decides(c)
      PROVE  Confidential' /\ TellsOnlyTrusted'
  <2> DEFINE r == c.req
             answer == <<c.by, IF decider[r] = None THEN "decided" ELSE "refused", r>>
  <2>1. /\ UNCHANGED <<token, owner>>
        /\ told' \subseteq Told("decision", r, owner[r]) \cup Told("decision", r, None) \cup {answer}
    BY <1>2 DEF Decides, registry
  <2>2. ASSUME NEW k \in Told("decision", r, owner[r]) \cup Told("decision", r, None)
        PROVE  /\ k[2] # "request"
               /\ Operates(k[1]) \/ owner[k[3]] \in Holds[k[1]]
               /\ \E p \in Holds[k[1]] : Trusted(p)
    BY <2>1, ItemsTold, HearersAreTrusted DEF Operates
  <2>3. Operates(c.by)
    BY <1>2 DEF CallsAreSigned, Operates, Decides, TypeOK, Call
  <2>4. ASSUME answer \in told'
        PROVE  (answer[2] = "decided" /\ signer'[r] = c.by) \/ (answer[2] = "refused" /\ decider'[r] # None)
    <3>1. CASE decider[r] = None
      <4>1. r \in Requests
        BY <1>2 DEF Decides, TypeOK, Call
      <4>2. CASE owner[r] = None
        BY <1>2, <2>4, <3>1, <4>2, AccessAssumption DEF Decides
      <4>3. CASE owner[r] # None
        BY <1>2, <3>1, <4>1, <4>3 DEF Decides, TypeOK
      <4>4. QED
        BY <4>2, <4>3
    <3>2. CASE decider[r] # None
      BY <1>2, <3>2 DEF Decides
    <3>3. QED
      BY <3>1, <3>2
  <2>5. answer[1] = c.by /\ answer[3] = r
    OBVIOUS
  <2> HIDE DEF answer, r
  <2>6. QED
    BY <2>1, <2>2, <2>3, <2>4, <2>5 DEF Confidential, TellsOnlyTrusted, Trusted
<1>3. ASSUME NEW h \in Holders, NEW p \in Actors, NEW n \in Number, NEW r \in Requests,
             Poll(h, p, n, r)
      PROVE  Confidential' /\ TellsOnlyTrusted'
  <2>1. p \in Holds[h] /\ p = owner[r] /\ Trusted(p)
    BY <1>3 DEF Poll, Presents, Matches, Speaks, Trusted
  <2>2. told' = {<<h, "decision", r>>} /\ UNCHANGED <<token, owner>>
    BY <1>3 DEF Poll, registry, store
  <2>3. QED
    BY <2>1, <2>2 DEF Confidential, TellsOnlyTrusted, Trusted
<1>4. ASSUME NEW h \in Holders, NEW p \in Actors, NEW n \in Number, NEW r \in Requests,
             Ack(h, p, n, r)
      PROVE  Confidential' /\ TellsOnlyTrusted'
  <2>1. p \in Holds[h] /\ p = owner[r] /\ Trusted(p)
    BY <1>4 DEF Ack, Presents, Matches, Speaks, Trusted
  <2>2. told' = Told("decision", r, None) \cup {<<h, "ack", r>>} /\ UNCHANGED <<token, owner>>
    BY <1>4 DEF Ack, registry
  <2>3. ASSUME NEW k \in Told("decision", r, None)
        PROVE  Operates(k[1]) /\ \E q \in Holds[k[1]] : Trusted(q)
    BY ItemsTold, HearersAreTrusted DEF Operates
  <2>4. QED
    BY <2>1, <2>2, <2>3 DEF Confidential, TellsOnlyTrusted, Trusted
<1>5. ASSUME told' = {} PROVE Confidential' /\ TellsOnlyTrusted'
  BY <1>5 DEF Confidential, TellsOnlyTrusted
<1>6. CASE UNCHANGED vars
  BY <1>6 DEF vars, registry, store, Confidential, TellsOnlyTrusted, Trusted
<1>7. QED
  BY <1>1, <1>2, <1>3, <1>4, <1>5, <1>6
  DEF Next, Registrations, Register, Revocations, Revoke, Heartbeats, Heartbeat, Calls,
      Arrives, Bodies, Polls, Acks, Connections, Connect, Messages, Auth, Timeouts, AuthTimeout,
      Disconnections, Disconnect, Crash, Start

LEMMA ToldAlways == Spec => [](Confidential /\ TellsOnlyTrusted)
<1>1. Init => Confidential /\ TellsOnlyTrusted
  BY DEF Init, Confidential, TellsOnlyTrusted
<1>2. TypeOK /\ AccessInv /\ Confidential /\ TellsOnlyTrusted /\ [Next]_vars
      => Confidential' /\ TellsOnlyTrusted'
  BY ToldStep DEF AccessInv
<1>3. QED
  BY <1>1, <1>2, AccessTypeCorrect, AccessInvariant, PTL DEF Spec

\* A holder that was never given an operator's token learns of no request of others, and of no
\* decision but those on requests of its own actors.
THEOREM DecisionsAreConfidential == Spec => []Confidential
BY ToldAlways, PTL

\* Nobody is told anything who is not trusted any more, but for the answer to a call that was
\* authorized before, which tells its sender of nothing but what it did with it.
THEOREM OnlyTrustedAreTold == Spec => []TellsOnlyTrusted
BY ToldAlways, PTL
=============================================================================
