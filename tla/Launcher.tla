------------------------------- MODULE Launcher -------------------------------
(***************************************************************************)
(* Who starts and stops the approval server: windows of the VS Code        *)
(* extension (vscode-extension/lifecycle.cjs, extension.cjs) and the       *)
(* command (bin/maestro-server.mjs), both through lib/server-embed.mjs,    *)
(* and npm run start:app (scripts/start-app.mjs). All use one port, which  *)
(* another program may hold. A server dies of a second one's port, of      *)
(* SIGTERM, which it does not handle, or of itself.                        *)
(***************************************************************************)
EXTENDS Naturals, Sequences, FiniteSets

CONSTANTS
  Windows, Commands, Apps,  \* those that start servers
  None,
  Reused,       \* a handle on a server that was found
  MaxServers,   \* bound: servers ever started
  MaxFailures   \* bound: servers that die of themselves and answers that come too late

Owners == Windows \cup Commands \cup Apps

VARIABLES
  foreign,  \* another program listens on the port
  proc,     \* the servers that were started: "booting", "serving" or "dead"
  stage,    \* stage[w]: where the start of w is: "off", "probe", "wait", "ask" or "abort"
  child,    \* child[w]: the server it has spawned
  handle,   \* handle[w]: the server w has: None, Reused or one it has started
  term,     \* servers that were sent SIGTERM
  left,     \* servers whose owner ended while it was starting them
  misled,   \* servers taken for ready when another program had answered
  gone,     \* owners that have ended
  failures

vars == <<foreign, proc, stage, child, handle, term, left, misled, gone, failures>>

Servers == 1..Len(proc)
Alive(n) == proc[n] # "dead"
Serving(n) == proc[n] = "serving"
Answering == {n \in Servers : Serving(n)}

Init ==
  /\ foreign \in BOOLEAN /\ proc = <<>>
  /\ stage = [w \in Owners |-> "off"] /\ child = [w \in Owners |-> None]
  /\ handle = [w \in Owners |-> None]
  /\ term = {} /\ left = {} /\ misled = {} /\ gone = {} /\ failures = 0

\* Mutant: a start does not wait for the one under way.
Start_bug(w) ==
  /\ w \notin gone \cup Apps /\ handle[w] = None
  /\ stage' = [stage EXCEPT ![w] = "probe"]
  /\ UNCHANGED <<foreign, proc, child, handle, term, left, misled, gone, failures>>

\* lifecycle.start without a handle or a start under way, and the command.
Start(w) ==
  /\ w \notin gone \cup Apps /\ handle[w] = None /\ stage[w] = "off"
  /\ stage' = [stage EXCEPT ![w] = "probe"]
  /\ UNCHANGED <<foreign, proc, child, handle, term, left, misled, gone, failures>>

\* A server answers the first probe. A command says so and ends.
Reuses(w) ==
  /\ stage[w] = "probe" /\ Answering # {}
  /\ stage' = [stage EXCEPT ![w] = "off"]
  /\ IF w \in Windows THEN handle' = [handle EXCEPT ![w] = Reused] /\ UNCHANGED gone
                      ELSE gone' = gone \cup {w} /\ UNCHANGED handle
  /\ UNCHANGED <<foreign, proc, child, term, left, misled, failures>>

\* Another program does: the error is shown, and the command ends with it.
Refuses(w) ==
  /\ stage[w] = "probe" /\ foreign
  /\ stage' = [stage EXCEPT ![w] = "off"]
  /\ gone' = IF w \in Commands THEN gone \cup {w} ELSE gone
  /\ UNCHANGED <<foreign, proc, child, handle, term, left, misled, failures>>

Spawns(w) ==
  /\ Len(proc) < MaxServers
  /\ proc' = Append(proc, "booting")
  /\ child' = [child EXCEPT ![w] = Len(proc) + 1]
  /\ stage' = [stage EXCEPT ![w] = "wait"]
  /\ UNCHANGED <<foreign, handle, term, left, misled, gone>>

\* Nothing does, or not in time.
StartsServer(w) ==
  /\ stage[w] = "probe"
  /\ IF Answering = {} /\ ~foreign THEN UNCHANGED failures
     ELSE failures < MaxFailures /\ failures' = failures + 1
  /\ Spawns(w)

\* start:app does not ask before.
AppStarts(w) ==
  /\ w \in Apps \ gone /\ child[w] = None
  /\ Spawns(w) /\ UNCHANGED failures

-----------------------------------------------------------------------------
\* The server listens, or dies of EADDRINUSE.
Listens(n) ==
  /\ proc[n] = "booting"
  /\ proc' = [proc EXCEPT ![n] = IF foreign \/ Answering # {} THEN "dead" ELSE "serving"]
  /\ UNCHANGED <<foreign, stage, child, handle, term, left, misled, gone, failures>>

\* SIGTERM has come through (run-server.mjs passes it on).
Terminates(n) ==
  /\ n \in term /\ Alive(n) /\ proc' = [proc EXCEPT ![n] = "dead"]
  /\ UNCHANGED <<foreign, stage, child, handle, term, left, misled, gone, failures>>

Dies(n) ==
  /\ Alive(n) /\ failures < MaxFailures /\ failures' = failures + 1
  /\ proc' = [proc EXCEPT ![n] = "dead"]
  /\ UNCHANGED <<foreign, stage, child, handle, term, left, misled, gone>>

-----------------------------------------------------------------------------
\* The loop of the start looks whether the child has exited and asks for /health,
Asks(w) ==
  /\ stage[w] = "wait" /\ Alive(child[w])
  /\ stage' = [stage EXCEPT ![w] = "ask"]
  /\ UNCHANGED <<foreign, proc, child, handle, term, left, misled, gone, failures>>

\* which is answered by whoever listens; start:app takes any program for the server.
Ready(w) ==
  /\ stage[w] = "ask"
  /\ Answering # {} \/ (foreign /\ w \in Apps)
  /\ stage' = [stage EXCEPT ![w] = "off"]
  /\ handle' = [handle EXCEPT ![w] = child[w]]
  /\ misled' = IF Serving(child[w]) THEN misled ELSE misled \cup {child[w]}
  /\ UNCHANGED <<foreign, proc, child, term, left, gone, failures>>

NotReady(w) ==
  /\ stage[w] = "ask"
  /\ stage' = [stage EXCEPT ![w] = "wait"]
  /\ UNCHANGED <<foreign, proc, child, handle, term, left, misled, gone, failures>>

\* The child has exited or the time is over: it is stopped, and the error thrown.
GivesUp(w) ==
  /\ stage[w] = "wait"
  /\ stage' = [stage EXCEPT ![w] = "abort"]
  /\ term' = term \cup {child[w]}
  /\ UNCHANGED <<foreign, proc, child, handle, left, misled, gone, failures>>

Fails(w) ==
  /\ stage[w] = "abort" /\ ~Alive(child[w])
  /\ stage' = [stage EXCEPT ![w] = "off"]
  /\ gone' = IF w \in Windows THEN gone ELSE gone \cup {w}
  /\ UNCHANGED <<foreign, proc, child, handle, term, left, misled, failures>>

-----------------------------------------------------------------------------
Own(w) == {handle[w]} \cap Servers

\* lifecycle.stop: nothing while a server is being started, and nothing to one that was found.
Stop(w) ==
  /\ w \in Windows \ gone /\ handle[w] # None
  /\ handle' = [handle EXCEPT ![w] = None]
  /\ term' = term \cup Own(w)
  /\ UNCHANGED <<foreign, proc, stage, child, left, misled, gone, failures>>

\* The window is closed (deactivate), or the command gets a signal: without a handle it has no
\* handler for it. start:app has one from the beginning.
Ends(w) ==
  /\ w \notin gone /\ gone' = gone \cup {w}
  /\ LET starting == IF stage[w] \in {"wait", "ask"} THEN {child[w]} ELSE {} IN
     /\ term' = term \cup Own(w) \cup IF w \in Apps THEN starting ELSE {}
     /\ left' = left \cup IF w \in Apps THEN {} ELSE starting
  /\ handle' = [handle EXCEPT ![w] = None]
  /\ stage' = [stage EXCEPT ![w] = "off"]
  /\ UNCHANGED <<foreign, proc, child, misled, failures>>

\* The command and start:app end with their server; a window does not notice.
EndsWithServer(w) ==
  /\ w \in (Commands \cup Apps) \ gone
  /\ handle[w] \in Servers \/ (w \in Apps /\ child[w] # None)
  /\ ~Alive(child[w])
  /\ gone' = gone \cup {w}
  /\ handle' = [handle EXCEPT ![w] = None]
  /\ stage' = [stage EXCEPT ![w] = "off"]
  /\ UNCHANGED <<foreign, proc, child, term, left, misled, failures>>

Next ==
  \/ \E w \in Owners :
       \/ Start(w) \/ Reuses(w) \/ Refuses(w) \/ StartsServer(w) \/ AppStarts(w)
       \/ Asks(w) \/ Ready(w) \/ NotReady(w) \/ GivesUp(w) \/ Fails(w)
       \/ Stop(w) \/ Ends(w) \/ EndsWithServer(w)
  \/ \E n \in Servers : Listens(n) \/ Terminates(n) \/ Dies(n)

Spec == Init /\ [][Next]_vars

-----------------------------------------------------------------------------
TypeOK ==
  /\ foreign \in BOOLEAN /\ proc \in Seq({"booting", "serving", "dead"}) /\ Len(proc) <= MaxServers
  /\ stage \in [Owners -> {"off", "probe", "wait", "ask", "abort"}]
  /\ child \in [Owners -> Servers \cup {None}] /\ handle \in [Owners -> Servers \cup {None, Reused}]
  /\ term \subseteq Servers /\ left \subseteq Servers /\ misled \subseteq Servers
  /\ gone \subseteq Owners /\ failures \in 0..MaxFailures

\* A server that runs belongs to somebody who can stop it, or was told to stop; but whoever ends
\* while it is starting a server leaves it behind.
NoOrphans ==
  \A n \in Servers : Alive(n) =>
    \/ n \in term \cup left
    \/ \E w \in Owners : handle[w] = n \/ (stage[w] # "off" /\ child[w] = n)

\* A handle on a server that was started is on the last one its holder has started, on nobody
\* else's, and on one that is listening or has died since, unless another answered for it.
HandlesAreOwn ==
  \A w \in Owners : handle[w] \in Servers =>
    /\ handle[w] = child[w]
    /\ \A v \in Owners \ {w} : handle[v] # handle[w]
    /\ proc[handle[w]] # "booting" \/ handle[w] \in misled

-----------------------------------------------------------------------------
(* Inductive invariants, for the proofs. *)

\* Who is starting the server n, or has not yet seen that it was stopped.
Starting(w, n) == stage[w] \in {"wait", "ask", "abort"} /\ child[w] = n

\* Everyone has started a server of its own, and has no handle on it before it is ready.
ChildrenInv ==
  \A w \in Owners :
    /\ stage[w] \in {"wait", "ask", "abort"} => child[w] \in Servers
    /\ stage[w] = "abort" => child[w] \in term
    /\ handle[w] \in Servers =>
         /\ stage[w] = "off" /\ handle[w] = child[w]
         /\ proc[handle[w]] # "booting" \/ handle[w] \in misled
    /\ child[w] \in Servers => \A v \in Owners \ {w} : child[v] # child[w]

\* NoOrphans, where who only asks whether there is a server does not count.
OwnersInv ==
  \A n \in Servers : Alive(n) =>
    n \in term \cup left \/ \E w \in Owners : handle[w] = n \/ Starting(w, n)
=============================================================================
