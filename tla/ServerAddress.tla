---------------------------- MODULE ServerAddress ----------------------------
(***************************************************************************)
(* Where the dashboard looks for its server: src/utils/server-address.js,  *)
(* src/hooks/useServerAddress.js, the effects of App.jsx that use them and *)
(* the search for servers in components/maestro/ServerAddressPanel.jsx.    *)
(* An address is a scheme and a port, 0 if it is implied; a user's also    *)
(* has the schemes of web pages or none. The panel's test of an address,   *)
(* which changes nothing but what it says, is left out.                    *)
(***************************************************************************)
EXTENDS Naturals

CONSTANTS
  None,
  Default,     \* getDefaultWsUrl: an address of another host, which no input is
  MaxChanges,  \* bound: addresses saved and reset
  MaxScans,    \* bound: searches
  MaxReloads   \* bound: reloads of the page

VARIABLES
  stored,     \* SERVER_WS_URL_STORAGE_KEY
  wsUrl, hasStored,
  remote,     \* the page is a native shell's or not this machine's
  probe,      \* the address whose first test is under way
  probed,     \* hasAutoOpenedServerPanelRef
  open,       \* isServerPanelOpen
  playing,
  socket,     \* the address of the dashboard's socket
  scan,       \* discovery.status
  beginning,  \* calls of ZeroConf.watch under way
  watching,   \* results may come
  timer,      \* discoveryTimerRef
  stray,      \* a result came when no timer was left to end the search
  chosen,     \* the address the user has saved
  intruded,   \* the panel opened by itself though an address was saved
  changes, scans, reloads

screen == <<open, playing, socket>>
search == <<scan, beginning, watching, timer, stray>>
address == <<stored, wsUrl, hasStored, chosen>>
vars == <<address, remote, probe, probed, screen, search, intruded, changes, scans, reloads>>

Inputs == [scheme : {"none", "ws", "wss", "http", "https", "ftp"}, port : {0, 80, 443, 8080}]

Secure(scheme) == scheme \in {"wss", "https"}

\* URL.port is empty for the port a scheme implies.
SeenPort(i) == IF i.port = (IF Secure(i.scheme) THEN 443 ELSE 80) THEN 0 ELSE i.port

\* Mutant: the address keeps the scheme of a web page.
Normalized_bug(i) ==
  IF i.scheme = "ftp" THEN None
  ELSE [scheme |-> IF i.scheme = "none" THEN "ws" ELSE i.scheme, port |-> SeenPort(i)]

\* normalizeWsUrlInput.
Normalized(i) ==
  IF i.scheme = "ftp" THEN None
  ELSE [scheme |-> IF Secure(i.scheme) THEN "wss" ELSE "ws",
        port |-> IF SeenPort(i) # 0 \/ Secure(i.scheme) THEN SeenPort(i)
                 ELSE IF i.scheme = "http" THEN 80 ELSE 8080]

\* getStoredWsUrl; resolveInitialWsUrl takes the default if there is none.
Restored(s) == IF s = None THEN None ELSE Normalized(s)

\* The page is opened: shouldAutoOpenServerSetup asks for a test.
Opened(s) ==
  /\ wsUrl' = IF Restored(s) = None THEN Default ELSE Restored(s)
  /\ hasStored' = (Restored(s) # None)
  /\ probe' = IF remote /\ Restored(s) = None THEN wsUrl' ELSE None
  /\ probed' = (probe' # None)

Init ==
  /\ stored = None /\ wsUrl = Default /\ hasStored = FALSE /\ chosen = None
  /\ remote \in BOOLEAN /\ probe = (IF remote THEN Default ELSE None) /\ probed = remote
  /\ open = FALSE /\ playing = FALSE /\ socket = None
  /\ scan = "idle" /\ beginning = 0 /\ watching = FALSE /\ timer = FALSE /\ stray = FALSE
  /\ intruded = FALSE /\ changes = 0 /\ scans = 0 /\ reloads = 0

Reload ==
  /\ reloads < MaxReloads /\ reloads' = reloads + 1
  /\ Opened(stored) /\ open' = FALSE /\ playing' = FALSE /\ socket' = None
  /\ scan' = "idle" /\ beginning' = 0 /\ watching' = FALSE /\ timer' = FALSE /\ stray' = FALSE
  /\ UNCHANGED <<stored, remote, chosen, intruded, changes, scans>>

-----------------------------------------------------------------------------
\* Mutant: the answer of the first test is not cancelled by the change.
Renders_bug ==
  /\ socket' = IF wsUrl' = wsUrl THEN socket ELSE IF playing THEN wsUrl' ELSE None
  /\ UNCHANGED <<probe, probed>>

\* The effects on wsUrl and hasStoredWsUrl: the socket follows, a test under way no longer counts,
\* and one is begun if there has been none.
Renders ==
  /\ socket' = IF wsUrl' = wsUrl THEN socket ELSE IF playing THEN wsUrl' ELSE None
  /\ LET asks == remote /\ ~hasStored' /\ ~probed IN
     /\ probed' = (probed \/ asks)
     /\ probe' = IF asks THEN wsUrl' ELSE IF wsUrl' = wsUrl /\ hasStored' = hasStored THEN probe ELSE None

\* A closed panel forgets the search and the timer that would end it.
Closes == open' = FALSE /\ scan' = "idle" /\ timer' = FALSE /\ stray' = FALSE

\* handleSave and saveWsUrl,
Save(i) ==
  /\ open /\ changes < MaxChanges /\ changes' = changes + 1
  /\ Normalized(i) # None
  /\ stored' = Normalized(i) /\ wsUrl' = stored' /\ hasStored' = TRUE /\ chosen' = stored'
  /\ Renders /\ Closes
  /\ UNCHANGED <<remote, playing, beginning, watching, intruded, scans, reloads>>

\* and resetWsUrl.
Reset ==
  /\ open /\ changes < MaxChanges /\ changes' = changes + 1
  /\ stored' = None /\ wsUrl' = Default /\ hasStored' = FALSE /\ chosen' = None
  /\ Renders
  /\ UNCHANGED <<remote, open, playing, search, intruded, scans, reloads>>

Toggle ==
  /\ IF open THEN Closes ELSE open' = TRUE /\ UNCHANGED <<scan, timer, stray>>
  /\ UNCHANGED <<address, remote, probe, probed, playing, socket, beginning, watching, intruded,
                 changes, scans, reloads>>

\* The first test is answered.
Probed(ok) ==
  /\ probe # None /\ probe' = None
  /\ open' = (open \/ ~ok) /\ intruded' = (intruded \/ (~ok /\ ~open /\ hasStored))
  /\ UNCHANGED <<address, remote, probed, playing, socket, search, changes, scans, reloads>>

\* The game is started or stopped; its socket may drop.
StartGame == ~playing /\ playing' = TRUE /\ socket' = wsUrl
StopGame == playing /\ playing' = FALSE /\ socket' = None
SocketDrops == socket # None /\ socket' = None /\ UNCHANGED playing

Game ==
  /\ StartGame \/ StopGame \/ SocketDrops
  /\ UNCHANGED <<address, remote, probe, probed, open, search, intruded, changes, scans, reloads>>

-----------------------------------------------------------------------------
\* handleDiscover: it asks to be told of servers,
Discover ==
  /\ open /\ remote /\ scan # "scanning" /\ scans < MaxScans /\ scans' = scans + 1
  /\ scan' = "scanning" /\ beginning' = beginning + 1 /\ stray' = FALSE
  /\ UNCHANGED <<watching, timer>>

\* and once this has begun, or failed, a timer will end it.
Begins ==
  /\ beginning > 0 /\ beginning' = beginning - 1
  /\ \/ watching' = TRUE /\ timer' = TRUE /\ UNCHANGED scan
     \/ scan' = "error" /\ UNCHANGED <<watching, timer>>
  /\ UNCHANGED <<stray, scans>>

Found ==
  /\ watching /\ scan' = "scanning" /\ stray' = (stray \/ (~timer /\ beginning = 0))
  /\ UNCHANGED <<beginning, watching, timer, scans>>

\* The search ends; results may go on to come if it cannot be ended.
TimerFires ==
  /\ timer /\ timer' = FALSE /\ watching' \in {FALSE, watching} /\ scan' = "done"
  /\ UNCHANGED <<beginning, stray, scans>>

Search ==
  /\ Discover \/ Begins \/ Found \/ TimerFires
  /\ UNCHANGED <<address, remote, probe, probed, screen, intruded, changes, reloads>>

Next ==
  \/ Reload \/ Reset \/ Toggle \/ Game \/ Search
  \/ \E i \in Inputs : Save(i)
  \/ \E ok \in BOOLEAN : Probed(ok)

Spec == Init /\ [][Next]_vars

-----------------------------------------------------------------------------
Addresses == [scheme : {"ws", "wss"}, port : {0, 80, 443, 8080}]

TypeOK ==
  /\ stored \in Addresses \cup {None} /\ wsUrl \in Addresses \cup {Default}
  /\ chosen \in Addresses \cup {None} /\ probe \in Addresses \cup {None, Default}
  /\ socket \in Addresses \cup {None, Default}
  /\ \A b \in {hasStored, remote, probed, open, playing, watching, timer, stray, intruded} : b \in BOOLEAN
  /\ scan \in {"idle", "scanning", "done", "error"} /\ beginning \in 0..MaxScans

\* The address that was saved is the one that is used, through resets and reloads, and the socket
\* is one to it; but port 80 of a ws address becomes 8080 when the page is opened again.
Port80 == [scheme |-> "ws", port |-> 80]

AddressKept ==
  /\ chosen = None => wsUrl = Default
  /\ chosen \notin {None, Port80} => wsUrl = chosen
  /\ socket # None => socket = wsUrl

\* A user who writes a port gets it, except port 80 in an address that is not of a web page.
Port(a) == IF a.port # 0 THEN a.port ELSE IF Secure(a.scheme) THEN 443 ELSE 80
PortAsWritten ==
  \A i \in Inputs : Normalized(i) # None /\ i.port # 0 /\ ~(i.port = 80 /\ i.scheme \in {"ws", "none"})
                      => Port(Normalized(i)) = i.port

\* The panel never opens by itself once an address was saved, and a search that is shown as going
\* on will end, unless a result comes after the panel was closed or the search could not be ended.
PanelIsCalm == ~intruded /\ (scan = "scanning" => beginning > 0 \/ timer \/ stray)

-----------------------------------------------------------------------------
(* Why they hold: an inductive invariant. *)

\* What is saved is an address as it was read; a test is under way only while none is.
AddressInvariant ==
  /\ TypeOK /\ AddressKept /\ PanelIsCalm
  /\ stored = chosen
  /\ stored # None => \E i \in Inputs : stored = Normalized(i)
  /\ probe # None => ~hasStored
  /\ scans \in 0..MaxScans /\ beginning <= scans
=============================================================================
