------------------------------ MODULE MCParts ------------------------------
(***************************************************************************)
(* The parts that share no state with each other, as instances for TLC:    *)
(* those of ClientParts and PlayerParts, the agents' tokens (T), the       *)
(* connector (E) and the launchers (L). A behaviour is a behaviour of one  *)
(* part, which `part` names, while the variables of the others keep their  *)
(* first values.                                                           *)
(***************************************************************************)
EXTENDS ClientParts, PlayerParts, TLC

CONSTANTS
  Agents, Long, Cut, Unknown, Server, MaxTokens, MaxCalls,
  OwnId, SharedId,
  Mails, MaxRequests, MaxRuns,
  Windows, Commands, Apps, Reused, MaxServers

\* What the proofs need to know of the constants: bounds are numbers, and what stands for nothing
\* is none of the values it is put beside.
ASSUME PartBounds == {MaxTokens, MaxServers, MaxRequests, MaxRuns} \subseteq Nat
ASSUME NoneIsNothing ==
  None \notin Agents /\ None \notin {"approve", "reject"}
  /\ None \notin 0..MaxTokens /\ None \notin 0..MaxServers
ASSUME ReusedIsNoServer == Reused \notin 0..MaxServers /\ Reused # None

\* Two paths whose runtime ids are the same, and one that has an id of its own.
p1 == 1
p2 == 2
p3 == 3
MCPaths == {p1, p2, p3}
MCRuntimeId == [p \in MCPaths |-> IF p = p3 THEN OwnId ELSE SharedId]

\* A demo, a repository, one with an event that comes twice, and one without events.
Note(key, name, lane, beat, length) ==
  [key |-> key, id |-> name, lane |-> lane, beat |-> beat, length |-> length]
MCFolder == [f \in {1, 2} |-> 1]
MCCommit == [files |-> <<>>, parents |-> 1, says |-> "something", refs |-> {}]
MCGolden == {"demo"}
MCRepos == {"repo", "twice", "empty"}
MCNotes == [demo  |-> {Note(1, 1, 1, 0, 50), Note(2, 2, 1, 75, 100)},
            repo  |-> {Note(1, 1, 1, 0, 50)},
            twice |-> {Note(1, 1, 1, 0, 100), Note(2, 1, 1, 50, 100)},
            empty |-> {}]

VARIABLES
  part,
  tUp, setup, mem, file, issued, dead, tCalls, heard, mistaken, behind, lost, tFailures, tCrashes,
  pc, mail, todo, eRequest, eAsked, eSocket, received, current, processed, sent, torn, runs,
  eFailures,
  foreign, proc, lStage, child, handle, term, left, misled, gone, lFailures

tVars == <<tUp, setup, mem, file, issued, dead, tCalls, heard, mistaken, behind, lost, tFailures,
          tCrashes>>
eVars == <<pc, mail, todo, eRequest, eAsked, eSocket, received, current, processed, sent, torn,
          runs, eFailures>>
lVars == <<foreign, proc, lStage, child, handle, term, left, misled, gone, lFailures>>
allVars == <<part, tVars, pVars, eVars, yVars, cVars, rVars, wVars, oVars, kVars, lVars, aVars,
             hVars, bVars, dVars, xVars, vVars, gVars, qVars>>

T == INSTANCE AgentTokens WITH up <- tUp, calls <- tCalls, failures <- tFailures,
       crashes <- tCrashes
E == INSTANCE EmailConnector WITH request <- eRequest, asked <- eAsked, socket <- eSocket,
       failures <- eFailures
L == INSTANCE Launcher WITH stage <- lStage, failures <- lFailures

Parts == {"tokens", "projects", "connector", "player", "chart", "sources", "client", "ops", "console",
          "launcher", "audio", "hooks", "music", "address", "launch", "review", "local", "chain"}

\* A part that is not looked at begins in one of its first states.
Init ==
  /\ part \in Parts
  /\ part # "tokens" => setup = "open"
  /\ part # "sources" => access = [provider |-> "github", token |-> FALSE]
  /\ part # "client" => wStrict = FALSE /\ wToken = FALSE
  /\ part # "ops" => panel = "agents" /\ oStrict = FALSE /\ oToken = FALSE /\ open = FALSE
  /\ part # "console" => panels = {}
  /\ part # "launcher" => foreign = FALSE
  /\ part # "hooks" => hook = <<>>
  /\ part # "music" => url = CHOOSE u \in Channels : TRUE
  /\ part # "address" => remote = FALSE
  /\ part # "review" => branch = V!Gone
  /\ part # "local" => commit = MCCommit
  /\ T!Init /\ P!Init /\ E!Init /\ Y!Init /\ C!Init /\ R!Init /\ W!Init /\ O!Init /\ K!Init /\ L!Init
  /\ A!Init /\ H!Init /\ B!Init /\ D!Init /\ X!Init /\ V!Init /\ G!Init /\ Q!Init

Next ==
  /\ UNCHANGED part
  /\ \/ part = "tokens" /\ T!Next
        /\ UNCHANGED <<pVars, eVars, yVars, cVars, rVars, wVars, oVars, kVars, lVars, aVars, hVars,
                       bVars, dVars, xVars, vVars, gVars, qVars>>
     \/ part = "projects" /\ P!Next
        /\ UNCHANGED <<tVars, eVars, yVars, cVars, rVars, wVars, oVars, kVars, lVars, aVars, hVars,
                       bVars, dVars, xVars, vVars, gVars, qVars>>
     \/ part = "connector" /\ E!Next
        /\ UNCHANGED <<tVars, pVars, yVars, cVars, rVars, wVars, oVars, kVars, lVars, aVars, hVars,
                       bVars, dVars, xVars, vVars, gVars, qVars>>
     \/ part = "player" /\ Y!Next
        /\ UNCHANGED <<tVars, pVars, eVars, cVars, rVars, wVars, oVars, kVars, lVars, aVars, hVars,
                       bVars, dVars, xVars, vVars, gVars, qVars>>
     \/ part = "chart" /\ C!Next
        /\ UNCHANGED <<tVars, pVars, eVars, yVars, rVars, wVars, oVars, kVars, lVars, aVars, hVars,
                       bVars, dVars, xVars, vVars, gVars, qVars>>
     \/ part = "sources" /\ R!Next
        /\ UNCHANGED <<tVars, pVars, eVars, yVars, cVars, wVars, oVars, kVars, lVars, aVars, hVars,
                       bVars, dVars, xVars, vVars, gVars, qVars>>
     \/ part = "client" /\ W!Next
        /\ UNCHANGED <<tVars, pVars, eVars, yVars, cVars, rVars, oVars, kVars, lVars, aVars, hVars,
                       bVars, dVars, xVars, vVars, gVars, qVars>>
     \/ part = "ops" /\ O!Next
        /\ UNCHANGED <<tVars, pVars, eVars, yVars, cVars, rVars, wVars, kVars, lVars, aVars, hVars,
                       bVars, dVars, xVars, vVars, gVars, qVars>>
     \/ part = "console" /\ K!Next
        /\ UNCHANGED <<tVars, pVars, eVars, yVars, cVars, rVars, wVars, oVars, lVars, aVars, hVars,
                       bVars, dVars, xVars, vVars, gVars, qVars>>
     \/ part = "launcher" /\ L!Next
        /\ UNCHANGED <<tVars, pVars, eVars, yVars, cVars, rVars, wVars, oVars, kVars, aVars, hVars,
                       bVars, dVars, xVars, vVars, gVars, qVars>>
     \/ part = "audio" /\ A!Next
        /\ UNCHANGED <<tVars, pVars, eVars, yVars, cVars, rVars, wVars, oVars, kVars, lVars, hVars,
                       bVars, dVars, xVars, vVars, gVars, qVars>>
     \/ part = "hooks" /\ H!Next
        /\ UNCHANGED <<tVars, pVars, eVars, yVars, cVars, rVars, wVars, oVars, kVars, lVars, aVars,
                       bVars, dVars, xVars, vVars, gVars, qVars>>
     \/ part = "music" /\ B!Next
        /\ UNCHANGED <<tVars, pVars, eVars, yVars, cVars, rVars, wVars, oVars, kVars, lVars, aVars,
                       hVars, dVars, xVars, vVars, gVars, qVars>>
     \/ part = "address" /\ D!Next
        /\ UNCHANGED <<tVars, pVars, eVars, yVars, cVars, rVars, wVars, oVars, kVars, lVars, aVars,
                       hVars, bVars, xVars, vVars, gVars, qVars>>
     \/ part = "launch" /\ X!Next
        /\ UNCHANGED <<tVars, pVars, eVars, yVars, cVars, rVars, wVars, oVars, kVars, lVars, aVars,
                       hVars, bVars, dVars, vVars, gVars, qVars>>
     \/ part = "review" /\ V!Next
        /\ UNCHANGED <<tVars, pVars, eVars, yVars, cVars, rVars, wVars, oVars, kVars, lVars, aVars,
                       hVars, bVars, dVars, xVars, gVars, qVars>>
     \/ part = "local" /\ G!Next
        /\ UNCHANGED <<tVars, pVars, eVars, yVars, cVars, rVars, wVars, oVars, kVars, lVars, aVars,
                       hVars, bVars, dVars, xVars, vVars, qVars>>
     \/ part = "chain" /\ Q!Next
        /\ UNCHANGED <<tVars, pVars, eVars, yVars, cVars, rVars, wVars, oVars, kVars, lVars, aVars,
                       hVars, bVars, dVars, xVars, vVars, gVars>>

Spec == Init /\ [][Next]_allVars

TypeOK ==
  CASE part = "tokens" -> T!TypeOK
    [] part = "projects" -> P!TypeOK
    [] part = "connector" -> E!TypeOK
    [] part = "player" -> Y!TypeOK
    [] part = "chart" -> C!TypeOK
    [] part = "sources" -> R!TypeOK
    [] part = "client" -> W!TypeOK
    [] part = "ops" -> O!TypeOK
    [] part = "console" -> K!TypeOK
    [] part = "launcher" -> L!TypeOK
    [] part = "audio" -> A!TypeOK
    [] part = "hooks" -> H!TypeOK
    [] part = "music" -> B!TypeOK
    [] part = "address" -> D!TypeOK
    [] part = "launch" -> X!TypeOK
    [] part = "review" -> V!TypeOK
    [] part = "local" -> G!TypeOK
    [] part = "chain" -> Q!TypeOK

\* Replaced and revoked tokens admit nobody, through failed saves and restarts, and agents are
\* served what is theirs (maestro-server.js).
TokensHold == part = "tokens" => T!TokensHold /\ T!OwnRequestsAreServed

\* The registry and .env survive every order of selections, updates, registrations and commands
\* that change them one at a time, and the hooks every order of installations and of the user's
\* edits (maestro-server.js, scripts).
ProjectFilesHold ==
  /\ part = "projects" => P!ProjectsStay /\ P!RegistrySound /\ P!EnvIsKept
  /\ part = "hooks" => H!UsersLinesStay /\ H!NotifiesOnce

\* The connector sends what was approved, once, and drops no mail (email-connector/lib.mjs).
ConnectorHolds == part = "connector" => E!SentAsApproved /\ E!MarkedIsSettled

\* A replay is shown whole, its chart can be played and ends, and its runs are heard and remembered;
\* a tab loads the repository it was opened for (player/src, player/extension). What does not
\* depend on the state is evaluated in the first one.
PlayerHolds ==
  /\ part = "player" => Y!RunEnds /\ Y!RunSound /\ Y!AutoplayStarts /\ Y!HistoryKeeps
  /\ part = "audio" => A!SoundFollowsRun /\ A!CuesOnce
  /\ part = "launch" => X!TabsLoadTheirOwn /\ X!LaunchAsMeant
  /\ part = "chart" => C!ChartPlayable /\ C!EventsAreHeard
  /\ part = "chart" /\ events = 0 => C!ChordsFit
  /\ part = "sources" => R!NothingInPart
  /\ part = "local" => G!EventIsTheCommits
  /\ part = "sources" /\ stage = "list" => R!DiscussionsAlternate

\* The screens that listen to a server, or to a music player, catch up with it, are never cut off
\* silently, use the address they were given and leave the user's selection alone; a review is
\* whole or says what it lacks, and a chain of requests is the same from each of them (workflow,
\* src/src/hooks, buildReview).
ScreensSettle ==
  /\ part = "client" => W!NeverStuck /\ W!BoardCatchesUp
  /\ part = "ops" => O!PanelsCatchUp
  /\ part = "console" => K!SelectionIsOwn /\ K!ConsoleCatchesUp
  /\ part = "music" => B!MusicSettles
  /\ part = "music" /\ clicks = 0 => B!ChannelsStay
  /\ part = "address" => D!AddressKept /\ D!PanelIsCalm
  /\ part = "address" /\ dChanges = 0 => D!PortAsWritten
  /\ part = "review" => V!ReviewIsWhole
  /\ part = "chain" => Q!ChainIsShared

\* A server that was started has an owner who can stop it, and one only (vscode-extension,
\* lib/server-embed.mjs, bin/maestro-server.mjs, scripts/start-app.mjs).
LaunchersHold == part = "launcher" => L!NoOrphans /\ L!HandlesAreOwn
=============================================================================
