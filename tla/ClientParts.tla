----------------------------- MODULE ClientParts -----------------------------
(***************************************************************************)
(* The parts that keep files of a user's or show what a server keeps, each *)
(* with its variables: the project files (P), the hooks (H), the workflow  *)
(* client (W), the dashboard's panels (O) and consoles (K), its music (B)  *)
(* and its server's address (D), the merge review (V) and the chain of     *)
(* requests (Q). A variable that several parts have carries the letter of  *)
(* its part.                                                               *)
(***************************************************************************)
EXTENDS PartsShared

CONSTANTS
  Paths, Home, RuntimeId, LaneInputs, MaxJobs, MaxCrashes,
  Lines, Manual, Exit, MaxEdits, MaxInstalls,
  Requests, Chained, MaxDrops, MaxSubmits, MaxDecisions,
  MaxActs, MaxAsked,
  Sessions, Tasks, MaxPosts, MaxSelects,
  Channels, MaxClicks, MaxWaiting,
  Default, MaxScans,
  Files, Quoted, MaxListed, MaxLogged, MaxMoves,
  MaxMade, MaxClock,
  MaxChanges, MaxSockets

\* Bounds are numbers.
ASSUME ClientBounds ==
  {MaxFailures, MaxCrashes, MaxJobs, MaxEdits, MaxInstalls, MaxChanges, MaxClicks,
   MaxScans, MaxLogged, MaxMoves, MaxSubmits} \subseteq Nat

ASSUME ChainBounds == {MaxMade, MaxClock} \subseteq Nat

ASSUME RequestsAreFinite == IsFiniteSet(Requests)

\* A branch changes some files; how a file has changed is written down.
ASSUME ReviewsAreFinite == IsFiniteSet(Files) /\ None \notin {"added", "deleted", "renamed", "modified"}

\* What is not there is not what has been asked for.
ASSUME NoneIsNotAsked == None # Asked

\* Lane counts are integers; an id made of a name (a number) has no underscore, a runtime id has.
ASSUME FilesAreFew == IsFiniteSet(Paths) /\ Home \in Paths /\ LaneInputs \subseteq Int
ASSUME IdsDiffer ==
  None \notin Nat /\ \A p \in Paths : RuntimeId[p] \notin Nat /\ RuntimeId[p] # None
ASSUME LinesAreUsers ==
  /\ {Manual, Exit} \subseteq Lines /\ Manual # Exit
  /\ Lines \cap {"shebang", "start", "notify", "end", "notify-maestro"} = {}

VARIABLES
  registry, env, pTorn, runtime, pUp, ops, phase, copy, id, pListed, chosen, raced, envBy, jobs,
  pCrashes,
  hook, stops, slip, mine, others, installed, broken, edits, hRuns,
  wStrict, status, wSocket, wQueue, closing, wTimer, connected, wToken, gate, wAsked, wAnswers,
  board, newest, wFailed, sheet, chain, chains, deciding, drops, wFailures, submits, decisions,
  panel, oStrict, changes, oToken, open, oSocket, oQueue, oHandler, oAsked, oAnswers, oTimer,
  oShown, locked, missed, oFailed, seen, oFailures, sockets, acts,
  server, kShown, kListed, selected, own, kSocket, kQueue, kHandler, early, lists, detail, posts,
  enabled, panels, kCut, stale, used, kFailures,
  ready, bPlaying, requested, url, first, video, demands, reports, meant, belated, clicks,
  stored, wsUrl, hasStored, remote, probe, probed, dOpen, dPlaying, dSocket, scan, beginning,
  watching, dTimer, stray, dChosen, intruded, dChanges, scans, dReloads,
  branch, waits, commits, stats, vStatus, patches, mergeable, moved, moves,
  made, clock

pVars == <<registry, env, pTorn, runtime, pUp, ops, phase, copy, id, pListed, chosen, raced,
          envBy, jobs, pCrashes>>
hVars == <<hook, stops, slip, mine, others, installed, broken, edits, hRuns>>
wVars == <<wStrict, status, wSocket, wQueue, closing, wTimer, connected, wToken, gate, wAsked,
          wAnswers, board, newest, wFailed, sheet, chain, chains, deciding, drops, wFailures,
          submits, decisions>>
oVars == <<panel, oStrict, changes, oToken, open, oSocket, oQueue, oHandler, oAsked, oAnswers,
          oTimer, oShown, locked, missed, oFailed, seen, oFailures, sockets, acts>>
kVars == <<server, kShown, kListed, selected, own, kSocket, kQueue, kHandler, early, lists,
          detail, posts, enabled, panels, kCut, stale, used, kFailures>>
bVars == <<ready, bPlaying, requested, url, first, video, demands, reports, meant, belated, clicks>>
dVars == <<stored, wsUrl, hasStored, remote, probe, probed, dOpen, dPlaying, dSocket, scan,
          beginning, watching, dTimer, stray, dChosen, intruded, dChanges, scans, dReloads>>
vVars == <<branch, waits, commits, stats, vStatus, patches, mergeable, moved, moves>>
qVars == <<made, clock>>

P == INSTANCE ProjectFiles WITH up <- pUp, torn <- pTorn, listed <- pListed, crashes <- pCrashes
H == INSTANCE HookInstaller WITH MaxRuns <- MaxInstalls, runs <- hRuns
W == INSTANCE WorkflowClient WITH strict <- wStrict, socket <- wSocket, queue <- wQueue,
       timer <- wTimer, token <- wToken, asked <- wAsked, answers <- wAnswers, failed <- wFailed,
       failures <- wFailures
O == INSTANCE OpsPanels WITH strict <- oStrict, token <- oToken, socket <- oSocket,
       queue <- oQueue, handler <- oHandler, asked <- oAsked, answers <- oAnswers,
       timer <- oTimer, shown <- oShown, failed <- oFailed, failures <- oFailures
K == INSTANCE WorkConsole WITH shown <- kShown, listed <- kListed, socket <- kSocket,
       queue <- kQueue, handler <- kHandler, cut <- kCut, failures <- kFailures
B == INSTANCE BachPlayer WITH playing <- bPlaying
D == INSTANCE ServerAddress WITH open <- dOpen, playing <- dPlaying, socket <- dSocket,
       timer <- dTimer, chosen <- dChosen, changes <- dChanges, reloads <- dReloads
V == INSTANCE MergeReview WITH status <- vStatus
Q == INSTANCE RequestChain

\* What stands for no address is none.
ASSUME NoneIsNoAddress == None \notin D!Addresses
=============================================================================
