---------------------------- MODULE PlayerParts ----------------------------
(***************************************************************************)
(* The parts of the player, each with its variables: its session (Y), its  *)
(* charts (C), its sources (R) and local ones (G), what is heard of a run  *)
(* (A), and the launch from a browser's tab (X). A variable that several   *)
(* parts have carries the letter of its part.                              *)
(***************************************************************************)
EXTENDS PartsShared, MusicIntent

CONSTANTS
  Golden, Repos, Notes, PerSource, Total, MaxRunTokens, MaxLoads,
  MaxNotesPerBeat, MaxEvents,
  Commits, Pulls, Failures,
  LastStep, MaxAutoplays, MaxControl,
  Projects, Branches, MaxPopups, MaxLaunches, MaxTabs, MaxRefreshes,
  Printed, Folder, Counts

\* What stands for nothing is no number, no launch's place and none of an audio context's states.
ASSUME NoneIsNowhere ==
  None \notin Int \cup [repo : Projects, branch : Branches] \cup {"suspended", "running"}

\* Notes of a chart are finitely many and last longer than they can be hit late, which is what
\* ChartPlayable says of them; a history has room for a record, and a run for its token.
ASSUME ChartsHaveNotes ==
  \A s \in Golden \cup Repos :
    IsFiniteSet(Notes[s]) /\ \A n \in Notes[s] : n.beat \in Nat /\ n.length \in Nat /\ n.length > 40
ASSUME HistoriesHaveRoom == {PerSource, Total, MaxRunTokens} \subseteq Nat \ {0} /\ MaxLoads \in Nat
ASSUME NoneIsNoSource ==
  None \notin Golden \cup Repos \cup [scenario : Golden, id : 1..MaxLoads]

\* The default branch is one.
ASSUME MainIsABranch == "main" \in Branches

\* A run ends at some half beat, and the bound is a number.
ASSUME RunsEndSomewhere == {LastStep, MaxAutoplays} \subseteq Nat

\* A commit changes finitely many files, and lines are counted.
ASSUME CommitsAreFinite == IsFiniteSet(Printed) /\ Counts \subseteq Nat

\* A beat may hold a note, and the bound is a number.
ASSUME BeatsHoldNotes == MaxNotesPerBeat \in Nat \ {0} /\ MaxEvents \in Nat

VARIABLES
  source, next, loads, wanted, yRequest, mode, run, reported, started, tokens, history, finished,
  expects, yAsked, yFailures, reloads,
  cursor, notes, events,
  access, stage, rCalls, rListed, got, read, threads, lacking, code,
  context, control, aStatus, step, sound, last, aHeard, full, chart, aMissed, hurried, aAsked,
  popup, launches, xCalls, xLast, saved, tabs, popups, refreshes,
  commit, event, at

yVars == <<source, next, loads, wanted, yRequest, mode, run, reported, started, tokens, history,
          finished, expects, yAsked, yFailures, reloads>>
cVars == <<cursor, notes, events>>
rVars == <<access, stage, rCalls, rListed, got, read, threads, lacking, code>>
aVars == <<context, control, aStatus, step, sound, last, aHeard, full, chart, aMissed, hurried,
          aAsked>>
xVars == <<popup, launches, xCalls, xLast, saved, tabs, popups, refreshes>>
gVars == <<commit, event, at>>

Y == INSTANCE PlayerSession WITH MaxTokens <- MaxRunTokens, request <- yRequest,
       asked <- yAsked, failures <- yFailures
C == INSTANCE ReplayChart
R == INSTANCE ReplaySources WITH calls <- rCalls, listed <- rListed
A == INSTANCE PlayerAudio WITH MaxAsked <- MaxAutoplays, status <- aStatus, heard <- aHeard,
       missed <- aMissed, asked <- aAsked
X == INSTANCE ReplayLaunch WITH calls <- xCalls, last <- xLast
G == INSTANCE LocalReplay WITH Files <- Printed, Lines <- Counts
=============================================================================
