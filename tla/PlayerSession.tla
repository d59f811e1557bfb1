---------------------------- MODULE PlayerSession ----------------------------
(***************************************************************************)
(* The player page (player/src/App.jsx): loading a replay, the run of its  *)
(* chart (components/PlayerRunPanel.jsx) and the history of finished runs  *)
(* (lib/performanceHistoryStore.js).                                       *)
(*                                                                         *)
(* What a load brings is set in a React transition, which is committed     *)
(* some time after the updates around it; an effect is an action that is   *)
(* enabled as long as its condition holds. Beats are in hundredths. How    *)
(* many run tokens rendering alone uses up is left out.                    *)
(***************************************************************************)
EXTENDS Integers, Sequences, FiniteSets, Ranks

CONSTANTS
  Golden, Repos,  \* the sources: demo scenarios and repositories
  Notes,          \* Notes[s]: the notes of source s: records of key, id, lane, beat, length
  None,
  PerSource,      \* MAX_RECORDS_PER_SOURCE
  Total,          \* MAX_TOTAL_RECORDS
  MaxTokens,      \* bound: run tokens since the page was loaded
  MaxLoads,       \* bound: loads and autoplays ever started
  MaxFailures,    \* bound: writes of the history that fail
  MaxReloads      \* bound: reloads of the page

BeatStep == 50
GoodWindow == 40

VARIABLES
  source,    \* activeSource, with its loadedEvents, musicPlan and chart
  next,      \* what the pending transition sets it to
  loads,     \* the sources whose load has not been answered, and isLoading
  wanted,    \* pendingRunRequest
  request,   \* runRequest
  mode,      \* playMode
  run,       \* runState
  reported,  \* lastReportedRunTokenRef
  started,   \* lastRunRequestIdRef
  tokens,    \* runTokenCounter
  history,   \* performanceHistory in localStorage, the newest first
  finished,  \* every run that was reported, the newest first; those that could not be saved
  expects,   \* the user has asked for a demo that was not shown yet, and for nothing since
  asked, failures, reloads

vars == <<source, next, loads, wanted, request, mode, run, reported, started, tokens,
          history, finished, expects, asked, failures, reloads>>

Sources == Golden \cup Repos
NotesOf(s) == IF s = None THEN {} ELSE Notes[s]
Max0(S) == CHOOSE m \in S \cup {0} : \A n \in S : n <= m
TotalBeats(s) == Max0({n.beat + n.length : n \in NotesOf(s)})
Abs(n) == IF n < 0 THEN -n ELSE n

\* createEmptyRunState.
EmptyRun(token, status) ==
  [token |-> token, status |-> status, beat |-> 0, done |-> {}, hits |-> 0, misses |-> 0,
   combo |-> 0, best |-> 0]

Init ==
  /\ source = None /\ next = None /\ loads = {} /\ wanted = None /\ request = None
  /\ mode = "manual" /\ run = EmptyRun(1, "idle") /\ reported = 0 /\ started = 0 /\ tokens = 1
  /\ history = <<>> /\ finished = <<>> /\ expects = FALSE
  /\ asked = 0 /\ failures = 0 /\ reloads = 0

store == <<history, finished, failures>>
panel == <<mode, run, reported, started, tokens>>

\* handleLoadReplay starts. The submit button waits for a load under way, Retry does not.
Load(s) ==
  /\ asked < MaxLoads /\ asked' = asked + 1
  /\ loads' = loads \cup {s}
  /\ expects' = FALSE
  /\ UNCHANGED <<source, next, wanted, request, panel, store, reloads>>

\* applyReplayResult, of events, or of no events, which leaves a chart without notes.
LoadAnswered(s) ==
  /\ s \in loads /\ loads' = loads \ {s}
  /\ next' = s
  /\ expects' = FALSE
  /\ UNCHANGED <<source, wanted, request, panel, store, asked, reloads>>

\* The list of commits, or one of them, could not be read: nothing is shown of it.
LoadFails(s) ==
  /\ s \in loads /\ loads' = loads \ {s}
  /\ UNCHANGED <<source, next, wanted, request, panel, store, expects, asked, reloads>>

\* handleAutoplayGoldenScenario: the request is set at once, the source in a transition.
Autoplay(s) ==
  /\ asked < MaxLoads /\ asked' = asked + 1
  /\ next' = s /\ wanted' = [scenario |-> s, id |-> asked + 1]
  /\ expects' = (source # s)
  /\ UNCHANGED <<source, loads, request, panel, store, reloads>>

Resets(status) ==
  /\ tokens < MaxTokens /\ tokens' = tokens + 1
  /\ run' = EmptyRun(tokens + 1, status)

\* The transition is committed; the chart is a new one, and the panel's run is reset.
Commit ==
  /\ next # None
  /\ source' = next /\ next' = None
  /\ Resets("idle")
  /\ UNCHANGED <<loads, wanted, request, mode, reported, started, store, expects, asked, reloads>>

\* The effect of App that turns the pending request into a run request,
RequestMatches ==
  /\ wanted # None /\ source = wanted.scenario /\ NotesOf(source) # {}
  /\ request' = wanted.id /\ wanted' = None
  /\ UNCHANGED <<source, next, loads, panel, store, expects, asked, reloads>>

\* and the one of the panel that starts it, once.
RunRequested ==
  /\ request # None /\ NotesOf(source) # {} /\ started # request
  /\ started' = request /\ mode' = "auto"
  /\ Resets("running")
  /\ UNCHANGED <<source, next, loads, wanted, request, reported, store, expects, asked, reloads>>

-----------------------------------------------------------------------------
\* handleStartOrResume.
Start ==
  /\ NotesOf(source) # {} /\ run.status # "running"
  /\ IF run.status = "paused" THEN run' = [run EXCEPT !.status = "running"] /\ UNCHANGED tokens
                              ELSE Resets("running")
  /\ expects' = FALSE
  /\ UNCHANGED <<source, next, loads, wanted, request, mode, reported, started, store, asked, reloads>>

Pause ==
  /\ run.status = "running"
  /\ run' = [run EXCEPT !.status = "paused"]
  /\ expects' = FALSE
  /\ UNCHANGED <<source, next, loads, wanted, request, mode, reported, started, tokens, store, asked, reloads>>

\* The retry button and handleModeChange.
ResetRun ==
  /\ \/ run.status # "idle" /\ UNCHANGED mode
     \/ NotesOf(source) # {} /\ mode' \in {"manual", "auto"} \ {mode}
  /\ Resets("idle")
  /\ expects' = FALSE
  /\ UNCHANGED <<source, next, loads, wanted, request, reported, started, store, asked, reloads>>

Undone == {n \in NotesOf(source) : n.id \notin run.done}
NextBeat == IF run.beat + BeatStep < TotalBeats(source) THEN run.beat + BeatStep ELSE TotalBeats(source)

\* processedNoteIds is a set of ids, notes a list of notes.
Completed(beat, bar, done) ==
  IF beat >= bar /\ Cardinality(done) >= Cardinality(NotesOf(source)) THEN "complete" ELSE "running"

\* What a tick resolves: every note up to the beat, or those that can no longer be hit.
Due == {n \in Undone : IF mode = "auto" THEN n.beat <= NextBeat ELSE n.beat < NextBeat - GoodWindow}

\* advanceAutoRunState and advanceManualRunState, every TICK_MS.
Tick ==
  /\ run.status = "running" /\ NotesOf(source) # {}
  /\ LET done == run.done \cup {n.id : n \in Due}
         hits == IF mode = "auto" THEN Cardinality(Due) ELSE 0
         combo == IF mode = "manual" /\ Due # {} THEN 0 ELSE run.combo + hits IN
     run' = [run EXCEPT !.beat = NextBeat, !.done = done, !.combo = combo,
                        !.best = IF combo > @ THEN combo ELSE @,
                        !.hits = @ + hits, !.misses = @ + Cardinality(Due) - hits,
                        !.status = Completed(NextBeat, TotalBeats(source), done)]
  /\ UNCHANGED <<source, next, loads, wanted, request, mode, reported, started, tokens, store,
                 expects, asked, reloads>>

\* resolveManualLaneHit: the nearest note of the lane within the window, or the combo is lost.
Distance(n) == Abs(n.beat - run.beat)
InReach(lane) == {n \in Undone : n.lane = lane /\ Distance(n) <= GoodWindow}
Nearest(lane) == {n \in InReach(lane) : \A m \in InReach(lane) :
  Distance(n) < Distance(m) \/ (Distance(n) = Distance(m) /\ n.beat <= m.beat)}

Hit(lane) ==
  /\ mode = "manual" /\ run.status = "running"
  /\ \/ /\ InReach(lane) = {}
        /\ run' = [run EXCEPT !.combo = 0]
     \/ \E n \in Nearest(lane) :
          LET done == run.done \cup {n.id} IN
          run' = [run EXCEPT !.done = done, !.hits = @ + 1, !.combo = @ + 1,
                             !.best = IF run.combo + 1 > @ THEN run.combo + 1 ELSE @,
                             !.status = Completed(run.beat, TotalBeats(source) - GoodWindow, done)]
  /\ expects' = FALSE
  /\ UNCHANGED <<source, next, loads, wanted, request, mode, reported, started, tokens, store, asked, reloads>>

-----------------------------------------------------------------------------
Record == [source |-> source, token |-> run.token]

\* Mutant: the retention forgets the limit on all records.
Retained_bug(records) ==
  Picked(records, {i \in DOMAIN records :
                     Cardinality({j \in 1..i : records[j].source = records[i].source}) <= PerSource})

\* applyRetentionPolicy: the first PerSource of every source, and Total in all.
Retained(records) ==
  LET ofSource(i) == Cardinality({j \in 1..i : records[j].source = records[i].source})
      kept == {i \in DOMAIN records : ofSource(i) <= PerSource} IN
  Picked(records, {i \in kept : Rank(kept, i) <= Total})

\* Mutant: records are told apart by their run token alone.
Appended_bug(records, r) ==
  Retained(<<r>> \o Picked(records, {i \in DOMAIN records : records[i].token # r.token}))

\* appendPerformanceRecord: a record of the same run is replaced.
Appended(records, r) ==
  Retained(<<r>> \o Picked(records, {i \in DOMAIN records : records[i] # r}))

\* The effect that reports a finished run once, and handleRunComplete. The write may fail.
Report ==
  /\ run.status = "complete" /\ reported # run.token /\ source # None
  /\ reported' = run.token
  /\ \/ history' = Appended(history, Record)
        /\ finished' = <<Record>> \o finished /\ UNCHANGED failures
     \/ failures < MaxFailures /\ failures' = failures + 1 /\ UNCHANGED <<history, finished>>
  /\ UNCHANGED <<source, next, loads, wanted, request, mode, run, started, tokens, expects, asked, reloads>>

\* The page is loaded anew: only the history stays, and tokens are counted from the start.
Reload ==
  /\ reloads < MaxReloads /\ reloads' = reloads + 1
  /\ source' = None /\ next' = None /\ loads' = {} /\ wanted' = None /\ request' = None
  /\ mode' = "manual" /\ run' = EmptyRun(1, "idle") /\ reported' = 0 /\ started' = 0 /\ tokens' = 1
  /\ expects' = FALSE
  /\ UNCHANGED <<store, asked>>

Next ==
  \/ \E s \in Repos : Load(s) \/ LoadAnswered(s) \/ LoadFails(s)
  \/ \E s \in Golden : Autoplay(s)
  \/ Commit \/ RequestMatches \/ RunRequested
  \/ Start \/ Pause \/ ResetRun \/ Tick \/ Report \/ Reload
  \/ \E lane \in {n.lane : n \in NotesOf(source)} : Hit(lane)

Spec == Init /\ [][Next]_vars

-----------------------------------------------------------------------------
TypeOK ==
  /\ source \in Sources \cup {None} /\ next \in Sources \cup {None} /\ loads \subseteq Repos
  /\ wanted = None \/ wanted \in [scenario : Golden, id : 1..MaxLoads]
  /\ request \in 1..MaxLoads \cup {None} /\ started \in 0..MaxLoads
  /\ mode \in {"manual", "auto"} /\ run.status \in {"idle", "running", "paused", "complete"}
  /\ run.token \in 1..tokens /\ tokens \in 1..MaxTokens /\ reported \in 0..MaxTokens
  /\ Len(history) <= Total /\ expects \in BOOLEAN

\* The notes of a source have different ids (an event id that comes twice, as the GitLab
\* approvals of one user on two merge requests, makes two notes with one id).
Distinct(s) == \A m, n \in NotesOf(s) : m.id = n.id => m = n

\* A run that has reached the last beat is over, whichever way it was played, unless two notes
\* share an id: then it stays at its last beat for ever.
RunEnds ==
  Distinct(source) /\ run.status = "running" /\ NotesOf(source) # {} => run.beat < TotalBeats(source)

\* Every note of a run is judged once: what was hit and missed are the notes that are done, and
\* a run that is complete has judged them all.
RunSound ==
  Distinct(source) =>
    /\ run.hits + run.misses = Cardinality(run.done)
    /\ run.best <= run.hits
    /\ run.status = "complete" => run.hits + run.misses = Cardinality(NotesOf(source))

Settled == next = None /\ wanted = None /\ (request # None => started = request)

\* A demo that was chosen to play plays, once everything has been rendered; choosing the demo
\* that is already shown may start it on the old chart and stop it with the new one.
AutoplayStarts == expects /\ Settled => run.status \in {"running", "complete"}

\* The history keeps the last runs of every source that it has room for, in their order, unless
\* a run after a reload has the token of one before.
HistoryKeeps ==
  (\A i, j \in 1..Len(finished) : finished[i] = finished[j] => i = j) => history = Retained(finished)
=============================================================================
