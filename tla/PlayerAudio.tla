---------------------------- MODULE PlayerAudio ----------------------------
(***************************************************************************)
(* What is heard of a run (player/src): the panel's audio effects          *)
(* (components/PlayerRunPanel.jsx) and their drivers of a Web Audio        *)
(* context (lib/replayAudioEngine.js, lib/metronomeEngine.js), which are   *)
(* primed and stopped together. The context resumes and suspends some time *)
(* after it was asked to, in the order it was asked; until then its state  *)
(* is the old one. A user's event and what it sets are rendered together;  *)
(* the chart of a load is rendered later, and a requested run with it.     *)
(***************************************************************************)
EXTENDS Integers, Sequences

CONSTANTS
  None,
  LastStep,   \* the half beat that ends a run
  MaxAsked,   \* bound: loads and autoplays
  MaxControl \* bound: what the context is asked for at once

VARIABLES
  context,  \* the state of the AudioContext, or None
  control,  \* what it was asked for and has not done: "resume" and "suspend"
  status,   \* runState.status
  step,     \* the half beat of the run
  sound,    \* bgmEnabled
  last,     \* lastCueStepRef
  heard,    \* the steps whose cues this run has played
  full,     \* the sound was on since the run began
  chart,    \* the charts not yet rendered: None, "load" or "autoplay"
  missed,   \* the last prime found the context running, and stopped right after or before
  hurried,  \* the last stop found it suspended, with a resume on its way
  asked

vars == <<context, control, status, step, sound, last, heard, full, chart, missed, hurried, asked>>

Init ==
  /\ context = None /\ control = <<>> /\ status = "idle" /\ step = 0 /\ sound = TRUE
  /\ last = -1 /\ heard = <<>> /\ full = FALSE /\ chart = None
  /\ missed = FALSE /\ hurried = FALSE /\ asked = 0

\* prime: a new context begins suspended; one that is running, as far as can be seen, is left.
Primed == IF context = "running" THEN control ELSE Append(control, "resume")

\* Mutant: stop does not look at the state.
Stopped_bug(queue) == Append(queue, "suspend")

\* stop: only one that is running.
Stopped(queue) == IF context = "running" THEN Append(queue, "suspend") ELSE queue

\* The effect on the rendered step: its cue is played once.
Plays(s, before, played) ==
  /\ last' = IF sound THEN s ELSE before
  /\ heard' = IF sound /\ s # before THEN Append(played, s) ELSE played

\* A run begins at its first step.
Begins == status' = "running" /\ step' = 0 /\ Plays(0, -1, <<>>) /\ full' = sound

Primes ==
  /\ control' = Primed /\ context' = IF context = None THEN "suspended" ELSE context
  /\ missed' = (context = "running")

\* handleStartOrResume.
Start ==
  /\ status # "running" /\ Len(control) < MaxControl /\ Primes
  /\ IF status = "paused" THEN status' = "running" /\ Plays(step, last, heard) /\ UNCHANGED <<step, full>>
                          ELSE Begins
  /\ hurried' = FALSE
  /\ UNCHANGED <<sound, chart, asked>>

\* The audio effects of a run that does not run.
Stops ==
  /\ control' = Stopped(control) /\ hurried' = (context = "suspended" /\ control # <<>>)
  /\ UNCHANGED <<context, missed>>

Pause ==
  /\ status = "running" /\ status' = "paused" /\ Stops
  /\ UNCHANGED <<step, sound, last, heard, full, chart, asked>>

\* resetRunState: the retry button and handleModeChange.
Reset ==
  /\ status # "idle" /\ status' = "idle" /\ step' = 0 /\ last' = -1 /\ heard' = <<>> /\ Stops
  /\ UNCHANGED <<sound, full, chart, asked>>

\* The interval, every TICK_MS; the run may end.
Tick ==
  /\ status = "running" /\ step < LastStep /\ step' = step + 1
  /\ \/ /\ step + 1 < LastStep /\ Plays(step + 1, last, heard)
        /\ UNCHANGED <<status, context, control, missed, hurried>>
     \/ /\ step + 1 = LastStep /\ status' = "complete" /\ Stops /\ UNCHANGED <<last, heard>>
  /\ UNCHANGED <<sound, full, chart, asked>>

\* The button of the sound; the effect runs at once, and stops what does not run.
Toggle ==
  /\ Len(control) < MaxControl
  /\ sound' = ~sound
  /\ full' = FALSE
  /\ \/ /\ status = "running"
        /\ IF sound THEN UNCHANGED <<last, heard>>
           ELSE last' = step /\ heard' = IF step # last THEN Append(heard, step) ELSE heard
        /\ UNCHANGED <<context, control, missed, hurried>>
     \/ status # "running" /\ Stops /\ UNCHANGED <<last, heard>>
  /\ UNCHANGED <<status, step, chart, asked>>

-----------------------------------------------------------------------------
\* A load has been answered, or a demo is to be played.
Loads(kind) ==
  /\ asked < MaxAsked /\ asked' = asked + 1 /\ chart' = kind
  /\ UNCHANGED <<context, control, status, step, sound, last, heard, full, missed, hurried>>

\* Its chart is rendered: the run is reset, while the effect still plays a cue of the new chart
\* at the step of the old run, and stopped with the next rendering.
ChartRendered ==
  /\ chart = "load" /\ chart' = None
  /\ status' = "idle" /\ step' = 0 /\ heard' = <<>> /\ Stops
  /\ last' = IF status = "running" /\ sound THEN step ELSE -1
  /\ UNCHANGED <<sound, full, asked>>

\* With the chart of an autoplay the run request is set. The next rendering has both: first the
\* drivers are primed, then they are stopped because the run was reset, and then it begins.
AutoplayRendered ==
  /\ chart = "autoplay" /\ chart' = None /\ Begins
  /\ context' = IF context = None THEN "suspended" ELSE context
  /\ control' = Stopped(Primed)
  /\ missed' = (context = "running") /\ hurried' = FALSE
  /\ UNCHANGED <<sound, asked>>

\* The context does what it was asked for.
Controlled ==
  /\ control # <<>> /\ control' = Tail(control)
  /\ context' = IF Head(control) = "resume" THEN "running" ELSE "suspended"
  /\ UNCHANGED <<status, step, sound, last, heard, full, chart, missed, hurried, asked>>

Next ==
  \/ Start \/ Pause \/ Reset \/ Tick \/ Toggle \/ ChartRendered \/ AutoplayRendered \/ Controlled
  \/ \E kind \in {"load", "autoplay"} : Loads(kind)

Spec == Init /\ [][Next]_vars

-----------------------------------------------------------------------------
TypeOK ==
  /\ context \in {None, "suspended", "running"} /\ control \in Seq({"resume", "suspend"})
  /\ status \in {"idle", "running", "paused", "complete"} /\ step \in 0..LastStep
  /\ sound \in BOOLEAN /\ last \in -1..LastStep /\ chart \in {None, "load", "autoplay"}
  /\ missed \in BOOLEAN /\ hurried \in BOOLEAN /\ asked \in 0..MaxAsked

\* When the context has done what it was asked for, it sounds if the run does and is silent if
\* not. But a run that starts while a suspension is under way, or by autoplay out of another
\* run, stays silent, and one that is paused while its start is under way leaves it running.
SoundFollowsRun ==
  control = <<>> /\ chart = None =>
    /\ status = "running" /\ ~missed => context = "running"
    /\ status # "running" /\ ~hurried => context # "running"

\* A run's cues are played once each, through pauses and the sound being switched, and none is
\* left out while the sound is on.
CuesOnce ==
  /\ \A i, j \in DOMAIN heard : i < j => heard[i] < heard[j]
  /\ status \in {"running", "paused"} /\ full => heard = [k \in 1..step + 1 |-> k - 1]

\* Why they hold: where the context will be when it has done what it was asked for, whether it
\* follows the run, and the cues that were played, by the run's step and the last that was rendered.
Final ==
  IF control = <<>> THEN context
  ELSE IF control[Len(control)] = "resume" THEN "running" ELSE "suspended"
AudioInvariant ==
  /\ TypeOK /\ heard \in Seq(0..LastStep) /\ full \in BOOLEAN
  /\ context = None => control = <<>>
  /\ status = "running" /\ ~missed => Final = "running"
  /\ status # "running" /\ ~hurried => Final # "running"
  /\ \A i, j \in DOMAIN heard : i < j => heard[i] < heard[j]
  /\ status \in {"running", "paused"} => last <= step /\ \A i \in DOMAIN heard : heard[i] <= last
  /\ full => sound
  /\ status \in {"running", "paused"} /\ full =>
       last = step /\ heard = [k \in 1..step + 1 |-> k - 1]
=============================================================================
