----------------------------- MODULE ReplayChart -----------------------------
(***************************************************************************)
(* From the musical intents of events (MusicIntent) to the notes of a      *)
(* chart (player/src/lib/chartMapper.js) and the cues that are heard       *)
(* (replayAudioEngine.js): events, in the order of their times, are cut    *)
(* into sessions, and each intent becomes a few notes; at last no beat may *)
(* hold more than maxNotesPerBeat of them. Beats are in hundredths, scores *)
(* in percent. Pitches are at the end.                                     *)
(***************************************************************************)
EXTENDS Integers, Sequences, FiniteSets, SequencesExt, FiniteSetsExt

CONSTANTS
  Intents,    \* the intents there are
  Harmonies,  \* the harmonies of sessions: records of mode, color and tonic
  Motifs,     \* sequences of intervals
  LaneCount,
  MaxNotesPerBeat,
  MaxEvents   \* bound: events of a replay

VARIABLES
  cursor,  \* beatCursor
  notes,   \* the notes composed so far
  events   \* the number of events they came from

vars == <<cursor, notes, events>>

Rounded(percent) == (percent + 50) \div 100
Clamp(n) == IF n < 1 THEN 1 ELSE IF n > LaneCount THEN LaneCount ELSE n
Lowest(a, b) == IF a < b THEN a ELSE b
Resolving == {"merge", "review-approve", "review-resolve"}

\* resolveLaneIndex.
Lane(i) == IF i.type = "merge" THEN LaneCount ELSE Clamp(i.bias)

Offsets == [steady |-> <<0, 75, 150, 225>>, staccato |-> <<0, 50, 100, 150>>,
            syncopated |-> <<25, 75, 125, 175>>, hold |-> <<0>>, fill |-> <<0, 50, 75, 100>>]

\* estimatePhraseLength.
PhraseLength(i) ==
  CASE i.pattern = "hold" -> 100 * (3 + Rounded(2 * i.energy))
    [] i.pattern = "fill" -> 150
    [] i.pattern = "syncopated" -> 200
    [] OTHER -> 100 * (2 + Rounded(i.density))

\* getNoteBudget; an intent that is held has one note.
Budget(i) ==
  CASE i.pattern = "hold" -> 1
    [] i.pattern = "fill" -> Lowest(3, MaxNotesPerBeat + 1)
    [] i.pattern = "syncopated" -> Lowest(3, 1 + Rounded(3 * i.density))
    [] OTHER -> Lowest(2, 1 + Rounded(2 * i.density))

\* pickLaneOffset, of the n-th note counted from 0.
LaneOffset(i, n) ==
  IF i.type \in Resolving \/ LaneCount <= 1 \/ n = 0 THEN 0
  ELSE CASE i.seed = 0 -> IF n % 2 = 0 THEN -1 ELSE 1
         [] i.seed = 1 -> IF n % 2 = 0 THEN 1 ELSE 0
         [] OTHER -> IF n % 2 = 0 THEN 0 ELSE -1

\* pickNoteType, and the type of a note that is held.
NoteType(i, n) ==
  IF i.pattern = "hold" THEN IF i.accent >= 70 THEN "accent" ELSE "hold"
  ELSE IF \/ i.type \in {"merge", "review-resolve"}
          \/ n = 0 /\ i.accent >= 78
          \/ n = 0 /\ i.energy >= 75 /\ i.pattern \notin {"fill", "staccato"}
       THEN "accent" ELSE "tap"

Duration(i) ==
  CASE i.pattern = "hold" -> 100 * (2 + Rounded(2 * i.accent))
    [] i.pattern = "fill" -> 50
    [] OTHER -> 100

\* composeIntentNotes, of event number e at beat b.
Composed(i, e, b) ==
  [k \in 1..Budget(i) |->
     [event |-> e, index |-> k, type |-> NoteType(i, k - 1), length |-> Duration(i),
      beat |-> b + Offsets[i.pattern][k], lane |-> Clamp(Lane(i) + LaneOffset(i, k - 1))]]

\* sessionizeEvents: another repository or branch, or a gap of half an hour, ends the session,
\* which leaves two beats free.
SessionGap(again) == IF again THEN 0 ELSE 200

Init == cursor = 0 /\ notes = <<>> /\ events = 0

\* createChartFromMusicPlan takes the next event.
Compose(i, again) ==
  /\ events < MaxEvents /\ (events = 0 => again)
  /\ events' = events + 1
  /\ LET begin == cursor + SessionGap(again) IN
     /\ notes' = notes \o Composed(i, events + 1, begin)
     /\ cursor' = begin + PhraseLength(i)

Next == \E i \in Intents, again \in BOOLEAN : Compose(i, again)

Spec == Init /\ [][Next]_vars

-----------------------------------------------------------------------------
Bucket(n) == {m \in ToSet(notes) : m.beat \div 100 = n.beat \div 100}
Weight(n) == (IF n.type = "accent" THEN 200 ELSE 100) + n.length
Earlier(m, n) == m.event < n.event \/ (m.event = n.event /\ m.index < n.index)

\* enforceDensityCap: the heaviest notes of a beat stay, the earlier composed of equal ones.
Chart ==
  {n \in ToSet(notes) :
     Cardinality({m \in Bucket(n) : Weight(m) > Weight(n) \/ (Weight(m) = Weight(n) /\ Earlier(m, n))})
       < MaxNotesPerBeat}

TypeOK ==
  /\ cursor \in Nat /\ events \in 0..MaxEvents
  /\ \A n \in ToSet(notes) : n.beat \in Nat /\ n.event \in 1..events

\* createReplayCuePlan: the step of half a beat at which a note is heard. A run's steps are
\* rendered one by one; the last beat ends it.
CueStep(n) == (n.beat + 25) \div 50
TotalBeats == Max({n.beat + n.length : n \in Chart})

\* A chart can be played: no beat has more notes than allowed, every note is in a lane and on the
\* grid of quarter beats, lasts longer than it can be hit late, which is what ends a run, and is
\* heard before the run ends.
ChartPlayable ==
  \A n \in Chart :
    /\ Cardinality(Bucket(n) \cap Chart) <= MaxNotesPerBeat
    /\ n.lane \in 1..LaneCount /\ n.length > 40 /\ n.beat % 25 = 0
    /\ 50 * CueStep(n) < TotalBeats

\* Every event is heard, and the notes of an event come before those of the events after it:
\* the cap never silences an event and no phrase runs into the next.
EventsAreHeard ==
  /\ \A e \in 1..events : \E n \in Chart : n.event = e
  /\ \A m, n \in Chart : m.event < n.event => m.beat < n.beat

-----------------------------------------------------------------------------
\* MODE_INTERVALS and CHORD_COLOR_BASE (musicTheory.js).
Modes == [ionian |-> {0, 2, 4, 5, 7, 9, 11}, dorian |-> {0, 2, 3, 5, 7, 9, 10},
  phrygian |-> {0, 1, 3, 5, 7, 8, 10}, lydian |-> {0, 2, 4, 6, 7, 9, 11},
  mixolydian |-> {0, 2, 4, 5, 7, 9, 10}, aeolian |-> {0, 2, 3, 5, 7, 8, 10},
  pentatonic |-> {0, 3, 5, 7, 10}]
Colors == [triad |-> <<0, 4, 7>>, add9 |-> <<0, 4, 7, 14>>, sus2 |-> <<0, 2, 7>>,
  sus4 |-> <<0, 5, 7>>, maj7 |-> <<0, 4, 7, 11>>, flat7 |-> <<0, 4, 7, 10>>]

\* snapToScale: the nearest tone of the scale, the lower of two.
Snap(n, mode) ==
  LET near(d) == {x \in {n - d, n + d} : x % 12 \in Modes[mode]}
      d == Min({x \in 0..6 : near(x) # {}}) IN
  Min(near(d))

\* buildChordOffsets.
Chord(color, mode) == [k \in DOMAIN Colors[color] |-> Snap(Colors[color][k], mode)]

\* computeChordMidis: the tonic an octave below, and the chord.
Voices(tonic, color, mode) ==
  <<36 + tonic>> \o [k \in DOMAIN Chord(color, mode) |-> 48 + tonic + Chord(color, mode)[k]]

\* computePitchMidi, in the low, mid or high register, and the octave the engine moves a note by
\* (resolvePitchedFrequency).
Pitches(h) ==
  {base + h.tonic + Snap(motif[n], h.mode) + octave :
     base \in {36, 48, 60}, motif \in Motifs, n \in 1..4, octave \in {-12, 0, 12}}

\* What is played is in the key of its session, and snapping keeps the order of the tones of a
\* chord, so that no chord loses its root, turns over or doubles a voice.
ChordsFit ==
  \A h \in Harmonies :
    LET inKey(pitch) == (pitch - h.tonic) % 12 \in Modes[h.mode]
        voices == Voices(h.tonic, h.color, h.mode) IN
    /\ \A pitch \in Pitches(h) : inKey(pitch)
    /\ \A k \in DOMAIN voices : inKey(voices[k])
    /\ \A j, k \in DOMAIN voices : j < k => voices[j] < voices[k]
=============================================================================
