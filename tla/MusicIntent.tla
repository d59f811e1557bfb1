---------------------------- MODULE MusicIntent -----------------------------
(***************************************************************************)
(* What replay events sound like (player/src/lib/musicIntentMapper.js,     *)
(* harmonyEngine.js, motifCatalog.js): of each event its intent, and of    *)
(* each session of events its harmony. Scores are in percent, rounded      *)
(* down. What logarithms, ratios and hashes come to is any of Scores,      *)
(* Groups and Seeds.                                                       *)
(***************************************************************************)
EXTENDS Integers

CONSTANTS
  Types,    \* event types
  Classes,  \* commit classes: what the message or the files of a commit say it is
  Groups,   \* groups of paths
  Scores,   \* in percent
  Seeds,    \* hashString(intentId) % 3
  LaneCount

\* Scores are percents, and there is a lane.
ASSUME ScoresArePercents == Scores \subseteq 0..100
ASSUME ThereIsALane == LaneCount \in Nat \ {0}

Lowest(a, b) == IF a < b THEN a ELSE b
Highest(a, b) == IF a < b THEN b ELSE a

Resolving == {"merge", "review-approve", "review-resolve", "history-approved"}
Contested == {"review-request-changes", "review-reopen"}
Reviews == Contested \cup {"review-comment", "review-approve", "review-resolve"}
Percent(holds, n) == IF holds THEN n ELSE 0

\* classifyReplayEvent.
ClassesOf(type) ==
  CASE type \in {"merge", "revert"} -> {type}
    [] type \in Reviews \cup {"history-approved"} -> {"review"}
    [] OTHER -> Classes

\* extractMetrics: the size of the event, how much happens around it, and what its type, its
\* checks, its deletions and the fixes around it say of tension and resolution.
Metrics(type) ==
  {[size |-> size, activity |-> activity,
    resolution |-> Lowest(100, Percent(type \in {"review-approve", "history-approved"}, 45)
                     + Percent(type = "review-resolve", 28) + Percent(type = "merge", 80)
                     + (15 * checks) \div 100),
    tension |-> Lowest(100, Percent(type = "review-request-changes", 45)
                  + Percent(type \in {"review-reopen", "revert"}, 35) + (45 * strain) \div 100)] :
   size \in Scores, activity \in Scores, checks \in Scores, strain \in Scores}

\* pickRhythmPattern.
Pattern(type, class, m) ==
  CASE type = "merge" -> "hold"
    [] type = "push" -> "fill"
    [] type = "review-comment" -> "staccato"
    [] type \in Contested -> "syncopated"
    [] type \in {"review-resolve", "pull", "sync"} -> "steady"
    [] OTHER -> IF class \in {"docs", "chore"} THEN IF m.size > 50 THEN "steady" ELSE "staccato"
                ELSE IF m.activity > 55 THEN "syncopated" ELSE IF m.size > 68 THEN "hold" ELSE "steady"

\* pickLaneBias.
LaneBias(type, class, group) ==
  IF LaneCount <= 4
  THEN IF type \in Resolving THEN 4
       ELSE IF type \in Contested \/ class \in {"fix", "refactor"} THEN 3
       ELSE IF class = "feat" \/ group \in {"frontend", "backend"} THEN 2 ELSE 1
  ELSE IF type = "merge" THEN 6
       ELSE IF type \in Resolving \cup {"push"} THEN 5
       ELSE IF type \in Contested \/ class = "refactor" THEN 4
       ELSE IF group \in {"backend", "core"} THEN 3
       ELSE IF group = "frontend" \/ class = "feat" THEN 2 ELSE 1

\* mapEventToMusicIntent, of a density of 10 at least.
Intent(type, class, group, m, seed) ==
  [type |-> type, pattern |-> Pattern(type, class, m), bias |-> LaneBias(type, class, group), seed |-> seed,
   energy |-> Lowest(100, 18 + (38 * m.size + 28 * m.activity + 14 * m.resolution) \div 100
                + Percent(type = "review-resolve", 8) + Percent(type = "merge", 18)),
   density |-> Highest(10, 18 + (35 * m.size + 32 * m.activity) \div 100
                 + Percent(type = "push", 12) - Percent(type = "merge", 12)),
   accent |-> Lowest(100, 12 + (35 * m.resolution + 16 * m.tension) \div 100
                + Percent(type = "merge", 42) + Percent(type = "review-resolve", 10)
                + Percent(type = "review-approve", 16))]

Intents == UNION {{Intent(type, class, group, m, seed) :
  class \in ClassesOf(type), group \in Groups, m \in Metrics(type), seed \in Seeds} : type \in Types}

-----------------------------------------------------------------------------
\* MODE_BY_CLASS of a session's dominant class.
Mode == [feat |-> "ionian", fix |-> "dorian", refactor |-> "aeolian", docs |-> "lydian",
  test |-> "pentatonic", chore |-> "mixolydian", merge |-> "ionian", revert |-> "phrygian",
  review |-> "dorian"]

\* pickChordColor: of the class, the session's mean resolution and tension, and a hash.
ColorsOf(class, resolution, tension) ==
  IF resolution >= 72 \/ class = "merge" THEN {"add9"}
  ELSE IF tension >= 72 \/ class = "revert" THEN {"sus4"}
  ELSE IF class = "docs" THEN {"maj7"}
  ELSE IF class \in {"fix", "review"} THEN {"flat7"}
  ELSE {"triad", "add9", "sus2", "sus4", "maj7", "flat7"}

\* pickHarmonyProfile: the tonic comes from hashes of the repository and the branch.
Harmonies ==
  UNION {[mode : {Mode[class]}, color : ColorsOf(class, resolution, tension), tonic : 0..11] :
    class \in DOMAIN Mode, resolution \in {0, 71, 72, 100}, tension \in {0, 71, 72, 100}}

\* The intervals of MOTIF_LIBRARY; an intent may begin anywhere in its motif.
Motifs == {<<0, 2, 4, 7>>, <<0, 3, 1, 5>>, <<0, 0, 2, 0>>, <<0, 4, 7, 2>>, <<0, -2, -5, -7>>,
           <<0, 1, 3, 5>>}
=============================================================================
