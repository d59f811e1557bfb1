----------------------------- MODULE MergeReview -----------------------------
(***************************************************************************)
(* The review of a branch before it is merged: buildReview of              *)
(* maestro-server.js asks git one thing after the other, while the branch  *)
(* may be pushed to, merged or deleted, and the review sheet               *)
(* (components/maestro/PreviewModal.jsx) shows what came of it. The files  *)
(* are numbered in the order git lists them in.                            *)
(***************************************************************************)
EXTENDS Integers, FiniteSets

CONSTANTS
  Files,       \* numbers of the files a branch may change
  Quoted,      \* those whose names git prints in quotes (core.quotePath: any that is not ASCII)
  MaxListed,   \* REVIEW_LIMITS.maxFiles
  MaxLogged,   \* REVIEW_LIMITS.maxCommits
  MaxMoves,    \* bound: changes of the branch
  None

VARIABLES
  branch,    \* its change of each file against the base, its commits, whether it merges cleanly
  waits,     \* the git command that is awaited, or how the review ended
  commits,   \* commits of the review
  stats,     \* lines of diff --numstat
  status,    \* statusByPath
  patches,   \* file -> what the review has of its patch
  mergeable,
  moved,     \* the branch has changed since the first command
  moves

vars == <<branch, waits, commits, stats, status, patches, mergeable, moved, moves>>
answers == <<commits, stats, status, patches, mergeable>>

Changes == {"same", "edited", "added", "deleted", "renamed", "binary", "large"}
Gone == [files |-> [f \in Files |-> "same"], commits |-> 0, clean |-> TRUE, exists |-> FALSE]
BranchStates ==
  {b \in [files : [Files -> Changes], commits : 0 .. MaxLogged + 1, clean : BOOLEAN, exists : {TRUE}] :
     b.commits = 0 <=> \A f \in Files : b.files[f] = "same"} \cup {Gone}

Changed(b) == {f \in Files : b.files[f] # "same"}

\* git diff --numstat writes a renamed file as `old => new`; it tells no lines of a binary file.
Stat(f) == [file |-> f, arrow |-> branch.files[f] = "renamed", binary |-> branch.files[f] = "binary"]

\* git diff --name-status: the path is the last column, so a renamed file has its new one. It is
\* quoted as numstat quotes it.
Status(f) ==
  IF branch.files[f] \in {"added", "deleted", "renamed"} THEN branch.files[f] ELSE "modified"

\* entries.slice(0, maxFiles).
Listed == {s \in stats : Cardinality({t \in stats : t.file < s.file}) < MaxListed}

\* What is taken for the path of a renamed file, or of one whose name is quoted, is none.
Astray(s) == s.arrow \/ s.file \in Quoted

\* A patch beyond the limit is dropped and not marked as cut.
Patch_bug(s) ==
  IF Astray(s) \/ branch.files[s.file] \in {"same", "large"} THEN "empty" ELSE "whole"

\* git diff base...branch -- path: empty for a path that is none; the deletion of one that has been
\* renamed since the stats were read.
Patch(s) ==
  IF Astray(s) \/ branch.files[s.file] = "same" THEN "empty"
  ELSE IF branch.files[s.file] = "large" THEN "cut" ELSE "whole"

\* statusByPath.get(entry.path) || 'modified'.
Label(s) == IF s.arrow \/ status[s.file] = None THEN "modified" ELSE status[s.file]

Init ==
  /\ branch \in BranchStates /\ waits = "none" /\ commits = 0 /\ stats = {} /\ status = [f \in Files |-> None]
  /\ patches = [f \in Files |-> None] /\ mergeable = None /\ moved = FALSE
  /\ moves = 0

-----------------------------------------------------------------------------
(* What git is asked, in the order of buildReview. Its answer is of the    *)
(* moment it is asked at.                                                  *)

Asks(command, then) == waits = command /\ waits' = then /\ UNCHANGED <<branch, moved, moves>>

\* GET /api/requests/:id/review: rev-parse --abbrev-ref HEAD.
ReadBase ==
  /\ waits = "none" /\ waits' = "verify"
  /\ UNCHANGED <<branch, moved, moves, answers>>

\* rev-parse --verify: any failure is BRANCH_NOT_FOUND.
Verify ==
  \/ branch.exists /\ Asks("verify", "log") /\ UNCHANGED answers
  \/ Asks("verify", "BRANCH_NOT_FOUND") /\ UNCHANGED answers

ReadLog ==
  /\ branch.exists /\ Asks("log", "numstat")
  /\ commits' = IF branch.commits > MaxLogged THEN MaxLogged ELSE branch.commits
  /\ UNCHANGED <<stats, status, patches, mergeable>>

ReadStats ==
  /\ branch.exists /\ Asks("numstat", "name-status")
  /\ stats' = {Stat(f) : f \in Changed(branch)}
  /\ UNCHANGED <<commits, status, patches, mergeable>>

ReadStatus ==
  /\ branch.exists /\ Asks("name-status", "patch")
  /\ status' = [f \in Files |-> IF f \in Changed(branch) THEN Status(f) ELSE None]
  /\ UNCHANGED <<commits, stats, patches, mergeable>>

\* Of each listed file in turn; a binary one is not asked for.
ReadPatch ==
  \E s \in Listed :
    /\ patches[s.file] = None /\ \A t \in Listed : t.file < s.file => patches[t.file] # None
    /\ branch.exists \/ s.binary
    /\ Asks("patch", "patch")
    /\ patches' = [patches EXCEPT ![s.file] = IF s.binary THEN "binary" ELSE Patch(s)]
    /\ UNCHANGED <<commits, stats, status, mergeable>>

\* merge-tree: clean, in conflict, or not to be told. The review is answered.
TryMerge ==
  /\ \A s \in Listed : patches[s.file] # None
  /\ Asks("patch", "answered")
  /\ mergeable' \in {None} \cup (IF branch.exists THEN {branch.clean} ELSE {})
  /\ UNCHANGED <<commits, stats, status, patches>>

\* A command fails: the branch is gone, or its output exceeds maxBuffer.
GitFails ==
  /\ \/ waits \in {"none", "log", "numstat", "name-status"}
     \/ waits = "patch" /\ \E s \in Listed : patches[s.file] = None /\ ~s.binary
  /\ waits' = "REVIEW_FAILED"
  /\ UNCHANGED <<branch, moved, moves, answers>>

-----------------------------------------------------------------------------
(* Agents and operators.                                                   *)

Moves ==
  /\ moves < MaxMoves /\ moves' = moves + 1 /\ moved' = TRUE
  /\ waits \notin {"none", "answered", "BRANCH_NOT_FOUND", "REVIEW_FAILED"}
  /\ UNCHANGED <<waits, answers>>

Push ==
  /\ branch.exists /\ branch.commits <= MaxLogged /\ Moves
  /\ \E f \in Files, change \in Changes, clean \in BOOLEAN :
       branch' = [branch EXCEPT !.files[f] = change, !.commits = @ + 1, !.clean = clean]
  /\ Changed(branch') # {}
Merged ==
  /\ branch.exists /\ branch.clean /\ branch.commits > 0 /\ Moves
  /\ branch' = [Gone EXCEPT !.exists = TRUE]
Deleted == branch.exists /\ Moves /\ branch' = Gone

Next ==
  \/ ReadBase \/ Verify \/ ReadLog \/ ReadStats \/ ReadStatus \/ ReadPatch \/ TryMerge \/ GitFails
  \/ Push \/ Merged \/ Deleted

Spec == Init /\ [][Next]_vars

-----------------------------------------------------------------------------
TypeOK ==
  /\ branch \in BranchStates /\ commits \in 0 .. MaxLogged
  /\ waits \in {"none", "verify", "log", "numstat", "name-status", "patch", "answered",
                "BRANCH_NOT_FOUND", "REVIEW_FAILED"}
  /\ stats \subseteq [file : Files, arrow : BOOLEAN, binary : BOOLEAN]
  /\ status \in [Files -> {None, "added", "deleted", "renamed", "modified"}]
  /\ patches \in [Files -> {None, "binary", "empty", "cut", "whole"}]
  /\ mergeable \in BOOLEAN \cup {None} /\ moved \in BOOLEAN /\ moves \in 0 .. MaxMoves

\* What the sheet says of files it does not show whole: that a file is binary, that its patch is
\* cut, or that files or patches were left out (stats.truncated).
Said(f) == patches[f] \in {"binary", "cut"} \/ Cardinality(stats) > Cardinality(Listed)

\* Of a branch that has not moved meanwhile, the review has all changed files, each with its label
\* and its patch, or says that it is binary, cut or left out; but the patch of a renamed file, or
\* of one whose name is quoted, is empty without a word, and a renamed file is called modified.
\* Commits beyond the limit are left out without a word too. What the badge says of conflicts holds
\* when the review is answered, also if the branch has moved, and a branch that is gone has no
\* badge (buildReview of maestro-server.js).
ReviewIsWhole ==
  waits = "answered" =>
    /\ mergeable \in {None} \cup (IF branch.exists THEN {branch.clean} ELSE {})
    /\ ~moved =>
         /\ {s.file : s \in stats} = Changed(branch)
         /\ commits = branch.commits \/ commits = MaxLogged
         /\ \A s \in stats : s.arrow <=> branch.files[s.file] = "renamed"
         /\ \A s \in stats : s.arrow \/ Label(s) = Status(s.file)
         /\ \A s \in stats : Astray(s) \/ patches[s.file] = "whole" \/ Said(s.file)

-----------------------------------------------------------------------------
(* Why it holds: an inductive invariant. *)

\* What has been read is what the branch has, as long as it has not moved.
ReviewAgrees ==
  /\ waits \in {"none", "verify", "log", "numstat", "name-status"} => patches = [f \in Files |-> None]
  /\ waits = "answered" =>
       /\ mergeable \in {None} \cup (IF branch.exists THEN {branch.clean} ELSE {})
       /\ \A s \in Listed : patches[s.file] # None
  /\ ~moved =>
       /\ waits \in {"numstat", "name-status", "patch", "answered"} =>
            commits = branch.commits \/ commits = MaxLogged
       /\ waits \in {"name-status", "patch", "answered"} => stats = {Stat(f) : f \in Changed(branch)}
       /\ waits \in {"patch", "answered"} =>
            /\ status = [f \in Files |-> IF f \in Changed(branch) THEN Status(f) ELSE None]
            /\ \A s \in Listed : patches[s.file] \in {None, IF s.binary THEN "binary" ELSE Patch(s)}

ReviewInvariant == TypeOK /\ ReviewAgrees
=============================================================================
