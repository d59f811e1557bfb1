----------------------------- MODULE LocalReplay -----------------------------
(***************************************************************************)
(* A commit of a local repository on its way to the Player: git log prints *)
(* it, the bridge's server reads an event from the print                   *)
(* (player/src/lib/gitReplayAdapter.js) and answers it                     *)
(* (player/server/localReplayBridgePlugin.js), and the page makes the      *)
(* answer an event of its own (localRepoBridge.js). What git prints is     *)
(* external.                                                               *)
(***************************************************************************)
EXTENDS Integers, FiniteSets, FiniteSetsExt

CONSTANTS
  Files,    \* paths a commit may change, as git prints them
  Folder,   \* path -> its first directory
  Lines,    \* numbers of lines added or deleted
  Asked,    \* the branch the page asks for
  None

VARIABLES
  commit,   \* what it changes, its parents, how its message begins, its refs
  event,    \* as far as it has come
  at        \* "git", "server", "page"

vars == <<commit, event, at>>

Change ==
  {c \in [added : Lines, deleted : Lines, binary : BOOLEAN, new : BOOLEAN] :
     c.binary => c.added = 0 /\ c.deleted = 0}

\* Refs of a commit by their kind: `HEAD -> name`, HEAD alone, another local branch, a branch of
\* origin or of another remote, a tag.
Refs == {R \in SUBSET {"HEAD", "detached", "local", "origin", "upstream", "tag"} :
           Cardinality(R) <= 2 /\ ~{"HEAD", "detached"} \subseteq R}

LocalCommits ==
  [files : UNION {[F -> Change] : F \in SUBSET Files}, parents : 1 .. 2,
   says : {"something", "Merge", "Revert"}, refs : Refs]

-----------------------------------------------------------------------------
(* git log --numstat --summary.                                            *)

\* Of a merge nothing is printed.
Shown(c) == IF c.parents > 1 THEN {} ELSE DOMAIN c.files

\* Of a binary file numstat prints `-` twice.
Numstat(c) ==
  {[path |-> f, added |-> IF c.files[f].binary THEN None ELSE c.files[f].added,
    deleted |-> IF c.files[f].binary THEN None ELSE c.files[f].deleted] : f \in Shown(c)}

\* A line `create mode` is indented by a blank.
Summary(c) == {[path |-> f, indented |-> TRUE] : f \in {g \in Shown(c) : c.files[g].new}}

-----------------------------------------------------------------------------
(* The server.                                                             *)

\* A binary file counts as a line.
Counted_bug(n) == IF n = None THEN 1 ELSE n

Counted(n) == IF n = None THEN 0 ELSE n

\* The pattern for a new file begins at the beginning of the line.
NewFiles(c) == {line.path : line \in {l \in Summary(c) : ~l.indented}}

\* detectEventType.
Type(c) ==
  IF c.parents > 1 \/ c.says = "Merge" THEN "merge" ELSE IF c.says = "Revert" THEN "revert" ELSE "commit"

\* pickBranchName: what is neither of origin nor a tag is taken for a local branch. Git prints HEAD
\* first, and remote branches before local ones.
Branch(c) ==
  IF "HEAD" \in c.refs THEN "HEAD"
  ELSE IF "detached" \in c.refs THEN "detached"
  ELSE IF "upstream" \in c.refs THEN "upstream"
  ELSE IF "local" \in c.refs THEN "local" ELSE Asked

Folders(paths) == Cardinality({Folder[f] : f \in paths})
SumOver(S, Op(_)) == FoldSet(LAMBDA s, n : n + Op(s), 0, S)
Weight(added, deleted, files) == IF added + deleted + files = 0 THEN 1 ELSE added + deleted + files

\* parseGitLogRecord: a file that is new is marked in changedFiles.
Parsed(c) ==
  LET added == SumOver(Numstat(c), LAMBDA l : Counted(l.added))
      deleted == SumOver(Numstat(c), LAMBDA l : Counted(l.deleted))
      paths == {l.path : l \in Numstat(c)} \cup NewFiles(c)
  IN [type |-> Type(c), branch |-> Branch(c), source |-> "git",
      changedFiles |-> {[path |-> f, new |-> f \in NewFiles(c)] : f \in paths},
      filesChanged |-> Cardinality(paths), linesAdded |-> added, linesDeleted |-> deleted,
      newFileCount |-> Cardinality(NewFiles(c)), newDirectoryCount |-> Folders(NewFiles(c)),
      weight |-> Weight(added, deleted, Cardinality(paths))]

-----------------------------------------------------------------------------
(* The page.                                                               *)

\* normalizeLocalRepoEvent. Counts are taken from the files, and from the event if there are none.
Or(n, fallback) == IF n = 0 THEN fallback ELSE n
Normalized(e) ==
  LET new == {f \in e.changedFiles : f.new}
  IN [e EXCEPT !.source = "git-local",
        !.type = IF @ = "rollback" THEN "revert" ELSE @,
        !.filesChanged = Or(Cardinality(e.changedFiles), @),
        !.newFileCount = Or(Cardinality(new), @),
        !.newDirectoryCount = Or(Folders({f.path : f \in new}), @),
        !.weight = IF @ > 0 THEN @
                   ELSE Weight(e.linesAdded, e.linesDeleted, Cardinality(e.changedFiles))]

Init == commit \in LocalCommits /\ event = None /\ at = "git"
Reads == at = "git" /\ at' = "server" /\ event' = Parsed(commit) /\ UNCHANGED commit
Shows == at = "server" /\ at' = "page" /\ event' = Normalized(event) /\ UNCHANGED commit

Next == Reads \/ Shows
Spec == Init /\ [][Next]_vars

-----------------------------------------------------------------------------
TypeOK ==
  /\ commit \in LocalCommits /\ at \in {"git", "server", "page"}
  /\ at # "git" => event.type \in {"commit", "merge", "revert"} /\ event.weight \in Nat \ {0}
                     /\ event.source = IF at = "page" THEN "git-local" ELSE "git"

\* On the server and on the page an event has the files and lines git prints of its commit, which
\* of a merge are none; it calls no file new that is not, and its counts of new files and folders
\* are those of the files it calls new (parseGitLogRecord, normalizeLocalRepoEvent).
EventIsTheCommits ==
  at # "git" =>
    /\ {f.path : f \in event.changedFiles} = Shown(commit)
    /\ event.filesChanged = Cardinality(Shown(commit))
    /\ event.linesAdded = SumOver(Shown(commit), LAMBDA f : commit.files[f].added)
    /\ event.linesDeleted = SumOver(Shown(commit), LAMBDA f : commit.files[f].deleted)
    /\ \A f \in event.changedFiles : f.new => commit.files[f.path].new
    /\ event.newFileCount = Cardinality({f \in event.changedFiles : f.new})
    /\ event.newDirectoryCount = Folders({f.path : f \in {g \in event.changedFiles : g.new}})
    /\ event.weight = Weight(event.linesAdded, event.linesDeleted, event.filesChanged)
    /\ commit.parents > 1 => event.type = "merge"

\* The files a commit creates are counted and marked as new, as a test says of one
\* (player/tests/gitReplayAdapter.test.mjs:28-29). They are not: git indents the lines that say so.
NewFilesAreKnown ==
  at # "git" =>
    LET new == {f \in Shown(commit) : commit.files[f].new} IN
    /\ event.newFileCount = Cardinality(new)
    /\ {f.path : f \in {g \in event.changedFiles : g.new}} = new
=============================================================================
