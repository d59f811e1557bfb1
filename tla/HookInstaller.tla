---------------------------- MODULE HookInstaller ----------------------------
(***************************************************************************)
(* npm run install:hook (scripts/install-maestro-hook.mjs) on the user's   *)
(* post-commit hook and Claude settings, which the user edits between its  *)
(* runs. A hook is a sequence of lines; what the installer manages in it   *)
(* lies between two markers. Each line that runs notify-maestro.sh posts   *)
(* one approval request at every commit (hooks/notify-maestro.sh).         *)
(***************************************************************************)
EXTENDS Naturals, Sequences, FiniteSets, Ranks

CONSTANTS
  Lines,     \* lines a user writes, none of which is a marker
  Manual,    \* the one of them that runs notify-maestro.sh, as USER_GUIDE.md shows it
  Exit,      \* the one that ends the hook (exit 0)
  MaxEdits,  \* bound: the user's edits
  MaxRuns    \* bound: runs of the installer

VARIABLES
  hook,       \* .git/hooks/post-commit: its lines, of which a missing file has none
  stops,      \* hooks.Stop of .claude/settings.json: sets of commands
  slip,       \* there is a mistake in that file, so that it cannot be read
  mine,       \* the lines outside the block when the user last edited the hook
  others,     \* the entries with commands of the user's
  installed,  \* the targets installed, and by the user not changed where the installer wrote
  broken,     \* the user has removed a marker
  edits, runs

vars == <<hook, stops, slip, mine, others, installed, broken, edits, runs>>

\* GIT_BLOCK, whose "notify" is two commands: one ends the hook if MAESTRO_HOOK_DISABLED is set, the
\* other runs notify-maestro.sh. CLAUDE_COMMAND.
Block == <<"start", "notify", "end">>
Notify == "notify-maestro"

Init ==
  /\ hook \in {<<>>, <<"shebang">>} /\ stops = <<>> /\ slip = FALSE
  /\ mine = <<>> /\ others = <<>> /\ installed = {} /\ broken = FALSE /\ edits = 0 /\ runs = 0

At(lines, marker) == {i \in DOMAIN lines : lines[i] = marker}
First(S) == CHOOSE i \in S : \A j \in S : i <= j
After(lines, i) == SubSeq(lines, i + 1, Len(lines))

\* Mutant: a hook with only one of the markers counts as one with none, and any other is replaced
\* up to the last end marker.
Upserted_bug(lines) ==
  IF At(lines, "start") # {} /\ At(lines, "end") # {}
  THEN SubSeq(lines, 1, First(At(lines, "start")) - 1) \o Block
  ELSE lines \o Block

\* upsertManagedBlock: from the first start marker to the first end marker after it; nothing is
\* replaced if there is none after it; appended if one of them is missing.
Upserted(lines) ==
  IF At(lines, "start") # {} /\ At(lines, "end") # {}
  THEN LET from == First(At(lines, "start"))
           ends == {i \in At(lines, "end") : from < i} IN
       IF ends = {} THEN lines
       ELSE SubSeq(lines, 1, from - 1) \o Block \o After(lines, First(ends))
  ELSE IF lines = <<>> THEN <<"shebang">> \o Block ELSE lines \o Block

\* installGitPostCommitHook.
InstallGit ==
  /\ runs < MaxRuns /\ runs' = runs + 1
  /\ hook' = Upserted(hook)
  /\ installed' = installed \cup {"git"}
  /\ UNCHANGED <<stops, slip, mine, others, broken, edits>>

\* installClaudeStopHook: an entry of its own, unless one has the command. Settings that cannot be
\* read end the run with an error.
InstallClaude ==
  /\ runs < MaxRuns /\ runs' = runs + 1
  /\ ~slip
  /\ stops' = IF \E i \in DOMAIN stops : Notify \in stops[i] THEN stops ELSE Append(stops, {Notify})
  /\ installed' = installed \cup {"claude"}
  /\ UNCHANGED <<hook, slip, mine, others, broken, edits>>

-----------------------------------------------------------------------------
Edit == edits < MaxEdits /\ edits' = edits + 1 /\ UNCHANGED runs
Without(lines, i) == SubSeq(lines, 1, i - 1) \o After(lines, i)
With(lines, i, line) == SubSeq(lines, 1, i) \o <<line>> \o After(lines, i)

\* The places between the markers, and the user's lines at the others.
Between(lines) ==
  {k \in DOMAIN lines : \E i \in At(lines, "start"), j \in At(lines, "end") : i < k /\ k < j}
Users(lines) == {i \in DOMAIN lines : lines[i] \in Lines} \ Between(lines)
Mine(lines) == Picked(lines, Users(lines))

\* The user writes a line into the hook, anywhere, or into a new one,
WriteLine(line) ==
  /\ Edit
  /\ \/ \E i \in 0..Len(hook) :
          /\ hook' = With(hook, i, line)
          /\ installed' = IF i + 1 \in Between(hook') THEN installed \ {"git"} ELSE installed
     \/ hook = <<>> /\ hook' = <<"shebang", line>> /\ UNCHANGED installed
  /\ mine' = Mine(hook')
  /\ UNCHANGED <<stops, slip, others, broken>>

\* or removes one.
RemoveLine(i) ==
  /\ Edit /\ hook' = Without(hook, i)
  /\ mine' = Mine(hook')
  /\ broken' = (broken \/ hook[i] \in {"start", "end"})
  /\ installed' = installed \ {"git"}
  /\ UNCHANGED <<stops, slip, others>>

\* The user adds a Stop hook, alone or beside the installer's command, or removes that command.
AddStop(line, beside) ==
  /\ Edit /\ ~slip
  /\ IF beside THEN \E i \in DOMAIN stops : Notify \in stops[i] /\ stops' = [stops EXCEPT ![i] = @ \cup {line}]
               ELSE stops' = Append(stops, {line})
  /\ others' = Append(others, line)
  /\ UNCHANGED <<hook, slip, mine, installed, broken>>

RemoveStop(i) ==
  /\ Edit /\ stops' = [stops EXCEPT ![i] = @ \ {Notify}]
  /\ installed' = installed \ {"claude"}
  /\ UNCHANGED <<hook, slip, mine, others, broken>>

\* The settings are saved with a mistake in them, or mended.
BreakStops ==
  /\ Edit /\ ~slip /\ slip' = TRUE
  /\ UNCHANGED <<hook, stops, mine, others, installed, broken>>
MendStops ==
  /\ slip /\ slip' = FALSE
  /\ UNCHANGED <<hook, stops, mine, others, installed, broken, edits, runs>>

Next ==
  \/ InstallGit \/ InstallClaude \/ BreakStops \/ MendStops
  \/ \E line \in Lines : WriteLine(line) \/ \E beside \in BOOLEAN : AddStop(line, beside)
  \/ \E i \in DOMAIN hook : RemoveLine(i)
  \/ ~slip /\ \E i \in DOMAIN stops : Notify \in stops[i] /\ RemoveStop(i)

Spec == Init /\ [][Next]_vars

-----------------------------------------------------------------------------
TypeOK ==
  /\ hook \in Seq({"shebang", "start", "notify", "end"} \cup Lines)
  /\ stops \in Seq(SUBSET (Lines \cup {Notify})) /\ slip \in BOOLEAN
  /\ mine \in Seq(Lines) /\ others \in Seq(Lines) /\ installed \subseteq {"git", "claude"}
  /\ broken \in BOOLEAN /\ edits \in 0..MaxEdits /\ runs \in 0..MaxRuns

\* Running the installer again and again leaves the user's Stop hooks as they are, and the lines
\* the user wrote outside its block in their order: what stands between its markers it replaces.
\* Once a marker was removed, what lies between those that are left is taken for its own.
UsersLinesStay ==
  /\ ~broken => Mine(hook) = mine
  /\ \A line \in Lines : (\E i \in DOMAIN stops : line \in stops[i])
                           <=> \E i \in DOMAIN others : others[i] = line

\* The places from which a commit posts a request (notify-maestro.sh), `off` if
\* MAESTRO_HOOK_DISABLED is set: those before any line that ends the hook.
Ends(line, off) == line = Exit \/ (off /\ line = "notify")
Posts(lines, off) ==
  {i \in DOMAIN lines :
     /\ lines[i] = Manual \/ (lines[i] = "notify" /\ ~off)
     /\ \A j \in DOMAIN lines : j < i => ~Ends(lines[j], off)}

\* After an installation, and until the user changes the block, it posts one approval request at a
\* commit, unless a line of the user's before it ends the hook; a line the user wrote, as the guide
\* shows, posts another; with MAESTRO_HOOK_DISABLED the block posts none. A Claude session that
\* stops posts one. This is so however often the hooks were installed, removed and edited.
NotifiesOnce ==
  /\ "git" \in installed /\ ~broken =>
       LET cut == \E i, j \in DOMAIN hook : i < j /\ hook[i] = Exit /\ hook[j] = "notify"
           wrote == Cardinality({i \in DOMAIN mine : mine[i] = Manual}) IN
       /\ Cardinality({i \in Posts(hook, FALSE) : hook[i] = "notify"}) = IF cut THEN 0 ELSE 1
       /\ (\A i \in DOMAIN mine : mine[i] # Exit) => Cardinality(Posts(hook, FALSE)) = 1 + wrote
       /\ Cardinality(Posts(hook, TRUE)) <= wrote
  /\ "claude" \in installed =>
       Cardinality({i \in DOMAIN stops : Notify \in stops[i]}) = 1

-----------------------------------------------------------------------------
(* Inductive invariants, for the proofs. *)

\* Unless a marker was removed, a hook has no line of the installer's, or one block, with its
\* line or without it among others; an installation leaves the block alone with its line.
NoBlock == At(hook, "start") = {} /\ At(hook, "end") = {} /\ At(hook, "notify") = {}
OpenBlock(i, j) ==
  /\ At(hook, "start") = {i} /\ At(hook, "end") = {j} /\ i < j
  /\ At(hook, "notify") \subseteq (i + 1)..(j - 1)
WholeBlock(i) ==
  At(hook, "start") = {i} /\ At(hook, "end") = {i + 2} /\ At(hook, "notify") = {i + 1}

OneBlock ==
  ~broken =>
    /\ NoBlock \/ \E i, j \in DOMAIN hook : OpenBlock(i, j)
    /\ "git" \in installed => \E i \in DOMAIN hook : WholeBlock(i)

\* The command is in one entry at most.
OneStop ==
  /\ \A i, j \in DOMAIN stops : Notify \in stops[i] /\ Notify \in stops[j] => i = j
  /\ "claude" \in installed => \E i \in DOMAIN stops : Notify \in stops[i]

HooksInvariant == TypeOK /\ UsersLinesStay /\ OneBlock /\ OneStop
=============================================================================
