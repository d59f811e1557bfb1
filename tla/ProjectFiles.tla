---------------------------- MODULE ProjectFiles ----------------------------
(***************************************************************************)
(* The project registry (.maestro-projects.json) and .env, and the two     *)
(* kinds of process that rewrite them: the approval server                 *)
(* (/api/projects/select, update and register, persistRuntimeProject) and  *)
(* the command line (scripts/projects.js, scripts/configure.js).           *)
(*                                                                         *)
(* Every change reads a whole file, changes the copy and overwrites the    *)
(* file, which is empty for a moment (writeFileSync truncates it). A       *)
(* process does one of these after another, and the other process may come *)
(* in between. The order of the registry is left out: where several        *)
(* entries match, any may be the first.                                    *)
(***************************************************************************)
EXTENDS Integers, Sequences, FiniteSets

CONSTANTS
  Paths,       \* git repositories
  Home,        \* the one the server takes if .env names none
  RuntimeId,   \* RuntimeId[p]: "runtime_" and the beginning of p's base64: paths may share one
  LaneInputs,  \* lane counts users ask for
  None,        \* "no id", "not set"
  MaxJobs,     \* bound: calls and commands
  MaxCrashes   \* bound: crashes of the server

Processes == {"server", "cli"}
DefaultLanes == 4

\* sanitizeLaneCount, of an integer.
Sanitize(n) == IF n < 1 THEN 1 ELSE IF n > 8 THEN 8 ELSE n

Ids == {RuntimeId[p] : p \in Paths} \cup Nat
Entry == [path : Paths, id : Ids, lanes : 1..8]
Env == [path : Paths, lanes : 1..8, settings : Nat]

VARIABLES
  registry,  \* .maestro-projects.json as it was last written: a set of entries
  env,       \* and .env: the project, its lanes, and a version of the other keys
  torn,      \* the files of the two that have been truncated since
  runtime,   \* runtimeProjectState
  up,        \* the server runs
  ops,       \* ops[x]: the changes process x has still to make
  phase,     \* phase[x]: for the first of them x "reads" the file, "changes" it or "writes" it
  copy,      \* copy[x]: the file it has read
  id,        \* id[x]: savedProject.id, or the id of the project that was selected
  listed,    \* paths whose registration was answered with success
  chosen,    \* the version of the other keys that was set last
  raced,     \* a change was made to a copy that was no longer what the file held
  envBy,     \* who wrote .env last
  jobs, crashes

vars == <<registry, env, torn, runtime, up, ops, phase, copy, id, listed, chosen, raced, envBy, jobs,
          crashes>>

NoEnv == [path |-> Home, lanes |-> DefaultLanes, settings |-> 0]

\* readProjectRegistry and readEnvFile: a truncated file is an empty one.
ReadRegistry == IF "registry" \in torn THEN {} ELSE registry
ReadEnv == IF "env" \in torn THEN NoEnv ELSE env

Upsert(p, i, n) == [do |-> "upsert", path |-> p, id |-> i, lanes |-> n]
SetEnv(p, n, s) == [do |-> "env", path |-> p, lanes |-> n, settings |-> s]
Mark == [do |-> "mark"]

\* createRuntimeProjectState.
RuntimeIdOf(p, entries) ==
  LET known == {e.id : e \in {f \in entries : f.path = p}} IN
  IF known = {} THEN {RuntimeId[p]} ELSE known

\* listAvailableProjects.
Available(entries) ==
  entries \cup IF \E e \in entries : e.path = runtime.path THEN {} ELSE {runtime}

\* toProjectId: the slug, or the slug with the first number that makes it new.
NewId(entries) == CHOOSE n \in 1..(Cardinality(entries) + 1) :
  /\ n \notin {e.id : e \in entries}
  /\ \A m \in 1..(n - 1) : m \in {e.id : e \in entries}

\* The entries upsertProjectEntry may change: the first with this path or this id.
Matching(entries, op) == {e \in entries : e.path = op.path \/ e.id = op.id}

Saved(e, op) == [path |-> op.path, id |-> e.id, lanes |-> op.lanes]
Created(entries, op) ==
  [path |-> op.path, lanes |-> op.lanes,
   id |-> IF op.id = None THEN NewId(entries) ELSE op.id]

Init ==
  /\ registry = {} /\ env = NoEnv /\ torn = {}
  /\ runtime = [path |-> Home, id |-> RuntimeId[Home], lanes |-> DefaultLanes]
  /\ up = TRUE
  /\ ops = [x \in Processes |-> <<>>]
  /\ phase = [x \in Processes |-> "reads"] /\ copy = [x \in Processes |-> None]
  /\ id = [x \in Processes |-> None]
  /\ listed = {} /\ chosen = 0 /\ raced = FALSE /\ envBy = "server"
  /\ jobs = 0 /\ crashes = 0

Begins(x, todo, i) ==
  /\ ops[x] = <<>> /\ jobs < MaxJobs
  /\ ops' = [ops EXCEPT ![x] = todo] /\ id' = [id EXCEPT ![x] = i]
  /\ jobs' = jobs + 1
  /\ UNCHANGED <<registry, env, torn, runtime, up, phase, copy, listed, chosen, raced, envBy, crashes>>

\* POST /api/projects/select.
Select ==
  /\ up
  /\ \E t \in Available(ReadRegistry) :
       Begins("server", <<SetEnv(t.path, t.lanes, None), Mark>>, t.id)

\* POST /api/projects/update. It changes .env too if the project is the active one.
Update ==
  /\ up
  /\ \E t \in Available(ReadRegistry), n \in LaneInputs :
       LET save == Upsert(t.path, t.id, Sanitize(n)) IN
       Begins("server", IF t.path = runtime.path
                        THEN <<save, SetEnv(t.path, Sanitize(n), None), Mark>> ELSE <<save>>, None)

\* POST /api/projects/register, with or without `activate`.
RegisterProject ==
  /\ up
  /\ \E p \in Paths, n \in LaneInputs :
       LET save == Upsert(p, None, Sanitize(n)) IN
       \/ Begins("server", <<save, SetEnv(p, Sanitize(n), None), Mark>>, None)
       \/ Begins("server", <<save>>, None)

\* npm run project:add, applied to .env or not.
Add ==
  /\ \E p \in Paths, n \in LaneInputs \cap 1..8 :
       \/ Begins("cli", <<Upsert(p, None, n), SetEnv(p, n, None), Mark>>, None)
       \/ Begins("cli", <<Upsert(p, None, n)>>, None)

\* npm run project:use: the project is what the registry said before the prompt.
Use ==
  /\ \E e \in ReadRegistry :
       Begins("cli", <<SetEnv(e.path, e.lanes, None), Mark>>, e.id)

\* configure.js: a new path, saved in the registry or not, or a registered project; and new
\* values of the other keys. It reads .env before it asks, but of that copy it keeps only keys
\* that nobody else changes.
Configure ==
  /\ \/ \E p \in Paths, n \in LaneInputs \cap 1..8 :
          \/ Begins("cli", <<Upsert(p, None, n), SetEnv(p, n, jobs + 1), Mark>>, None)
          \/ Begins("cli", <<SetEnv(p, n, jobs + 1)>>, None)
     \/ \E e \in ReadRegistry :
          Begins("cli", <<SetEnv(e.path, e.lanes, jobs + 1), Mark>>, e.id)

-----------------------------------------------------------------------------
First(x) == Head(ops[x])
File(x) == IF First(x).do = "env" THEN "env" ELSE "registry"

\* A change is made in three steps. The file is read;
Reads(x) ==
  /\ ops[x] # <<>> /\ phase[x] = "reads" /\ phase' = [phase EXCEPT ![x] = "changes"]
  /\ copy' = [copy EXCEPT ![x] = IF File(x) = "env" THEN ReadEnv ELSE ReadRegistry]
  /\ UNCHANGED <<registry, env, torn, runtime, up, ops, id, listed, chosen, raced, envBy, jobs, crashes>>

\* markProjectUsed gives up if the project is no longer registered.
GivesUp(x) == First(x).do = "mark" /\ \A e \in copy[x] : e.id # id[x]

\* it is truncated;
Truncates(x) ==
  /\ phase[x] = "changes" /\ phase' = [phase EXCEPT ![x] = "writes"]
  /\ ~GivesUp(x)
  /\ torn' = torn \cup {File(x)}
  /\ raced' = (raced \/ File(x) \in torn \/ copy[x] # IF File(x) = "env" THEN env ELSE registry)
  /\ UNCHANGED <<registry, env, runtime, up, ops, copy, id, listed, chosen, envBy, jobs, crashes>>

Ends(x) ==
  /\ ops' = [ops EXCEPT ![x] = Tail(@)]
  /\ phase' = [phase EXCEPT ![x] = "reads"] /\ copy' = [copy EXCEPT ![x] = None]
  /\ UNCHANGED <<up, jobs, crashes>>

Writes(x, what) ==
  /\ phase[x] = "writes" /\ First(x).do = what
  /\ torn' = torn \ {File(x)}
  /\ raced' = (raced \/ File(x) \notin torn)
  /\ Ends(x)

\* and the changed copy is written. upsertProjectEntry:
WritesEntry(x) ==
  /\ Writes(x, "upsert")
  /\ \E new \in LET m == Matching(copy[x], First(x)) IN
                IF m = {} THEN {<<{}, Created(copy[x], First(x))>>}
                          ELSE {<<{e}, Saved(e, First(x))>> : e \in m} :
       /\ registry' = (copy[x] \ new[1]) \cup {new[2]}
       /\ id' = [id EXCEPT ![x] = new[2].id]
  /\ listed' = listed \cup {First(x).path}
  /\ UNCHANGED <<env, runtime, chosen, envBy>>

\* markProjectUsed, which changes times only;
WritesMark(x) ==
  /\ Writes(x, "mark")
  /\ registry' = copy[x]
  /\ UNCHANGED <<env, runtime, id, listed, chosen, envBy>>

SkipsMark(x) ==
  /\ phase[x] = "changes" /\ GivesUp(x)
  /\ Ends(x)
  /\ UNCHANGED <<registry, env, torn, runtime, id, listed, chosen, raced, envBy>>

\* Mutant: the keys a writer does not set are dropped.
Settings_bug(old, op) == IF op.settings = None THEN 0 ELSE op.settings

\* The keys a writer does not set are those of its copy.
Settings(old, op) == IF op.settings = None THEN old.settings ELSE op.settings

\* and persistRuntimeProject or applyProjectToEnv.
WritesEnv(x) ==
  /\ Writes(x, "env")
  /\ env' = [path |-> First(x).path, lanes |-> First(x).lanes,
             settings |-> Settings(copy[x], First(x))]
  /\ envBy' = x
  /\ chosen' = IF First(x).settings = None THEN chosen ELSE First(x).settings
  /\ IF x = "cli" THEN UNCHANGED runtime
     ELSE \E i \in RuntimeIdOf(First(x).path, ReadRegistry) :
            runtime' = [path |-> First(x).path, id |-> i, lanes |-> First(x).lanes]
  /\ UNCHANGED <<registry, id, listed>>

Crash ==
  /\ up /\ crashes < MaxCrashes
  /\ up' = FALSE /\ crashes' = crashes + 1
  /\ ops' = [ops EXCEPT !["server"] = <<>>]
  /\ phase' = [phase EXCEPT !["server"] = "reads"] /\ copy' = [copy EXCEPT !["server"] = None]
  /\ raced' = (raced \/ phase["server"] = "writes")
  /\ UNCHANGED <<registry, env, torn, runtime, id, listed, chosen, envBy, jobs>>

\* The server takes its project from .env.
Start ==
  /\ ~up /\ up' = TRUE
  /\ LET e == ReadEnv IN
     \E i \in RuntimeIdOf(e.path, ReadRegistry) :
       runtime' = [path |-> e.path, id |-> i, lanes |-> e.lanes]
  /\ envBy' = IF "env" \in torn THEN "cli" ELSE "server"
  /\ UNCHANGED <<registry, env, torn, ops, phase, copy, id, listed, chosen, raced, jobs, crashes>>

Next ==
  \/ Select \/ Update \/ RegisterProject \/ Add \/ Use \/ Configure
  \/ \E x \in Processes :
       Reads(x) \/ Truncates(x) \/ WritesEntry(x) \/ WritesMark(x) \/ SkipsMark(x) \/ WritesEnv(x)
  \/ Crash \/ Start

Spec == Init /\ [][Next]_vars

-----------------------------------------------------------------------------
TypeOK ==
  /\ registry \subseteq Entry /\ env \in Env /\ torn \subseteq {"registry", "env"}
  /\ runtime \in Entry /\ up \in BOOLEAN
  /\ phase \in [Processes -> {"reads", "changes", "writes"}]
  /\ listed \subseteq Paths /\ chosen \in Nat
  /\ raced \in BOOLEAN /\ envBy \in Processes
  /\ jobs \in 0..MaxJobs /\ crashes \in 0..MaxCrashes

Alone(p) == \A q \in Paths \ {p} : RuntimeId[q] # RuntimeId[p]

\* A project whose registration was answered with success stays in the registry, whatever is
\* registered, renamed or selected afterwards, unless two processes changed a file at the same
\* time, or the server died in a write, or an unregistered project shares its runtime id.
ProjectsStay ==
  raced \/ "registry" \in torn \/ \A p \in listed : Alone(p) => \E e \in registry : e.path = p

\* No two entries have the same path or the same id, but where runtime ids are shared.
RegistrySound ==
  raced \/ \A e, f \in ReadRegistry :
             Alone(e.path) /\ (e.path = f.path \/ e.id = f.id) => e = f

\* Selecting a project leaves the other keys of .env as the operator configured them, and the
\* project .env names is the one the server works on until the command line chooses another.
EnvIsKept ==
  raced \/ "env" \in torn \/
    /\ env.settings = chosen
    /\ up /\ envBy = "server" => env.path = runtime.path /\ env.lanes = runtime.lanes

-----------------------------------------------------------------------------
(* Inductive invariants, for the proofs. *)

Op == [do : {"upsert"}, path : Paths, id : Ids \cup {None}, lanes : 1..8]
        \cup [do : {"env"}, path : Paths, lanes : 1..8, settings : Nat \cup {None}] \cup {Mark}

\* What a process has read is a file of the kind it is going to change; a registry is finite, and
\* so leaves a number free.
OpsTyped ==
  /\ ops \in [Processes -> Seq(Op)] /\ DOMAIN copy = Processes
  /\ IsFiniteSet(registry)
  /\ \A x \in Processes : phase[x] # "reads" =>
       ops[x] # <<>> /\ IF File(x) = "env" THEN copy[x] \in Env
                     ELSE copy[x] \subseteq Entry /\ IsFiniteSet(copy[x])

\* One process writes a file at a time, and its copy is what the file held.
OneWriter ==
  /\ \A x \in Processes : phase[x] = "writes" =>
       File(x) \in torn /\ copy[x] = IF File(x) = "env" THEN env ELSE registry
  /\ \A x, y \in Processes :
       phase[x] = "writes" /\ phase[y] = "writes" /\ File(x) = File(y) => x = y

\* An id that was made of a name is one entry's, which keeps its path; others are runtime ids.
IdsHold ==
  /\ \A e \in registry : e.id \in Nat \/ e.id = RuntimeId[e.path]
  /\ \A e, f \in registry :
       e.id \in Nat /\ f.id \in Nat /\ (e.id = f.id \/ e.path = f.path) => e = f

\* The id that goes with a path is its runtime id or that of its entry.
IdOf(p, i) == i = RuntimeId[p] \/ \E e \in registry : e.path = p /\ e.id = i /\ i \in Nat
IdsAreKnown ==
  /\ IdOf(runtime.path, runtime.id)
  /\ \A x \in Processes : \A k \in DOMAIN ops[x] :
       ops[x][k].do = "upsert" /\ ops[x][k].id # None => IdOf(ops[x][k].path, ops[x][k].id)

\* A truncated file, too, was sound when it was last written.
FilesHold ==
  /\ \A p \in listed : Alone(p) => \E e \in registry : e.path = p
  /\ \A e, f \in registry : Alone(e.path) /\ (e.path = f.path \/ e.id = f.id) => e = f
  /\ env.settings = chosen
  /\ up /\ envBy = "server" => env.path = runtime.path /\ env.lanes = runtime.lanes

FilesInvariant ==
  /\ TypeOK /\ OpsTyped
  /\ ~raced => OneWriter /\ IdsHold /\ IdsAreKnown /\ FilesHold
=============================================================================
