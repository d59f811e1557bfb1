--------------------------- MODULE ApprovalServer ---------------------------
(***************************************************************************)
(* The approval core of maestro-server.js: approval requests, operator     *)
(* decisions, the merge executor, conditional auto-approval, undo, and the *)
(* two JSON stores that survive a restart.                                 *)
(*                                                                         *)
(* Node runs one handler at a time, so a handler is one step over memory.  *)
(* Three things interleave with handlers and are steps of their own:       *)
(*   - a child `git`, started by a handler that then awaits it: it moves   *)
(*     the repository when it ends, and its callback runs later;           *)
(*   - the synchronous file writes of a handler (`writes`): no other       *)
(*     handler runs before they are done, but the process can die between  *)
(*     two of them;                                                        *)
(*   - a crash, after which git children run on as orphans.                *)
(***************************************************************************)
EXTENDS Naturals, Sequences, SequencesExt

CONSTANTS
  Req,           \* request ids
  Branch,        \* valid branch names
  Project,       \* registered repositories
  NoBranch,      \* the branch of a git child that is given none
  None,          \* "not in the map"
  AutoMode,      \* AUTO_APPROVE_CONFIG: "off", "dry" (dryRun) or "on"
  CooldownOn,    \* AUTO_APPROVE_CONFIG.cooldownMs > 0
  UndoOn,        \* whether the operators of this instance undo
  BaseCommits,   \* commits each repository has before the first merge
  Tracked,       \* the history results this instance keeps
  MaxRuns,       \* bound: git children in flight
  MaxDecisions,  \* bound: decisions ever created
  MaxCrashes     \* bound: crashes of the server

ASSUME ModeAssumption == AutoMode \in {"off", "dry", "on"} /\ CooldownOn \in BOOLEAN /\ UndoOn \in BOOLEAN
ASSUME BoundAssumption ==
  /\ BaseCommits \in Nat \ {0}
  /\ MaxRuns \in Nat /\ MaxDecisions \in Nat /\ MaxCrashes \in Nat
ASSUME NoneAssumption ==
  None \notin Req \cup Branch \cup {NoBranch} /\ NoBranch \notin Branch

VARIABLES
  up,            \* the process runs
  active,        \* runtimeProjectState: the project merges and undos go to
  reqs,          \* the ids in approvalRequestsById
  status,        \* requestStateById, "ready" where there is no entry
  decs,          \* approvalDecisionsByRequestId
  byId,          \* approvalDecisionsById
  inFlight,      \* autoApproveInFlight
  cooling,       \* lastAutoApproveAt lies within the cooldown
  history,       \* approvalHistory, as the set of its dedup keys (no more of them
                 \* than HISTORY_BUFFER_MAX_ITEMS, so that none has been dropped)
  nextId,        \* the next decision id (createDecisionId never repeats one)
  writes,        \* file writes the running handler still has to do
  disk,          \* .maestro-agents.json
  diskHistory,   \* .maestro-history.json
  runs,          \* git children in flight, by slot
  repo,          \* commits on the main branch of each repository
  crashes,       \* crashes so far
  seen,          \* decisions agents have been given by a poll
  acked,         \* decision ids the server has confirmed an ack of
  landed         \* of each request, whether it was approved without a branch or git has merged it

memory == <<reqs, status, decs, byId, inFlight, cooling, history>>
stores == <<disk, diskHistory>>
agents == <<seen, acked>>
vars == <<up, active, memory, nextId, writes, stores, runs, repo, crashes, agents, landed>>

-----------------------------------------------------------------------------
(* The values *)

Verdict == {"approve", "reject"}
ExecutorAction == {"merge", "none"}
Status == {"ready", "approving", "merged", "rejected"}
Base == "base"

Decision ==
  [id : 1..MaxDecisions, req : Req, decision : Verdict, action : ExecutorAction,
   delivery : {"available", "acknowledged"},
   result : {"none", "succeeded", "failed", "skipped"}]

DecisionMap == [Req -> Decision \cup {None}]

\* What an agent is told of a decision.
Told == [req : Req, id : 1..MaxDecisions, decision : Verdict]

ASSUME NoDecisionAssumption == None \notin Decision /\ None \notin Told

\* A history entry, reduced to what shouldSkipHistoryByDedup keys on: the log as
\* a set of these is the same whether or not a repetition is dropped.
Result ==
  {"REQUESTED", "APPROVED", "APPROVE_FAILED", "APPROVE_SKIPPED", "AUTO_APPROVE_SKIPPED",
   "REJECTED", "ROLLBACK", "ROLLBACK_FAILED"}
Entry == [req : Req \cup {None}, result : Result, source : {"system", "manual", "auto"}]

AgentStore == [reqs : SUBSET Req, decs : DecisionMap]
Write ==
  [file : {"agents"}, store : AgentStore] \cup [file : {"history"}, entries : SUBSET Entry]

\* A git child. `snap` is the decision object the awaiting executor still holds;
\* `live` is false once the process that would run the callback has died. A child is
\* "queued" until the handler that starts it has done its file writes.
Slot == 1..MaxRuns
GitState == {"queued", "running", "ok", "failed"}
ManualRun ==
  [kind : {"manual"}, live : BOOLEAN, req : Req, branch : Branch, proj : Project,
   snap : Decision, git : GitState]
AutoRun ==
  [kind : {"auto"}, live : BOOLEAN, req : Req, branch : Branch, proj : Project,
   snap : {None}, git : GitState]
UndoRun ==
  [kind : {"undo"}, live : BOOLEAN, req : {None}, branch : {NoBranch}, proj : Project,
   snap : {None}, git : GitState]
Run == ManualRun \cup AutoRun \cup UndoRun

ASSUME NoRunAssumption == None \notin Run

-----------------------------------------------------------------------------
(* The stores *)

NoDecisions == [r \in Req |-> None]
EmptyStore == [reqs |-> {}, decs |-> NoDecisions]

AgentsWrite(rq, ds) == [file |-> "agents", store |-> [reqs |-> rq, decs |-> ds]]
HistoryWrite(h) == [file |-> "history", entries |-> h]

\* approvalDecisionsById as loadAgentStore rebuilds it.
IndexById(ds) ==
  [i \in 1..MaxDecisions |->
     IF \E r \in Req : ds[r] # None /\ ds[r].id = i
     THEN ds[CHOOSE r \in Req : ds[r] # None /\ ds[r].id = i]
     ELSE None]

\* appendHistory: the buffer with one more entry.
Logged(h, r, result, source) ==
  h \cup {e \in {[req |-> r, result |-> result, source |-> source]} : result \in Tracked}

Init ==
  /\ up = TRUE
  /\ active \in Project
  /\ reqs = {}
  /\ status = [r \in Req |-> "ready"]
  /\ decs = NoDecisions
  /\ byId = [i \in 1..MaxDecisions |-> None]
  /\ inFlight = {}
  /\ cooling = FALSE
  /\ history = {}
  /\ nextId = 1
  /\ writes = <<>>
  /\ disk = EmptyStore
  /\ diskHistory = {}
  /\ runs = [s \in Slot |-> None]
  /\ repo = [p \in Project |-> [i \in 1..BaseCommits |-> Base]]
  /\ crashes = 0
  /\ seen = {}
  /\ acked = {}
  /\ landed = [r \in Req |-> "no"]

-----------------------------------------------------------------------------
(* Helpers of the handlers. An operator X_bug is X with a bug the code could plausibly
   have; no specification uses it: the mutation runs put it in X's place to show that
   a property depends on X being right. *)

\* The event loop is free: the last handler has run to its end.
Idle == up /\ writes = <<>>

\* The slot the next git child takes: the lowest free one.
Free(s) == runs[s] = None /\ \A t \in Slot : t < s => runs[t] # None

\* Bug: git is started before the decision is written.
GitChild_bug(kind, r, b, d, before) ==
  [kind |-> kind, live |-> TRUE, req |-> r, branch |-> b, proj |-> active, snap |-> d,
   git |-> "running"]

GitChild(kind, r, b, d, before) ==
  [kind |-> kind, live |-> TRUE, req |-> r, branch |-> b, proj |-> active, snap |-> d,
   git |-> IF before = <<>> THEN "running" ELSE "queued"]

Spawned(run) ==
  IF run # None /\ run.git = "queued" THEN [run EXCEPT !.git = "running"] ELSE run

NewDecision(r, v, a) ==
  [id |-> nextId, req |-> r, decision |-> v, action |-> a,
   delivery |-> "available", result |-> "none"]

\* Bug: a later verdict replaces an earlier one.
StoredDecision_bug(r, v, a) ==
  IF decs[r] # None /\ decs[r].decision = v THEN decs[r] ELSE NewDecision(r, v, a)

\* storeApprovalDecision: an existing decision is returned as it is.
StoredDecision(r, v, a) == IF decs[r] # None THEN decs[r] ELSE NewDecision(r, v, a)

\* Bug: the decision is kept in memory only.
StoreWrites_bug(d) == <<>>

\* ... and only a new one is put in the maps and persisted.
StoreWrites(d) ==
  IF decs[d.req] # None THEN <<>> ELSE <<AgentsWrite(reqs, [decs EXCEPT ![d.req] = d])>>

CanStore(r) == decs[r] # None \/ nextId <= MaxDecisions
CountIds(r) == nextId' = IF decs[r] # None THEN nextId ELSE nextId + 1

\* recordApprovalDecisionExecutorResult: a copy of the decision the caller holds.
WithResult(d, result) == [d EXCEPT !.result = result]

\* acknowledgeApprovalDecision: a decision that is already acknowledged is kept.
Acknowledged(d) == [d EXCEPT !.delivery = "acknowledged"]

\* Bug: the index by id keeps the old object.
SetDecision_bug(d) ==
  /\ decs' = [decs EXCEPT ![d.req] = d]
  /\ byId' = byId

\* updateApprovalDecision and acknowledgeApprovalDecision set both maps.
SetDecision(d) ==
  /\ decs' = [decs EXCEPT ![d.req] = d]
  /\ byId' = [byId EXCEPT ![d.id] = d]

\* Bug: the decision is written before its history entry.
ResultWrites_bug(h, d) ==
  <<AgentsWrite(reqs, [decs EXCEPT ![d.req] = d]), HistoryWrite(h)>>

\* ... and the writes of an executor that has come to a result: the history entry,
\* then the decision.
ResultWrites(h, d) ==
  <<HistoryWrite(h), AgentsWrite(reqs, [decs EXCEPT ![d.req] = d])>>

\* getApproveSkipReason
SkipsApproval(r) == status[r] # "ready"

\* Bugs: a failed merge leaves the request approving, or merged.
FinishedStatus_bug(ok) == IF ok THEN "merged" ELSE "approving"
FinishedStatus_bug2(ok) == "merged"

\* markApproveFinished: a failure goes back to ready so that it can be retried.
FinishedStatus(ok) == IF ok THEN "merged" ELSE "ready"

-----------------------------------------------------------------------------
(* Requests and conditional auto-approval *)

\* evaluateAutoApproveEligibility: `policy` stands for its checks on the branch, its
\* prefix, the agent, the explicit flag and the length of the description.
Eligible(policy) == AutoMode # "off" /\ policy /\ ~cooling

\* Bug: a resubmitted request starts a second execution.
AutoStarts_bug(r, policy) == Eligible(policy)

\* The synchronous part of runConditionalAutoApprove lets one execution of a
\* request through at a time.
AutoStarts(r, policy) == Eligible(policy) /\ r \notin inFlight

\* storeApprovalRequest: storing a request makes it ready again, whatever happened
\* to it before.
SubmittedStatus(r) == [status EXCEPT ![r] = "ready"]
\* Bug (in SubmitWrites_bug): the request is not persisted.
SubmitWrites_bug(r, h) == <<HistoryWrite(h)>>
SubmitWrites(r, h) == <<AgentsWrite(reqs \cup {r}, decs), HistoryWrite(h)>>

\* POST /api/approval-requests and /api/request, submitApprovalRequest.
Submit(r, policy) ==
  LET h == Logged(history, r, "REQUESTED", "system") IN
  /\ Idle
  /\ ~AutoStarts(r, policy)
  /\ reqs' = reqs \cup {r}
  /\ status' = SubmittedStatus(r)
  /\ history' = h
  /\ writes' = SubmitWrites(r, h)
  /\ UNCHANGED <<up, active, decs, byId, inFlight, cooling, nextId, stores, runs, repo,
                 crashes, agents, landed>>

\* ... the policy matches and dryRun is set: only the log says so.
SubmitDryRun(r, policy) ==
  LET h1 == Logged(history, r, "REQUESTED", "system")
      h2 == Logged(h1, r, "AUTO_APPROVE_SKIPPED", "auto") IN
  /\ Idle
  /\ AutoStarts(r, policy) /\ AutoMode = "dry"
  /\ reqs' = reqs \cup {r}
  /\ status' = SubmittedStatus(r)
  /\ history' = h2
  /\ writes' = Append(SubmitWrites(r, h1), HistoryWrite(h2))
  /\ UNCHANGED <<up, active, decs, byId, inFlight, cooling, nextId, stores, runs, repo,
                 crashes, agents, landed>>

\* ... the policy matches: the merge starts at once.
SubmitAutoApproved(r, b, policy, s) ==
  LET h == Logged(history, r, "REQUESTED", "system") IN
  /\ Idle
  /\ AutoStarts(r, policy) /\ AutoMode = "on"
  /\ Free(s)
  /\ reqs' = reqs \cup {r}
  /\ status' = [SubmittedStatus(r) EXCEPT ![r] = "approving"]
  /\ inFlight' = inFlight \cup {r}
  /\ cooling' = CooldownOn
  /\ runs' = [runs EXCEPT ![s] = GitChild("auto", r, b, None, SubmitWrites(r, h))]
  /\ history' = h
  /\ writes' = SubmitWrites(r, h)
  /\ UNCHANGED <<up, active, decs, byId, nextId, stores, repo, crashes, agents, landed>>

\* The part of runConditionalAutoApprove after its await.
FinishAuto(s) ==
  LET run == runs[s]
      ok == run.git = "ok"
      h == Logged(history, run.req, IF ok THEN "APPROVED" ELSE "APPROVE_FAILED", "auto") IN
  /\ Idle
  /\ run # None /\ run.kind = "auto" /\ run.live /\ run.git \in {"ok", "failed"}
  /\ status' = [status EXCEPT ![run.req] = FinishedStatus(ok)]
  /\ inFlight' = inFlight \ {run.req}
  /\ runs' = [runs EXCEPT ![s] = None]
  /\ history' = h
  /\ writes' = <<HistoryWrite(h)>>
  /\ UNCHANGED <<up, active, reqs, decs, byId, cooling, nextId, stores, repo, crashes,
                 agents, landed>>

\* The cooldown since lastAutoApproveAt runs out.
CooldownElapses ==
  /\ up /\ cooling
  /\ cooling' = FALSE
  /\ UNCHANGED <<up, active, reqs, status, decs, byId, inFlight, history, nextId, writes,
                 stores, runs, repo, crashes, agents, landed>>

-----------------------------------------------------------------------------
(* Operator actions over the WebSocket *)

\* APPROVE, up to runDecisionExecutor's two early returns: the decision does not ask
\* for a merge, or the request is not ready. The skip is recorded on the decision.
ApproveSkipped(r, a) ==
  LET d == StoredDecision(r, "approve", a)
      skipped == WithResult(d, "skipped")
      h == Logged(history, r, "APPROVE_SKIPPED", "manual") IN
  /\ Idle /\ CanStore(r)
  /\ d.action # "merge" \/ SkipsApproval(r)
  /\ SetDecision(skipped)
  /\ CountIds(r)
  /\ history' = h
  /\ writes' = StoreWrites(d) \o ResultWrites(h, skipped)
  /\ UNCHANGED <<up, active, reqs, status, inFlight, cooling, stores, runs, repo, crashes,
                 agents, landed>>

\* APPROVE of a payload that names no valid branch: success without a merge.
ApproveWithoutBranch(r, a) ==
  LET d == StoredDecision(r, "approve", a)
      done == WithResult(d, "succeeded")
      h == Logged(history, r, "APPROVED", "manual") IN
  /\ Idle /\ CanStore(r)
  /\ d.action = "merge" /\ ~SkipsApproval(r)
  /\ SetDecision(done)
  /\ CountIds(r)
  /\ status' = [status EXCEPT ![r] = FinishedStatus(TRUE)]
  /\ history' = h
  /\ writes' = StoreWrites(d) \o ResultWrites(h, done)
  /\ landed' = [landed EXCEPT ![r] = IF @ = "merged" THEN @ ELSE "approved"]
  /\ UNCHANGED <<up, active, reqs, inFlight, cooling, stores, runs, repo, crashes, agents>>

\* APPROVE that starts `git merge` and awaits it. The executor keeps the decision
\* object it has now, and the repository that is active now.
ApproveMerges(r, b, a, s) ==
  LET d == StoredDecision(r, "approve", a) IN
  /\ Idle /\ CanStore(r)
  /\ d.action = "merge" /\ ~SkipsApproval(r)
  /\ Free(s)
  /\ SetDecision(d)
  /\ CountIds(r)
  /\ status' = [status EXCEPT ![r] = "approving"]
  /\ runs' = [runs EXCEPT ![s] = GitChild("manual", r, b, d, StoreWrites(d))]
  /\ writes' = StoreWrites(d)
  /\ UNCHANGED <<up, active, reqs, inFlight, cooling, history, stores, repo, crashes,
                 agents, landed>>

\* The part of runDecisionExecutor after its await: it writes back the decision
\* object it held across the await.
FinishManual(s) ==
  LET run == runs[s]
      ok == run.git = "ok"
      d == WithResult(run.snap, IF ok THEN "succeeded" ELSE "failed")
      h == Logged(history, run.req, IF ok THEN "APPROVED" ELSE "APPROVE_FAILED", "manual") IN
  /\ Idle
  /\ run # None /\ run.kind = "manual" /\ run.live /\ run.git \in {"ok", "failed"}
  /\ SetDecision(d)
  /\ status' = [status EXCEPT ![run.req] = FinishedStatus(ok)]
  /\ runs' = [runs EXCEPT ![s] = None]
  /\ history' = h
  /\ writes' = ResultWrites(h, d)
  /\ UNCHANGED <<up, active, reqs, inFlight, cooling, nextId, stores, repo, crashes,
                 agents, landed>>

\* REJECT: a decision that is already there stays, the request is rejected anyway.
Reject(r) ==
  LET d == StoredDecision(r, "reject", "none")
      h == Logged(history, r, "REJECTED", "manual") IN
  /\ Idle /\ CanStore(r)
  /\ SetDecision(d)
  /\ CountIds(r)
  /\ status' = [status EXCEPT ![r] = "rejected"]
  /\ history' = h
  /\ writes' = Append(StoreWrites(d), HistoryWrite(h))
  /\ UNCHANGED <<up, active, reqs, inFlight, cooling, stores, runs, repo, crashes, agents,
                 landed>>

\* UNDO up to its await, and after it. The payload names no request.
Undo(s) ==
  /\ Idle /\ Free(s) /\ UndoOn
  /\ runs' = [runs EXCEPT ![s] = GitChild("undo", None, NoBranch, None, <<>>)]
  /\ UNCHANGED <<up, active, memory, nextId, writes, stores, repo, crashes, agents, landed>>

FinishUndo(s) ==
  LET run == runs[s]
      h == Logged(history, None,
                  IF run.git = "ok" THEN "ROLLBACK" ELSE "ROLLBACK_FAILED", "manual") IN
  /\ Idle
  /\ run # None /\ run.kind = "undo" /\ run.live /\ run.git \in {"ok", "failed"}
  /\ runs' = [runs EXCEPT ![s] = None]
  /\ history' = h
  /\ writes' = <<HistoryWrite(h)>>
  /\ UNCHANGED <<up, active, reqs, status, decs, byId, inFlight, cooling, nextId, stores,
                 repo, crashes, agents, landed>>

\* POST /api/projects/select: later merges and undos go to the other repository, of this
\* process. The choice is in .env, but a process started with MAIN_REPO_PATH set prefers that.
SelectProject(p) ==
  /\ Idle /\ p # active
  /\ active' = p
  /\ UNCHANGED <<up, memory, nextId, writes, stores, runs, repo, crashes, agents, landed>>

-----------------------------------------------------------------------------
(* Agents: register and report, pull and acknowledge *)

\* Registering, a heartbeat and revoking a token change nothing here but save the whole
\* agent store, and with it every change of a decision that has not been saved yet.
AgentSaves ==
  /\ Idle
  /\ writes' = <<AgentsWrite(reqs, decs)>>
  /\ UNCHANGED <<up, active, memory, nextId, stores, runs, repo, crashes, agents, landed>>

Given(d) == [req |-> d.req, id |-> d.id, decision |-> d.decision]

\* GET /api/approval-requests/:id/decision answers with a decision.
Poll(r) ==
  /\ Idle
  /\ r \in reqs /\ decs[r] # None
  /\ seen' = seen \cup {Given(decs[r])}
  /\ UNCHANGED <<up, active, memory, nextId, writes, stores, runs, repo, crashes, acked,
                 landed>>

\* POST /api/approval-decisions/:id/ack, by an agent that polled the decision. Nothing
\* is persisted here.
Ack(i) ==
  /\ Idle
  /\ byId[i] # None
  /\ \E g \in seen : g.id = i
  /\ SetDecision(Acknowledged(byId[i]))
  /\ acked' = acked \cup {i}
  /\ UNCHANGED <<up, active, reqs, status, inFlight, cooling, history, nextId, writes,
                 stores, runs, repo, crashes, seen, landed>>

-----------------------------------------------------------------------------
(* The git children *)

Merged(p, b) == Contains(repo[p], b)

\* `git merge` ends: it adds the branch, or finds it merged already, or it fails. An orphan has
\* nobody to call back.
Ended(run, result) == IF run.live THEN [run EXCEPT !.git = result] ELSE None

GitMergeSucceeds(s) ==
  LET run == runs[s] IN
  /\ run # None /\ run.kind # "undo" /\ run.git = "running"
  /\ repo' = IF Merged(run.proj, run.branch) THEN repo
             ELSE [repo EXCEPT ![run.proj] = Append(@, run.branch)]
  /\ runs' = [runs EXCEPT ![s] = Ended(run, "ok")]
  /\ landed' = [landed EXCEPT ![run.req] = "merged"]
  /\ UNCHANGED <<up, active, memory, nextId, writes, stores, crashes, agents>>

\* `git reset --hard HEAD~1` drops the newest commit, whatever it is.
GitResetSucceeds(s) ==
  LET run == runs[s] IN
  /\ run # None /\ run.kind = "undo" /\ run.git = "running"
  /\ Len(repo[run.proj]) > 1
  /\ repo' = [repo EXCEPT ![run.proj] = Front(@)]
  /\ runs' = [runs EXCEPT ![s] = Ended(run, "ok")]
  /\ UNCHANGED <<up, active, memory, nextId, writes, stores, crashes, agents, landed>>

\* A conflict, a lock held by another git, a missing branch, no parent commit. Nobody aborts a merge
\* in conflict: the commits stay as they were, but the repository is left in the middle of it, and
\* any merge fails until an undo or the user resets it, as each may here.
GitFails(s) ==
  LET run == runs[s] IN
  /\ run # None /\ run.git = "running"
  /\ runs' = [runs EXCEPT ![s] = Ended(run, "failed")]
  /\ UNCHANGED <<up, active, memory, nextId, writes, stores, repo, crashes, agents, landed>>

-----------------------------------------------------------------------------
(* Files, crashes and restarts *)

\* The next write of the running handler. The history store is replaced by a rename;
\* the agent store is overwritten in place.
Flush ==
  /\ up /\ writes # <<>>
  /\ LET w == Head(writes) IN
       /\ disk' = IF w.file = "agents" THEN w.store ELSE disk
       /\ diskHistory' = IF w.file = "history" THEN w.entries ELSE diskHistory
  /\ writes' = Tail(writes)
  /\ runs' = IF Tail(writes) = <<>> THEN [s \in Slot |-> Spawned(runs[s])] ELSE runs
  /\ UNCHANGED <<up, active, memory, nextId, repo, crashes, agents, landed>>

\* The process dies: memory and the writes still to do are gone, git children that
\* have not ended run on.
Orphaned(run) ==
  IF run # None /\ run.git = "running" THEN [run EXCEPT !.live = FALSE] ELSE None

Dies ==
  /\ up /\ crashes < MaxCrashes
  /\ up' = FALSE
  /\ crashes' = crashes + 1
  /\ reqs' = {} /\ decs' = NoDecisions
  /\ status' = [r \in Req |-> "ready"]
  /\ byId' = IndexById(NoDecisions)
  /\ inFlight' = {} /\ cooling' = FALSE /\ history' = {}
  /\ writes' = <<>>
  /\ runs' = [s \in Slot |-> Orphaned(runs[s])]
  /\ UNCHANGED <<active, nextId, diskHistory, repo, agents, landed>>

Crash == Dies /\ disk' = disk

\* The process dies inside writeFileSync of the agent store: the file is cut short,
\* JSON.parse fails and loadAgentStore starts from nothing.
CrashTearsStore ==
  /\ writes # <<>> /\ Head(writes).file = "agents"
  /\ Dies /\ disk' = EmptyStore

\* The server starts: loadAgentStore and loadPersistedHistory. Every request is ready
\* again; what was approving, merged or rejected is not in the store.
RestoredStatus_bug == [r \in Req |-> None]
RestoredStatus == [r \in Req |-> "ready"]

\* Bug: only decisions are read back.
RestoredRequests_bug == {}
RestoredRequests == disk.reqs

\* The repository is that of MAIN_REPO_PATH, which may be any, or else the one .env has.
Start ==
  /\ ~up
  /\ up' = TRUE
  /\ reqs' = RestoredRequests
  /\ decs' = disk.decs
  /\ byId' = IndexById(disk.decs)
  /\ status' = RestoredStatus
  /\ history' = diskHistory
  /\ active' \in Project
  /\ UNCHANGED <<inFlight, cooling, nextId, writes, stores, runs, repo, crashes,
                 agents, landed>>

-----------------------------------------------------------------------------
(* The specification *)

Requests ==
  \E r \in Req, policy \in BOOLEAN :
    \/ Submit(r, policy)
    \/ SubmitDryRun(r, policy)
    \/ \E b \in Branch, s \in Slot : SubmitAutoApproved(r, b, policy, s)

Approvals ==
  \E r \in Req, a \in ExecutorAction :
    \/ ApproveSkipped(r, a)
    \/ ApproveWithoutBranch(r, a)
    \/ \E b \in Branch, s \in Slot : ApproveMerges(r, b, a, s)

Operators ==
  \/ Approvals
  \/ \E r \in Req : Reject(r)
  \/ \E s \in Slot : Undo(s)
  \/ \E p \in Project : SelectProject(p)

Callbacks == \E s \in Slot : FinishManual(s) \/ FinishAuto(s) \/ FinishUndo(s)
Pulls == \E r \in Req : Poll(r)
Acks == \E i \in 1..MaxDecisions : Ack(i)
Git == \E s \in Slot : GitMergeSucceeds(s) \/ GitResetSucceeds(s) \/ GitFails(s)

Next ==
  \/ Requests \/ Operators \/ Callbacks \/ CooldownElapses
  \/ AgentSaves \/ Pulls \/ Acks
  \/ Git
  \/ Flush \/ Crash \/ Start

Spec == Init /\ [][Next]_vars

\* A child git ends, its callback and the writes of a handler are reached, a crashed
\* server is started again, and an agent polls until it has the decision. Other
\* handlers may run in between for ever, but the event queue serves each in turn:
\* hence strong fairness for what needs the event loop.
GitEnds(s) == GitMergeSucceeds(s) \/ GitResetSucceeds(s) \/ GitFails(s)
Finish(s) == FinishManual(s) \/ FinishAuto(s) \/ FinishUndo(s)

FairSpec ==
  /\ Spec
  /\ WF_vars(Flush) /\ WF_vars(Start)
  /\ \A s \in Slot : WF_vars(GitEnds(s)) /\ SF_vars(Finish(s))
  /\ \A r \in Req : SF_vars(Poll(r))

\* With the agent store's in-place write taken at its word.
TornSpec == Init /\ [][Next \/ CrashTearsStore]_vars

-----------------------------------------------------------------------------
TypeOK ==
  /\ up \in BOOLEAN
  /\ active \in Project
  /\ reqs \subseteq Req
  /\ status \in [Req -> Status]
  /\ decs \in DecisionMap
  /\ byId \in [1..MaxDecisions -> Decision \cup {None}]
  /\ inFlight \subseteq Req
  /\ cooling \in BOOLEAN
  /\ history \subseteq Entry
  /\ nextId \in 1..(MaxDecisions + 1)
  /\ writes \in Seq(Write)
  /\ disk \in AgentStore
  /\ diskHistory \subseteq Entry
  /\ runs \in [Slot -> Run \cup {None}]
  /\ repo \in [Project -> Seq(Branch \cup {Base})]
  /\ crashes \in 0..MaxCrashes
  /\ seen \subseteq Told
  /\ acked \subseteq 1..MaxDecisions
  /\ landed \in [Req -> {"no", "approved", "merged"}]

-----------------------------------------------------------------------------
(* What the server promises *)

\* Given a decision a memory or a store holds, what an agent is told of it.
Ruling(ds) == [r \in Req |-> IF ds[r] = None THEN None ELSE Given(ds[r])]

Ledger ==
  INSTANCE DecisionLedger WITH Subject <- Req, ruling <- Ruling(disk.decs), told <- seen

\* The decisions in .maestro-agents.json are a decision ledger: whatever operators do,
\* across crashes and restarts, the first decision on a request stays and agents are
\* told no other (storeApprovalDecision, persistAgentStore, loadAgentStore).
ImplementsLedger == Ledger!Spec

\* An agent is never told two different decisions on one request.
ToldOneDecision == \A x, y \in seen : x.req = y.req => x = y

\* Between handlers the store holds the requests and decisions memory holds: nothing a
\* poll can answer is lost by a crash at that point.
StoreIsCurrent ==
  Idle => disk.reqs = reqs /\ Ruling(disk.decs) = Ruling(decs)

\* The two maps of decisions hold the same objects, although four functions write them.
MapsAgree == up => byId = IndexById(decs)

Live(s, kinds) == runs[s] # None /\ runs[s].live /\ runs[s].kind \in kinds

\* No request is left "approving" without a merge under way that will settle it:
\* every such request can be approved again later.
ApprovingHasMerge ==
  \A r \in Req : status[r] = "approving" =>
    \E s \in Slot : Live(s, {"manual", "auto"}) /\ runs[s].req = r

\* Auto-approval runs one merge per request at a time, and autoApproveInFlight names
\* exactly the requests with one.
AutoIsSingle ==
  /\ inFlight = {runs[s].req : s \in {t \in Slot : Live(t, {"auto"})}}
  /\ \A s, t \in Slot :
       Live(s, {"auto"}) /\ Live(t, {"auto"}) /\ runs[s].req = runs[t].req => s = t

\* What the server keeps in several places agrees: requests and decisions in memory and
\* store, the two maps of decisions, statuses and merges, in-flight marks and merges.
CopiesAgree == StoreIsCurrent /\ MapsAgree /\ ApprovingHasMerge /\ AutoIsSingle

\* The server never reports a success that did not happen: a merged request, a
\* succeeded executor result (in memory or on disk) and an APPROVED entry of the log
\* all stand for a merge that landed, or for an approval without a branch, of some
\* submission of the request.
SuccessIsReal ==
  \A r \in Req :
    \/ status[r] = "merged"
    \/ \E ds \in {decs, disk.decs} : ds[r] # None /\ ds[r].result = "succeeded"
    \/ \E e \in history \cup diskHistory : e.req = r /\ e.result = "APPROVED"
    => landed[r] # "no"

\* The audit log is not behind the agent store: a stored decision that says it
\* succeeded has its APPROVED entry in the stored history, whenever the process dies.
ResultIsAudited ==
  "APPROVED" \in Tracked =>
    \A r \in Req : disk.decs[r] # None /\ disk.decs[r].result = "succeeded" =>
      \E e \in diskHistory : e.req = r /\ e.result = "APPROVED"

\* A manual merge runs only for a request whose stored decision is to approve and
\* merge, also when the process that started it has died: the decision reached the
\* disk before git was started.
ManualMergeIsDecided ==
  \A s \in Slot :
    runs[s] # None /\ runs[s].kind = "manual" /\ runs[s].git # "queued" =>
      LET d == disk.decs[runs[s].req] IN
      d # None /\ d.decision = "approve" /\ d.action = "merge"

\* Without auto-approval, git never merges a request whose stored decision rejects it, and none
\* is rejected that git has merged.
RejectedIsNotMerged ==
  AutoMode # "on" =>
    \A r \in Req : disk.decs[r] # None /\ disk.decs[r].decision = "reject" =>
      landed[r] # "merged"

\* An approval under way ends, and leaves its request merged, ready or rejected.
ApprovalsEnd == \A r \in Req : status[r] = "approving" ~> status[r] # "approving"

\* A decision in the store reaches the agent that polls for it, whatever crashes.
DecisionsArrive ==
  \A r \in Req : (disk.decs[r] # None /\ r \in disk.reqs) ~> \E g \in seen : g.req = r

-----------------------------------------------------------------------------
(* The invariant behind ToldOneDecision and ImplementsLedger. The store may be behind
   memory, by the one decision the running handler has made, and the copies of a decision
   that maps, pending writes and git children hold differ only in what no agent is told. *)

Keyed(ds) == \A r \in Req : ds[r] # None => ds[r].req = r

\* es knows every decision ds has.
Knows(es, ds) == \A r \in Req : ds[r] # None => es[r] # None /\ Given(es[r]) = Given(ds[r])
Agree(ds, es) == Knows(es, ds) /\ Knows(ds, es)

AgentWrites == {k \in DOMAIN writes : writes[k].file = "agents"}

MapsAreKeyed ==
  /\ Keyed(decs) /\ Keyed(disk.decs)
  /\ \A i \in 1..MaxDecisions : byId[i] # None =>
       byId[i].id = i /\ decs[byId[i].req] # None /\ Given(decs[byId[i].req]) = Given(byId[i])

WritesAgree ==
  /\ \A k \in AgentWrites : Keyed(writes[k].store.decs) /\ Agree(writes[k].store.decs, decs)
  /\ up /\ AgentWrites = {} => Agree(disk.decs, decs)
  /\ ~up => writes = <<>>

StoreIsBehindByOne ==
  up => /\ Knows(decs, disk.decs)
        /\ \A q, r \in Req :
             decs[q] # None /\ disk.decs[q] = None /\ decs[r] # None /\ disk.decs[r] = None
             => q = r

\* A decision an agent was given stays in the store: "agent decision polling can lose a
\* decision before ack" is a reason to stop. With TornSpec, in which a crash can cut the
\* agent store's write short, it does not stay.
SeenIsStored ==
  \A g \in seen : disk.decs[g.req] # None /\ Given(disk.decs[g.req]) = g

ChildrenAgree ==
  \A s \in Slot : Live(s, {"manual"}) =>
    up /\ decs[runs[s].req] # None /\ Given(decs[runs[s].req]) = Given(runs[s].snap)

\* The five parts together are inductive: decisions are keyed by their request and id,
\* the store and the pending writes have what memory has, what agents were told is
\* stored, and executors hold a copy of the decision there is.
LedgerInv ==
  MapsAreKeyed /\ WritesAgree /\ StoreIsBehindByOne /\ SeenIsStored /\ ChildrenAgree

-----------------------------------------------------------------------------
(* What documents say of it and the code does not keep *)

\* An ack the server has confirmed stays: "repeated ack keeps the same value".
AckStays ==
  \A i \in acked : up => byId[i] # None /\ byId[i].delivery = "acknowledged"

\* Approving a request again while it is being merged does not merge it a second time.
MergedOnceAtATime ==
  \A s, t \in Slot :
    Live(s, {"manual", "auto"}) /\ Live(t, {"manual", "auto"}) /\ runs[s].req = runs[t].req
    => s = t

=============================================================================
