# Maestro: TLA+ models, model checking and proofs

Maestro lets people keep the last word over what coding agents do: agents submit
approval requests, an operator approves or rejects them on a dashboard, and an approval
runs `git merge`. A second, smaller server ("Harmony", under `src/workflow/`) does the
same for decisions that are not merges. Around them are the dashboard, a web client, an
example connector, launchers, hooks of agents, and the Player, which turns the history of a
repository into music. This directory holds the TLA+ modules that model them, the TLC
instances that check them, and proofs, which hold for every instance, of every invariant and action
property that the instances check.

Paths below are relative to the repository's root, which is `src/` here.

## 1. Inventory

Node.js runs one callback at a time, so a handler without `await` is atomic in memory.
What interleaves is: a handler that awaits something (a `git` child, a request's body)
with all others; the file writes of one handler with a crash of the process; the
processes with one another.

| Component | State | Operations | Talks to | What is hard | What makes it correct |
| --- | --- | --- | --- | --- | --- |
| Approval core (`maestro-server.js` 2400-3340) | request map, status map, two decision maps, auto-approve in-flight set and cooldown, history buffer; `.maestro-agents.json`, `.maestro-history.json` | submit (POST, WebSocket), APPROVE, REJECT, UNDO, poll, ack, auto-approve | git by child processes, dashboards by WebSocket, agents by HTTP | handlers that await git; several writes per handler; in-place and renamed files; orphaned git | one decision per request, durable, the same for everybody; no success reported that did not happen |
| Agents and their tokens (`maestro-server.js` 460-590, 1960-2110) | agent map in the same file | register, heartbeat, revoke | approval core (saves the same file) | the body is awaited after authorization; grace and enforce modes | revoked tokens are refused; a save for one part does not undo another |
| Work sessions and requests (590-1110) | three maps, one file that is written last | create, message, approve, reject, close, prune | approval core | a save that throws after memory has changed; several saves per handler; rings that drop the undecided | memory and file agree; what was told stays; open sessions are kept, the oldest go first |
| Project registry (60-470) | registry file, `.env`, the active project | register, select, remove | approval core reads the active project at merge time | read-modify-write of files; selection while a merge runs | a merge goes to the project that was active when it was approved |
| Merge review (1960-2001, 2270-2420; `PreviewModal.jsx`) | none, computed from git | build the review of a branch, command by command | dashboard | the branch moves during the review, and between review and merge; limits | what is merged is what was reviewed; what is left out is said |
| Dashboard (`src/App.jsx`, `src/components/`, `src/hooks/`) | notes per lane, feedback, socket | realtime events, approve, reject, undo, polling of panels | server, by WebSocket and HTTP | reconnects, stale answers, full lanes | a note stands for a request that still waits |
| Lanes and judgment (`shared/lane-config.mjs`, `src/utils/judgment.js`) | none | pure functions | dashboard and server | - | total, idempotent normalisation |
| Workflow decisions (`workflow/server/decisions.js`, `history.js`, `persist.js`) | request and decision maps, history ring, two files | create, decide, poll, ack | its web client, actors, connectors | saves that fail unnoticed; a crash between effects; chains | decisions final, durable, not told before stored |
| Workflow identities and sockets (`actors.js`, `operators.js`, `auth.js`, `server.js` 395-504) | two registries with files, sockets with a scope | register, revoke, heartbeat, authenticate, broadcast | workflow decisions | long-lived sockets, late bodies, restart | only the trusted are told; everything is signed by its sender |
| Workflow web client (`workflow/src/`) | request list, token, socket | reload, decide, reconnect | workflow server | reconnect racing reload | shows what the server has |
| Email connector (`workflow/examples/email-connector/`) | processed mails | submit, wait by socket and poll, send, ack | workflow server, a mailbox | a crash between sending and marking; a socket closed before it is authorized | what is sent was approved, once per approval; no mail is dropped |
| Server address (`src/utils/server-address.js`, `ServerAddressPanel.jsx`) | stored address, the first test, a search for servers | save, reset, test, discover | the dashboard's socket | a test answered late; a search that outlives its panel | the address saved is the one used |
| Background music (`src/hooks/useBachPlayer.js`) | wish to play, reported state, channel | play, pause, save a channel | a YouTube player in an iframe | reports of what was asked before | says it plays if it does; keeps the user's wish |
| Launcher, embedded server (`bin/maestro-server.mjs`, `lib/server-embed.mjs`, `scripts/start-app.mjs`) | child process | start, readiness, stop | server | exit racing readiness; one port, several starters | every server has one owner who can stop it |
| VS Code extension (`vscode-extension/`) | handle of the embedded server | start, stop, deactivate | launcher | a window that closes while it starts a server | as above |
| Agent hooks, installer (`hooks/`, `scripts/install-maestro-hook.mjs`) | git hook, Claude settings | install, notify | agents | merging into a file somebody else edits | the user's lines stay, a commit is posted once |
| Player (`player/src/`) | replay, chart, run, history of runs, audio context | load, autoplay, run, report, play sounds | GitHub and GitLab | answers of many calls; a run whose chart is replaced; a context that resumes late | a replay is whole, its chart can be played and ends, its run is heard and remembered |
| Player extension (`player/extension/`) | one stored launch, tabs | launch, open | the Player | popup, worker and tabs share one record | a tab loads the repository it was opened for |
| iOS shell, set-up scripts, assets | - | - | - | - | - |

`PROJECT.json` lists the same components with what is modelled of each, and under
`hazards` the 40 places in the code where something hard to test can go wrong, each with
the property that would catch it or the reason none does.

## 2. The modules

```
DecisionLedger            what a decision server promises (abstract)
   ^ implemented by                 ^ implemented by, while saves succeed
ApprovalServer            WorkflowDecisions         WorkflowAccess
   |  MCApprovalServer       |  MCWorkflowDecisions    |  MCWorkflowAccess
   |  ApprovalServer_proofs  |  WorkflowDecisions_     |  WorkflowAccess_
   |                         |  proofs                 |  proofs

WorkStore                 Dashboard                 MCParts
   |  MCWorkStore            |  MCDashboard            |  Parts_proofs
   |  WorkStore_proofs       |  Dashboard_proofs

MCParts      = ClientParts, PlayerParts, AgentTokens, EmailConnector, Launcher
ClientParts  = ProjectFiles, HookInstaller, WorkflowClient, OpsPanels, WorkConsole,
               BachPlayer, ServerAddress, MergeReview, RequestChain
   |  ClientParts_proofs
PlayerParts  = PlayerSession, MusicIntent -> ReplayChart, ReplaySources, PlayerAudio,
               ReplayLaunch, LocalReplay
   |  PlayerParts_proofs

PartsShared: what ClientParts and PlayerParts have in common
Ranks:       some members of a sequence, in its order (Dashboard, HookInstaller, PlayerSession)
```

Operators named `X_bug` are `X` with a plausible bug. No specification uses one; they
document what each property would catch, and substituting one for `X` violates it.

### DecisionLedger

The abstract specification: a subject gets at most one decision, it never changes or
disappears, and nobody is told one before it is made.

### ApprovalServer

The approval core. Handlers are single steps over memory; three things are steps of
their own.

- **git**: `ApproveMerges`, `SubmitAutoApproved` and `Undo` put a child into a slot of
  `runs`; `GitMergeSucceeds`, `GitResetSucceeds` or `GitFails` move the repository; the
  awaiting handler goes on in `FinishManual`, `FinishAuto`, `FinishUndo`. The manual
  executor holds the decision object it read before the await (`snap`), as the code does.
- **file writes**: a handler leaves them, in the code's order, in `writes`; `Flush` does
  one. No handler runs in between (they are synchronous), but a crash may.
- **crash and restart**: `Crash` empties memory and leaves git children as orphans;
  `Start` is `loadAgentStore` and `loadHistoryStore`. `CrashTearsStore`, in `TornSpec`
  only, dies inside `persistAgentStore`'s in-place write. The project is the one of `MAIN_REPO_PATH`,
  whichever that is, and only without it the one a selection has left in `.env`.

| Model | Code |
| --- | --- |
| `reqs`, `status`, `decs`, `byId`, `inFlight`, `cooling` | `approvalRequestsById`, `requestStateById`, `approvalDecisionsByRequestId`, `approvalDecisionsById`, `autoApproveInFlight`, `lastAutoApproveAt` |
| `history` | `approvalHistory` as the set of its dedup keys |
| `disk`, `diskHistory` | `.maestro-agents.json`, `.maestro-history.json` |
| `Submit`, `SubmitDryRun`, `SubmitAutoApproved` | `storeApprovalRequest`, `runConditionalAutoApprove` |
| `ApproveSkipped`, `ApproveWithoutBranch`, `ApproveMerges`, `Reject`, `Undo` | the WebSocket message handler, `runDecisionExecutor` |
| `Poll`, `Ack` | `GET .../decision`, `acknowledgeApprovalDecision` |

Left out: the event log of auto-approval and request metadata; errors of the
persistence functions (they are logged and ignored); whether a policy matches is a
Boolean input; a merge is one commit; decision ids never repeat; a payload's decision is
approve or reject; only an agent that was told a decision acks it; a merge that fails for a
conflict leaves git in the middle of it, which the model does not remember, as any later git may
fail in it; the end of the cooldown is a step; the history never fills its ring in the instances.

### WorkflowDecisions

The workflow server's store. A handler is one step over memory followed by its effects in
the code's order (`todo`: save, save the log, broadcast, answer). `Saves` is
`saveStore`'s rename into place; `SaveFails` its caught error, which no caller looks at;
`Crash` and `Start` as above. `unsaved` records that the last save of the decision store
failed, `lost` that the process died so. Requests form chains by `parent`. Who may call is left to
WorkflowAccess: polls and acks come from the request's actor. A broadcast may or may not
be received.

### WorkflowAccess

Who may do and hear what, in strict mode. A token is a principal and a number; `token`
is what the registries hold, `disk` their files, `issued` and `dead` record what should
be true of them. `Arrives` authorizes a call, `Creates` and `Decides` act when its body is
there. `Auth` is the socket's message handler, also for sockets that are authorized or
closing already. `told` is what the last step told whom, by broadcasts and by the answer to the
caller (created, decided, refused as decided already), so that a property can look at
every delivery without remembering all. The answer goes to whoever was authorized when the call
arrived, revoked since or not. Open mode, where there are no identities, and the
decision store's own failures are not in this module.

### WorkStore

Work sessions, messages and requests: three maps and one file. A handler is a list of steps
(`job`); a step changes memory, prunes and writes the whole file (`After`, then `Saves`), as
each of `createWorkSession`, `updateWorkSession`, `appendWorkMessage`, `createWorkRequest`
and `decideWorkRequest` does. The write may throw (`SaveFails`): memory keeps the change and
the rest of the handler is skipped. The handler that closes a session has no `try`, so there
the error ends the process (`SaveKills`). `Read` is each of the GET handlers and `RefuseDecision`
the 409 of a decided request: they tell of memory. What is told while the last write has failed is
in `toldUnsaved`, and is kept only as long as the process runs. Handlers are synchronous, so none starts while
`job` is not idle; a crash may come between any two steps.

| Model | Code |
| --- | --- |
| `mem.status`, `mem.updatedAt`, `mem.lastMessageAt` | `workSessionsById` |
| `mem.messages`, `mem.request` and `mem.createdAt` | `workMessagesBySessionId`, `workRequestsById` |
| `file` | `.maestro-workflows.json` |
| `NewSession`, `PostMessage`, `PostCommand`, `PostClose`, `PostRequest`, `PostDecision` | the POST handlers of `/api/work-sessions` and `/api/work-requests` |
| `PruneSessions`, `PruneRequests`, `Ring` | `pruneClosedWorkSessions`, `pruneWorkRequests`, the loop of `appendWorkMessage` |
| `Answer`, `Read`, `RefuseDecision` | the broadcasts and the answer; the GET handlers; `WORK_REQUEST_ALREADY_DECIDED`, counted as telling which decision |
| `told`, `toldUnsaved`, `unsaved`, `cut` | what the properties have to remember; `cut` has the sessions and requests whose own handler did not run to its end |

Left out: validation of texts, projects and lanes (a refused call changes nothing); the
filters of GET; a caller's own `kind` for a message, taken to be `message`. The states
`queued`, `blocked`, `failed` and `cancelled` of sessions exist in the code but no handler
sets them. Steps are taken to happen in different milliseconds and a failing write to leave
the old file; what an interrupted write in place does is shown for the other store, by `approval_torn`.

### Dashboard

Several dashboards, what the server does for them over their sockets, and merges that end meanwhile.
`notes` is React's state and `seen` the ref its callbacks read, which follows at `Render`; a user's
event is rendered at once (`Rendered`), an event of the socket later. `toServer` and `fromServer`
are what is under way; `Drops` cuts both. `Lane`, `LaneReject`, `ConfirmSheet`, `CancelSheet`,
`Preview`, `ApprovePreview`, `RejectPreview` are what an operator does with keys, buttons and both
sheets, all through `Perform` (`performNoteAction`). A review is fetched (`fetches`,
`ReviewArrives`) as the server builds it, of the branch of the request's last submission. A note
that goes leaves the others in their order (`Without`, by rank, as SelectSeq is recursive and could
not be proved about). One lane of one project; mock notes, scores, sounds and UNDO are left out, and
restarts are ApprovalServer's.

### The parts

What shares no state with the servers' modules, nor with one another, is a module of its
own each and is checked in one instance, `MCParts`: a behaviour of it is a behaviour of one
part, named by `part`.

| Module | Code | State and actions | Left out |
| --- | --- | --- | --- |
| `AgentTokens` | `resolveAgentAuth`, `/api/agents`, submissions, acks and polls (`maestro-server.js`) | `mem`, `file`, `issued`, `dead`; a call is authorized (`SubmitArrives`, `AckArrives`) before it acts (`SubmitActs`, `AckActs`); `Persist` may fail; `Crash`, `Start` | what a request says; decisions are ApprovalServer's |
| `ProjectFiles` | `persistRuntimeProject`, the project handlers; `project-registry.mjs`, `projects.js`, `configure.js`, `env-utils.mjs` | two files, two processes; each change is a read (`Reads`), a truncation (`Truncates`) and a write; the server's happen in one handler but for a crash | the order of the registry |
| `HookInstaller` | `install-maestro-hook.mjs`, `notify-maestro.sh` | `hook` (lines), `stops` (Claude's settings) and the user's edits of both, anywhere, also between the markers; a line may end the hook; `MAESTRO_HOOK_DISABLED` | the text of the posts |
| `EmailConnector` | `email-connector/lib.mjs` | one run at a time, step by step (`pc`), a socket, requests and first decisions on the server; `CallFails`, `TimesOut`, `Dies`; the next run | drivers, texts |
| `MergeReview` | `buildReview`, `GET .../review` (`maestro-server.js`), `PreviewModal.jsx` | the branch, files whose names git quotes, the command that is awaited and what the commands have answered; `Push`, `Merged`, `Deleted` in between | texts, sizes beyond "too large" |
| `RequestChain` | `listRequestChain` (`workflow/server/decisions.js`) | requests with parent and time of creation, a clock that may be set back; `Chain` | what requests say |
| `WorkflowClient` | `workflow/src/App.jsx`, `lib/api.js` | board, socket with its queue, timer, token and gate, calls answered in any order, sheet and chain | history, layout |
| `OpsPanels` | `useAgentRegistry`, `useAutoApproveOps`, `useProjectRegistryOps`, `useApprovalHistory` | one panel; `handler` is what the socket's callbacks know of it | filters, forms |
| `WorkConsole` | `useWorkSessions`, `useWorkRequests`, `useWorkConsoleShell` | lists, details, posts, selection; `handler` is the selection the socket's callbacks know | texts |
| `ServerAddress` | `server-address.js`, `useServerAddress`, `ServerAddressPanel.jsx`, the effects of `App.jsx` | address and its stored form, the first test, the socket's address, the search and its timer; `Normalized` over all schemes and ports | test button, results |
| `BachPlayer` | `useBachPlayer`, `youtube.js` | what the hook shows, what the iframe's player was asked and has told; the player is external; `Resolved` over all forms of input | volume, buffering |
| `Launcher` | `server-embed.mjs`, `lifecycle.cjs`, `bin/maestro-server.mjs`, `run-server.mjs`, `start-app.mjs` | servers on one port, their starters' stages and handles, signals, foreign programs | the webview |
| `MusicIntent`, `ReplayChart` | `musicIntentMapper.js`, `harmonyEngine.js`, `motifCatalog.js`, `chartMapper.js`, `musicTheory.js` | pure: all intents of an event, all charts of a few events in sessions, all chords; beats in hundredths, scores rounded to percent | titles, hashes (any value) |
| `ReplaySources` | `publicRepoAdapter.js`, `accountRepoAdapter.js`, `collaborationOverlayAdapter.js` | the calls of one load, answered in any order, failing in any way | what events say |
| `LocalReplay` | `gitReplayAdapter.js`, `localReplayBridgePlugin.js`, `localRepoBridge.js` | a commit, as git prints it, as the bridge's server reads it, as the page takes it | texts, ids, several commits, renamed files |
| `PlayerSession` | `App.jsx`, `PlayerRunPanel.jsx`, `performanceHistoryStore.js` of the Player | loads and their commits, runs of both modes, reports, the stored history, reloads of the page | effects, guides |
| `PlayerAudio` | the panel's audio effects, `replayAudioEngine.js`, `metronomeEngine.js` | the context's state and what it was asked (`control`), the run, its cues | tones |
| `ReplayLaunch` | `player/extension` | popup, worker calls, the one stored launch, tabs | texts |

ClientParts and PlayerParts instantiate the parts, two halves so that each half can be proved about
in a module of its own, and MCParts adds the servers' parts and composes all. The modules that declare
constants state what the proofs assume of them. TLC evaluates all of it in `parts`.

| Assumption | Says | Why the code bears it out |
| --- | --- | --- |
| `PartBounds`, `ClientBounds`, `ChainBounds`, `RunsEndSomewhere`, `HistoriesHaveRoom`, `BeatsHoldNotes`, `ThereIsALane` | bounds are natural numbers; a history, a beat and a lane layout have room for one | the bounds cut the models, not the code; the limits that are the code's (50 and 200 records, at least one lane) are positive |
| `NoneIsNothing`, `ReusedIsNoServer`, `NoneIsNotAsked`, `NoneIsNoAddress`, `NoneIsNowhere`, `NoneIsNoSource` | sentinels are none of the values they stand beside | `null` and `undefined` are no value of those types |
| `RequestsAreFinite`, `ReviewsAreFinite`, `FilesAreFew`, `CommitsAreFinite` | sets of requests, files, paths and printed lines are finite; lanes are integers | they are lists in memory |
| `IdsDiffer` | no runtime id is one that `toProjectId` makes | one has an underscore, the other none |
| `LinesAreUsers` | a user's lines are not the installer's; one is the guide's, another ends the hook | the installer's lines are its own markers and command |
| `ChartsHaveNotes` | a chart has finitely many notes, each longer than it can be hit late | `ChartPlayable`, proved of the charts the pipeline makes, says so |
| `ScoresArePercents`, `MainIsABranch` | scores are 0 to 100; the default branch is a branch | `musicIntentMapper.js` clamps them; `player.js` takes `main` for no branch |


## 3. The runs

| Run | Instance | Distinct states | What it shows |
| --- | --- | --- | --- |
| `approval_core` | 1 request, 1 branch, 1 project, auto-approval on with cooldown, 2 concurrent git children, 2 decisions, 1 crash | 2.6 million | decisions are final, durable and the same everywhere, the copies a handler keeps of a request agree; successes and the audit log are real; ApprovalServer implements DecisionLedger |
| `approval_live` | 1 request, 2 projects, dry-run mode, undo, 1 git child, 2 decisions, 1 crash | 227 thousand | approvals end, decisions reach the polling agent, a rejected request is not merged |
| `workflow_decisions` | 2 requests (chained or not), 3 decisions, ring of 3, 2 failed saves, 2 crashes | 1.9 million | decisions final and durable while saves succeed; statuses, chains, acks and audit log consistent |
| `workflow_access` | 2 actors, 1 operator and the root, an agent, a member of staff with two identities and an administrator, 1 socket, 1 request, at most 2 tokens (1 for the actor of the member of staff), 1 failed save, 1 crash | 1.5 million | only the trusted are told, and everything is signed by its sender |
| `work_store` | 2 sessions, 2 requests, 2 decisions, 1 closed session, 3 messages and 1 request kept, 8 steps, 1 failed save, 1 crash | 1.3 million | what was told is kept, both copies are consistent, commands are answered, pruning takes the oldest and no open session |
| `dashboard` | 1 request submitted twice, 2 dashboards, 2 merges; in one instance one of them opens sheets, with a lane of 2 notes and 1 review at a time, in the other the second submission is approved by policy and the lane takes 1 note | 594 thousand | a pending note has something under way and does not stay so, a waiting request is visible, no submission is acted on twice at once |
| `parts` | see below | 1.9 million | the properties of the parts |
| `approval_ack` | no auto-approval, no crash | violation | see 5 |
| `approval_twice`, `approval_torn` | as `approval_core`, with the mode that matters | violations | see 5 |
| `dashboard_review` | 1 request submitted twice, 1 dashboard, 2 reviews at a time | violation | see 5 |
| `local_new_files` | 2 files of one folder | violation | see 5 |

The properties of `parts`, `TypeOK` and these six, are conjunctions, one conjunct for each part's own
property; the names of those are at the end of each module.

| Property | Parts and their bounds |
| --- | --- |
| `TokensHold` | AgentTokens: 2 agents, one with a long id, 1 request, 2 tokens, 1 call at a time, 1 failed save, 1 crash |
| `ProjectFilesHold` | ProjectFiles: 3 paths of which two share a runtime id, 2 jobs, 1 crash; HookInstaller: 3 lines, of which one is the guide's and one ends the hook, 3 edits, 3 installations |
| `ConnectorHolds` | 2 mails, 4 requests, 2 runs, 1 failure |
| `PlayerHolds` | PlayerSession: a demo and three repositories, one with an event that comes twice and one without events, 4 run tokens, 2 loads, 1 reload; PlayerAudio: runs of 3 half beats, 2 autoplays, 2 demands on the context; ReplayChart: 2 events, every intent; ReplaySources: 2 commits, 2 pull requests; LocalReplay: 2 files of one folder, 0 or 3 lines, up to 2 refs; ReplayLaunch: 2 repositories, 2 branches, 2 popups, 2 launches, 3 tabs, 1 reload |
| `ScreensSettle` | MergeReview: 3 files of which 2 are listed and 1 has a quoted name, 1 commit logged, 1 move of the branch; RequestChain: 4 requests, 3 times; WorkflowClient: 1 chained request, 1 of each disturbance; OpsPanels: 2 changes, 1 socket; WorkConsole: 2 sessions, 1 request, 2 changes, 1 post, selection, socket and failure; BachPlayer: 2 channels, 4 clicks, 3 under way each way; ServerAddress: 2 changes, 2 searches, 1 reload |
| `LaunchersHold` | 1 window, 1 command, 1 app script, 2 servers, 1 failure |

Why these bounds are enough to be interesting. The properties of ApprovalServer relate the state of
one request, its decision and its merges; two children and two decisions let a merge race a second
approval, a rejection, an auto-approval and an orphan of the process's earlier life, and let a
rejection follow an approval that a crash has lost. One crash leaves both "before" and "after" of
every write. `workflow_decisions` needs two requests for a chain and for "behind by one handler",
and two failures and two crashes for a failed save to be repaired, or lost and lost again.
`workflow_access` is about one socket and one request at a time: two tokens let a registration
replace a token that is in use, and the member of staff can authenticate one socket as an actor and
as an operator. `work_store` keeps one closed session and one request of two, so that every second
one is pruned, and three messages, so that a closing command (four messages) overflows the ring;
eight steps allow two sessions to be created, one to be used and closed, and a request decided. `dashboard` needs two submissions of
one request, so that notes, answers and merges of an older one meet the newer, and two dashboards,
so that one acts on what the other shows; its lane takes two notes, which both submissions fill, or
one, which fills it. In the parts, every disturbance (failure, crash,
reload, lost socket) happens once among at least two of what it may disturb: two tokens of which one
is replaced, two jobs on one file, two mails, two loads, two launches, two changes that may be told
out of order. Three hook edits and installations reach every combination of markers. Deadlock is
checked except where the bounds let the model stop.

**Fairness** of `approval_live` (`FairSpec` of ApprovalServer). Weak fairness of `Flush` (a
handler runs to its end), of `Start` (the launcher restarts the server), and of a git
child's end. Strong fairness of the callbacks (`Finish`) and of an agent's `Poll`: each
needs the event loop to be idle, which other handlers and crashes make intermittently so;
Node serves queued callbacks, and adapters poll repeatedly until they have an answer.

**Fairness** of `dashboard` (`MCFairSpec`, that of Dashboard's `FairSpec` for both instances). Weak fairness of each dashboard's
`Handle` and `Deliver` (what is sent on a socket arrives in order or the socket closes, and
both event loops serve it), of `Render` (React commits what was set), and of each git
child's end. Nothing is assumed of the operator, nor that the connection stays.

**Mutants.** `PROJECT.json` names one for each property of each run. The parts have more
than their seven properties: substituting any of these violates the conjunct named, in `parts.cfg`.

| Mutant | Violates |
| --- | --- |
| `AgentTokens.Revoke_bug`, `ProjectFiles.Settings_bug`, `HookInstaller.Upserted_bug` | `TokensHold`; `EnvIsKept`; `UsersLinesStay` |
| `EmailConnector.After_bug`, `Launcher.Start_bug` | `SentAsApproved`; `NoOrphans` |
| `PlayerSession.Retained_bug`, `Appended_bug`, `PlayerAudio.Stopped_bug`, `ReplayLaunch.LoadsByItself_bug` | its type; `HistoryKeeps`; `SoundFollowsRun`; `TabsLoadTheirOwn` |
| `WorkflowClient.OnMessage_bug`, `OpsPanels.AutoEvent_bug`, `WorkConsole.OnEvent_bug` | `BoardCatchesUp`; `PanelsCatchUp`; `SelectionIsOwn` |
| `MergeReview.Patch_bug`, `RequestChain.Members_bug`, `LocalReplay.Counted_bug` | `ReviewIsWhole`; `ChainIsShared`; `EventIsTheCommits` |
| `BachPlayer.Keeps_bug`, `ServerAddress.Renders_bug`, `Normalized_bug` | `MusicSettles`; `PanelIsCalm`; its type |


## 4. What is proved

The proofs hold for all sets of requests, branches, projects, principals and sockets, and all
bounds; they use only the named assumptions on constants (that sentinel values are not members of
the sets they are compared with, that bounds are natural numbers). The parts' are over MCParts'
constants, in the same sense.

- `ApprovalServer_proofs`: `TypeCorrect`, then `LedgerInvariant`, and from it `OneDecisionTold`,
  `StoredDecisionsAreCurrent` and `RefinesLedger`. ToldOneDecision alone is not inductive: a
  decision is told from memory, so memory and file must agree on it, through the maps, the pending
  writes and the objects executors write back. LedgerInv says it of each: decisions are keyed by
  their request, pending writes and the file know what memory knows, the file is behind by at most
  the one decision the running handler made, and executors hold a copy of the decision there is.
  Every write then extends or repeats what the file has, which is a step of the ledger or a stutter.
  What else ApprovalServer promises comes each from an invariant of its own on top of LedgerInv.
  `CopiesAlwaysAgree`: CopiesInv adds that ids are not used twice and that the last store still to
  be written has memory's requests. `SuccessIsAlwaysReal`: LandedInv follows a success from the git
  child that ended well through decisions, writes and both files. `ResultIsAlwaysAudited`: in
  AuditInv the log only grows, and each agent store with a success is written after a log that has
  it; this is the order of the two writes in `FinishManual`. `ManualMergeIsAlwaysDecided`: OrdersInv
  says that no copy of a decision changes its action, and that a manual child starts only after the
  store was written. `RejectedIsNeverMerged`: MergedInv, for the modes without auto-approval, from
  OrdersInv. What these say is limited by what the code does: `landed` is not reset by a
  resubmission, so a success is real for one of a request's submissions; the audit is of stored
  decisions that succeeded, not of automatic merges, nor of the message that precedes the entry; and
  with auto-approval on a rejected request that is submitted again may be merged.
- `WorkflowDecisions_proofs`: `WorkflowTypeCorrect`, `FilesInvariant`, `StatusesMatch`,
  `ChainsStayWhole`, `OneWorkflowDecisionTold`, `WorkflowRefinesLedger`. FilesInv says what is still
  to be saved is exactly what memory holds, the file is behind by one handler unless a save failed,
  and a decision is broadcast only after its save. `AcksStayDurable` and `HistoryIsNeverAhead`:
  RecordsInv adds that an answer and a log entry come after the save of what they say, which memory
  bears out and, unless a save failed, the file.
- `WorkflowAccess_proofs`: `AccessTypeCorrect`, `AccessInvariant`, `RevocationLeavesNoSocket`,
  `IdentitiesAreTrue`, `TokensStayCurrent`, `DecisionsAreConfidential`, `OnlyTrustedAreTold`.
  AccessInv adds to the promises that registries and files hold the last token or none, and that a
  call under way is signed by its sender; what a step tells follows from the sockets being trusted
  before it, but for the answer to a call, which says what the caller did and nothing else.
- `WorkStore_proofs`: `StoreTypeCorrect`, `StoreInvariant`, `OutcomesAreKept`, `MemoryStaysSaved`,
  `OpenSessionsAreKept`. ToldIsKept is not inductive by itself: what was told could be undone by a
  handler that creates the same thing again, or decides twice, or by a file that is behind. StoreInv
  excludes it: only a handler's first step makes something new and it is new then, what is told is
  told of a memory the file agrees with or, after a failed save, is put down as unsaved, the next
  save brings all of it into the file, and both copies need no pruning, so that loading changes
  nothing. `ListsAreConsistent`, `CommandsGetAnswers` and `OldestAreDropped`: ListsInv adds that
  times only grow, so that what is pruned is the oldest, and that a handler with a command in its
  steps still has its result to come, so that between handlers each session's commands have theirs,
  but for the sessions one of whose own handlers was cut off.
- `Dashboard_proofs`: four inductive invariants. LinkedInv (`DashboardTypeCorrect`): a socket that
  is not open has brought nothing, and a new one finds no notes. OutstandingInv
  (`PendingIsAlwaysOutstanding`): the ref still shows each note that has become pending, so that the
  answer finds it. VisibleInv (`WaitingIsAlwaysVisible`): whatever is under way is about a request
  that was submitted, a merge without a race has its request waiting for it, and after each event
  that takes a note away comes one that brings it if the request waits. OneActionInv
  (`NoActionIsDoubled`): a dashboard's actions on a request are on the way, in git or answered, one
  of them at most, and as long as there is one, the first note of the request is pending for React
  and for the callbacks; the exceptions are the requests in `ambiguous`, that an operator acted on
  without a note or whose merge the policy has told everyone.
- `Parts_proofs`: a behaviour of MCParts is one part's, so that part's invariant under the condition
  `part = ...` is inductive. `TokensAlwaysHold`, `LaunchersAlwaysHold`, `ConnectorAlwaysHolds` are
  of parts whose proofs are in this module, `ProjectFilesAlwaysHold`, `ScreensAlwaysSettle`,
  `PlayerAlwaysHolds` of the two halves below, and `TypesAlwaysOK` is of all of them. AgentTokens:
  the file has memory's tokens unless a save has failed, both have only tokens that were issued,
  memory has none that is dead unless the process died after a failed save, and a request signed by
  an agent is stored under that agent. Launcher: a starter's stage, its child and its handle belong
  together, no two have one child, and NoOrphans holds without counting those who only ask whether
  there is a server. EmailConnector: before it sends, a run has one acknowledged approval more of
  its mail than was sent; the request it waits for is about that mail and was not acknowledged, not
  even by a run that died.
- `ClientParts_proofs`, about the files and the screens. Each invariant says of what is under way
  what its arrival will repair. *ProjectFiles*: unless two commands wrote at once, one process
  writes a file at a time, an id is one entry's and goes with its path, and what a process has still
  to do names ids that are known; a truncated file was sound when it was last written. `NewIdIsNew`:
  `toProjectId` finds a free id. *HookInstaller*: unless a marker was removed, a hook has no block of the
  installer's, or one whose markers stand in their order with any lines in between; the installation
  leaves a whole one and the user's lines before and after it as they were. *WorkflowClient*: a change that was not shown is told, asked for or
  answered (ReloadIsDue). *OpsPanels*: a panel that refreshes itself has seen all or something is to
  refresh it; the history is still told of each change it has not shown. *WorkConsole*: each version
  of an item is known or in the queue, and what is known was a version. *BachPlayer*: the last
  report under way is of the state the player is in, and after a pause none is of playing.
  *ServerAddress*: what is stored is what was chosen, as it was read. *MergeReview*: while the
  branch has not moved, what each command has answered is what the branch has, and a patch is one of
  its path, which for a renamed file and a quoted name is none. *RequestChain*: a
  request is made after its parent, from which it follows that the paths to the root exist, that all
  members of a chain have the same members, and that the order by time of creation, and by number
  within a time, is a strict one of them all.
- `PlayerParts_proofs`, about the Player. *ReplayLaunch*: a tab's launch was saved, and the stored
  one is the last saved. *ReplaySources*: what was read, by the stage of the load;
  `DiscussionWritten` is of discussions of any length, of which TLC sees four notes. *PlayerAudio*:
  what the context will come to when all it was asked is done (Final) follows the run, and cues rise
  with its step. *LocalReplay*: sums over any finite set of files are the sums of what git prints.
  *ReplayChart*: the notes of an event are over, by
  whole beats, before those of the next begin, so that what shares a bucket is one event's and
  thinning it keeps the heaviest, and every event is heard.
  `ChordsAlwaysFit` is of all harmonies. *PlayerSession*: every note is counted once and the last
  beat judges all that are left; as long as a demo is expected its request is on the way; and the
  history is what retention keeps of all runs that were reported. That this is inductive is
  `RetainedAgain`: trimming a list that was trimmed already, with a new record in front, is trimming
  all there was.

The inductive invariants were checked by TLC on the instances before they were proved for all, as
were the promises `MemoryIsSaved` of WorkStore and `TellsOnlyTrusted` of WorkflowAccess that follow
from them; the runs keep the promises. An attempt to prove RejectedIsNotMerged showed it to be false
as it was stated: a request that is approved without a branch, and then, after a crash has lost that
decision, rejected, has been approved but never merged. `landed` therefore says which of the two
happened, and `approval_live` has two decisions, with which TLC reaches the case.

Proving also showed two properties of parts to be false outside the bounds of the run, and both now
say what the code does: SelectionIsOwn of WorkConsole excepts a socket that was opened before
anything was selected (`early`), and NeverStuck of WorkflowClient the end, still to be heard, of a
socket that was left for another token. In both cases a second socket or submission is needed.

*Induction over data.* The library's induction theorems cannot be used, as they take an operator.
Where a proof needs one it is over a definition of its own: the least counterexample of a set of
numbers (`SmallestNumber`, `FirstNumber`), or of finite subsets by cardinality, and lemmas on ranks
(`PlacesInOrder`, `NthOfRank`). The models' functions are written for it: Chain is defined by the
place of each request, Retained and Without by Picked (Ranks), sums by functions on sets.

*Not proved.* The three liveness properties ApprovalsEnd, DecisionsArrive and PendingEnds are
checked by TLC only, under the fairness of section 3: the prover does no liveness under fairness.
The violations of section 5 are counterexamples and need no proof. Every other property of every run
is stated by a theorem. One thing is more in the proofs than in TLC's instances: constants such as
Notes, Files, Printed or Scores are any sets the assumptions allow, not only the few of `parts.cfg`.
One is less: where a module's own definition is finite, as Discussions with four notes or Inputs
with the schemes and ports there are, the theorem about the run's property is about those, and for
discussions `DiscussionWritten` says the rest.

## 5. Findings

Checked by a run that is violated; `PROJECT.json` quotes the documents with their lines.

1. **An ack can be taken back** (`approval_ack`). The executor holds the decision across
   the await of git and writes its copy back: an ack that was confirmed meanwhile becomes
   `available` again, although the adapters' plan says a repeated ack keeps its value.
2. **A request can be merged twice at a time** (`approval_twice`). A resubmission makes an
   `approving` request `ready`, and a second approval starts a second merge, which the work
   plan says the request state map prevents.
3. **A crash inside a write loses decisions** (`approval_torn`). The agent store is
   overwritten in place; a torn file is discarded at the next start.
4. **What is approved may not be what was reviewed** (`dashboard_review`). After a
   resubmission with another branch, the sheet shows the new branch's review and approves
   the branch of the first note with the request's id.
5. **New files are never known to be new** (`local_new_files`). git indents the line `create mode`,
   and the pattern for it (`gitReplayAdapter.js:159`) begins at the beginning of the line. A test
   asserts the contrary (`player/tests/gitReplayAdapter.test.mjs:28`) of a print in which the line
   is not indented.

Seen while modelling. Each is in the models, mostly as the exception a property names; no run checks it.

- *Merges.* A merge in conflict is not aborted (`maestro-server.js:2265`): the repository stays in the
  middle of it, and later merges fail until an UNDO resets it or somebody else does. A selected project is
  written to `.env`, but a restart under `MAIN_REPO_PATH` does not read it (`maestro-server.js:97`).
- *Decisions.* Auto-approval merges without a decision, although
  `docs/MAESTRO_AGENT_ADAPTERS_PLAN.md:172` makes one a condition of every merge: the polling agent
  is told `pending` for a merged branch. A decision on a work request whose save throws is
  answered as failed, shown by every GET, refused on a retry as decided already, and stored by the
  next save, or forgotten if the process ends before.
- *Tokens.* On the workflow server, too, a call that was authorized is served and answered after its
  operator was revoked. A submission is authorized before its body has arrived, and served with a token
  revoked since. Agent ids are cut at 80 characters in the registry and at 64 in a request, so an
  agent with a longer one is refused its own decisions. A restart after a save that failed revives
  a revoked token.
- *Files.* The server and three commands rewrite the registry and `.env` whole; a reader that
  meets a truncated registry takes it for an empty one. Two paths whose runtime ids agree share
  an entry.
- *Hooks.* A line the user writes between the markers is replaced by the next installation, and an
  `exit 0` before the block, which is appended to what there is, keeps it from ever posting. When the end marker was removed, the second installation appends a block and the third
  replaces everything from the old start to the new end (`install-maestro-hook.mjs:91`). The
  hook of `USER_GUIDE.md:371` and the installed one post two requests for a commit.
- *Connector.* A run that dies between sending and marking sends again, with a new approval. A
  socket closed before it is authorized is never noticed, and polling goes on alone.
- *Review.* `git diff --numstat` writes a renamed file as `old => new`, which is no path: it is shown
  as modified with an empty patch, and a name that is not ASCII in quotes, which is no path either and
  has an empty patch; nothing says so, although `USER_GUIDE.md:232` says what is
  left out is shown. Commits beyond 50 are cut without a mark, although
  `docs/superpowers/specs/2026-07-22-merge-review-design.md:105` says the excess is marked. A push
  between two commands mixes two versions in one review.
- *Workflow chains.* They are in the order of the time of creation, so a child may come before its parent if
  the clock was set back.
- *Dashboard panels.* The socket's handlers are those of the render in which the game was
  started: a panel closed then reacts to no event afterwards, only to its poll, although
  `USER_GUIDE.md:435` says it refreshes; a session created by anyone is selected if nothing was
  selected then. A changed address keeps the old server's notes, and approving one asks
  the new server.
- *Workflow client.* A late 401 of an old token asks for a token again; the closing of an old
  socket shows an authorized one as disconnected; the answer to a decision closes whichever
  sheet is open then.
- *Address.* Port 80 of a `ws` address becomes 8080, when it is entered or when the page is opened
  again (`server-address.js:35`). A search whose panel is closed is not ended; its later
  results leave the panel searching for ever.
- *Music.* A report of playing under way when the user pauses brings the wish to play back,
  although `docs/KNOWN_ISSUES.md:35` says a pause clears it. A play pressed before the player is ready
  is noted and never done.
- *Launchers.* A window that closes, or a command that is ended, while it starts a server leaves the
  server behind, although `vscode-extension/README.md` says closing cleans it up. A server
  that has died leaves its handle, and the status `running`. Readiness is also answered by another
  Maestro server on the port.
- *Player.* Two events with one id (GitLab approvals of one user) make a run that never
  completes. Choosing the demo that is shown starts it on the old chart and resets it. Run tokens begin
  again after a reload, so a record may replace an older one. A run that starts while the
  context is being suspended plays in silence; one paused while it is being resumed leaves the context running.
- *Player, local repositories.* A merge has no files, as git prints none. A branch of another remote
  than origin is taken for a local one.
- *Extension.* Of two launches at once the first tab finds the second's repository and does not
  load. The branch of the page under the popup is dropped.

## 6. Not modelled, and why

- The iOS shell is platform glue around the same web client; the Bonjour search it adds is part of
  `ServerAddress`.
- Of the dashboard: scores, judgment, mock notes, sounds and layout, which are arithmetic and drawing
  without effect on requests.
- Of the Player: wording and translations, effects, the envelopes of its tones. The demos are data.
- Of the set-up scripts: preflight, doctor and smoke scripts, which read and report.
- Of the servers: the validation of inputs that change nothing, and the texts of a review.
- Of the workflow server: its open mode, where there are no identities to protect.

## 7. What is done and what is left

Every module that was planned is written, and every invariant and action property of a passing run is
proved for all constants. What is left:

- liveness, which only TLC checks;
- hazards that the models show as the exception of a property, which therefore does not catch them:
  each has a note in `PROJECT.json` (a save that fails before a crash, calls under way at a
  revocation, `MERGE_SKIPPED`, lines between the hook's markers, quoted names in a review);
- the hazard that no property covers: UNDO takes back the newest commit of the project that is active then,
  whatever it is (`maestro-server.js:2270`). The code promises nothing else, so there is nothing to state;
- what section 6 leaves out.

## 8. Running

`tlc -config approval_core.cfg MCApprovalServer.tla` and likewise for the other
configurations; `tlapm ApprovalServer_proofs.tla` and likewise for the other proof modules. The
largest run takes about three minutes on two cores.
