SPECIFICATION Spec
CONSTANTS
  None = None
  Agents = {a1, a2}
  Long = {a2}
  Cut = Cut
  Unknown = Unknown
  Server = Server
  MaxTokens = 2
  MaxCalls = 1
  MaxCrashes = 1
  Paths <- MCPaths
  Home <- p1
  RuntimeId <- MCRuntimeId
  LaneInputs = {2, 9}
  OwnId = OwnId
  SharedId = SharedId
  MaxJobs = 2
  Mails = {m1, m2}
  MaxRequests = 4
  MaxRuns = 2
  Golden <- MCGolden
  Repos <- MCRepos
  Notes <- MCNotes
  PerSource = 2
  Total = 2
  MaxRunTokens = 4
  MaxLoads = 2
  MaxReloads = 1
  Types = {"merge", "push", "pr-open", "review-request-changes", "review-approve", "commit"}
  Classes = {"feat", "fix", "docs"}
  Groups = {"backend", "other"}
  Scores = {0, 50, 100}
  Seeds = {0, 1}
  LaneCount = 6
  MaxNotesPerBeat = 2
  MaxEvents = 2
  Commits = {c1, c2}
  Pulls = {q1, q2}
  Failures = {"NETWORK", "NOT_FOUND"}
  Requests = {r1}
  Chained = {r1}
  MaxDrops = 1
  MaxSubmits = 1
  MaxDecisions = 1
  MaxActs = 1
  MaxAsked = 1
  Sessions = {s1, s2}
  Tasks = {t1}
  Asked = Asked
  MaxPosts = 1
  MaxSelects = 1
  Windows = {w1}
  Commands = {cmd}
  Apps = {app}
  Reused = Reused
  MaxServers = 2
  LastStep = 3
  MaxAutoplays = 2
  MaxControl = 2
  Lines = {u1, m, x}
  Manual = m
  Exit = x
  MaxEdits = 3
  MaxInstalls = 3
  Channels = {u, v}
  MaxClicks = 4
  MaxWaiting = 3
  Default = Default
  MaxScans = 2
  Projects = {ra, rb}
  Branches = {"main", "dev"}
  MaxPopups = 2
  MaxLaunches = 2
  MaxTabs = 3
  MaxRefreshes = 1
  Files = {1, 2, 3}
  Quoted = {2}
  MaxListed = 2
  MaxLogged = 1
  MaxMoves = 1
  Printed = {1, 2}
  Folder <- MCFolder
  Counts = {0, 3}
  MaxMade = 4
  MaxClock = 2
  MaxChanges = 2
  MaxSockets = 1
  MaxFailures = 1
INVARIANTS
  TypeOK
  TokensHold
  ProjectFilesHold
  ConnectorHolds
  PlayerHolds
  ScreensSettle
  LaunchersHold
CHECK_DEADLOCK FALSE
