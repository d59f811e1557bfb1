SPECIFICATION FairSpec
CONSTANTS
  r1 = r1
  b1 = b1
  p1 = p1
  p2 = p2
  Req = {r1}
  Branch = {b1}
  Project = {p1, p2}
  NoBranch = NoBranch
  None = None
  AutoMode = "dry"
  CooldownOn = FALSE
  UndoOn = TRUE
  BaseCommits = 1
  Tracked = {}
  MaxRuns = 1
  MaxDecisions = 2
  MaxCrashes = 1
INVARIANT RejectedIsNotMerged
PROPERTIES
  ApprovalsEnd
  DecisionsArrive
