SPECIFICATION Spec
CONSTANTS
  r1 = r1
  b1 = b1
  p1 = p1
  Req = {r1}
  Branch = {b1}
  Project = {p1}
  NoBranch = NoBranch
  None = None
  AutoMode = "off"
  CooldownOn = FALSE
  UndoOn = FALSE
  BaseCommits = 1
  Tracked = {}
  MaxRuns = 2
  MaxDecisions = 2
  MaxCrashes = 0
INVARIANT AckStays
