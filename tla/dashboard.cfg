SPECIFICATION MCFairSpec
CONSTANTS
  Requests = {r1}
  Dashboards = {d1, d2}
  Sheets = {d1}
  LaneLimit = 2
  AutoApproved = {}
  MaxVersions = 2
  MaxSockets = 1
  MaxMerges = 2
  MaxFetches = 1
INVARIANTS
  TypeOK
  PendingIsOutstanding
  WaitingIsVisible
PROPERTIES
  NoDoubleAction
  PendingEnds
CHECK_DEADLOCK FALSE
