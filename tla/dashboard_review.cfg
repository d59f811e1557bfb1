SPECIFICATION Spec
CONSTANTS
  Requests = {r1}
  Dashboards = {d1}
  Sheets = {d1}
  LaneLimit = 2
  AutoApproved = {}
  MaxVersions = 2
  MaxSockets = 1
  MaxMerges = 1
  MaxFetches = 2
PROPERTIES
  MergesWhatWasReviewed
CHECK_DEADLOCK FALSE
