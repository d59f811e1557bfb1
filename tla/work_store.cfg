SPECIFICATION Spec
CONSTANTS
  Sessions = {s1, s2}
  Requests = {r1, r2}
  Verdicts = {"request_approved", "request_rejected"}
  MaxClosed = 1
  MaxMessages = 3
  MaxRequests = 1
  MaxTime = 8
  MaxFailures = 1
  MaxCrashes = 1
SYMMETRY MCSymmetry
INVARIANTS
  TypeOK
  ToldIsKept
  Consistent
  CommandsAnswered
PROPERTIES
  OpenSessionsSurvive
  OldestGoFirst
CHECK_DEADLOCK FALSE
