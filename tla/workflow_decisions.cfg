SPECIFICATION Spec
CONSTANTS
  Verdict = {"approve", "reject"}
  None = None
  HistoryMax = 3
  MaxRequests = 2
  MaxDecisions = 3
  MaxFailures = 2
  MaxCrashes = 2
INVARIANTS
  TypeOK
  ToldOneDecision
  StatusMatches
  ChainsAreWhole
  AcksAreDurable
  AuditIsNotAhead
CHECK_DEADLOCK FALSE
PROPERTY LedgerWhenSaved
