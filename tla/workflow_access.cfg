SPECIFICATION Spec
CONSTANTS
  a1 = a1
  a2 = a2
  o1 = o1
  agent = agent
  staff = staff
  admin = admin
  Actors = {a1, a2}
  Operators = {o1}
  Root = Root
  Holders = {agent, staff, admin}
  Holds <- MCHolds
  Sockets = {s1}
  Requests = {r1}
  None = None
  Revoked = Revoked
  MaxTokens <- MCMaxTokens
  MaxCalls = 1
  MaxFailures = 1
  MaxCrashes = 1
INVARIANTS
  TypeOK
  TokensAreCurrent
  SocketsAreTrusted
  Confidential
  Signed
CHECK_DEADLOCK FALSE
