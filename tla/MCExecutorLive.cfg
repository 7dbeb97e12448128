\* The contract and liveness: two clients, two calls.
CONSTANTS
  c1 = c1
  c2 = c2
  NoClient = NoClient
  Clients = {c1, c2}
  MaxCalls = 2
  MaxOthers = 1
  MaxTime = 2
SPECIFICATION FairSpec
CHECK_DEADLOCK FALSE
PROPERTIES
  KeepsContract
  CallReturns
  DueCallRuns
  DestructorReturns
