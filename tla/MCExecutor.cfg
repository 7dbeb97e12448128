\* Safety: two clients, three calls, deadlines and intervals
\* up to 2.
CONSTANTS
  c1 = c1
  c2 = c2
  NoClient = NoClient
  Clients = {c1, c2}
  MaxCalls = 3
  MaxOthers = 0
  MaxTime = 2
SPECIFICATION Spec
SYMMETRY ClientSymmetry
CHECK_DEADLOCK FALSE
INVARIANTS
  InDeadlineOrder
  CancelIsFinal
  NoDrift
