SPECIFICATION FairSpec
CONSTANTS
  Processes = {p1, p2}
  NoProcess = NoProcess
  Pids = {i1, i2}
  Window = 1
  Limit = 1
  MaxWrites = 3
INVARIANTS TrackedOnce TextIsNotMixed EndIsShownLast
PROPERTIES EndIsShown AbortReturns
CHECK_DEADLOCK FALSE
