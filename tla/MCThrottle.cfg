SPECIFICATION Spec
CONSTANTS
  Callers = {a, b}
  Delta = 2
  FnMayThrow = TRUE
  MaxTime = 7
  History = 3
INVARIANTS AtMostOnePending RegularCallsAreServed
PROPERTIES BurstIsBounded
CHECK_DEADLOCK FALSE
