SPECIFICATION Spec
CONSTANTS
  Sources = {s}
  FileSources = {}
  ByPredicate = TRUE
  MaxLines = 1
  MaxPointers = 2
INVARIANTS NoDangling
CHECK_DEADLOCK FALSE
