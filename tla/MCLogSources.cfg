SPECIFICATION Spec
CONSTANTS
  Sources = {s, f}
  FileSources = {f}
  ByPredicate = FALSE
  MaxLines = 1
  MaxPointers = 2
INVARIANTS ListenUsesAlive NoLostUpdate DroppedMeansRemoved
CHECK_DEADLOCK FALSE
