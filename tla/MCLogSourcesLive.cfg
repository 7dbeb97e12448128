SPECIFICATION FairSpec
CONSTANTS
  Sources = {s}
  FileSources = {}
  ByPredicate = TRUE
  MaxLines = 2
  MaxPointers = 2
PROPERTIES AddedIsListened LinesArrive AbortReturns
CHECK_DEADLOCK FALSE
