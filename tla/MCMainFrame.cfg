SPECIFICATION FairSpec
CONSTANTS
  Kinds = {"a", "b", "c"}
  Text <- MCText
  Process <- MCProcess
  ClearBuffer = {"c"}
  Filters <- MCFilters
  Additions <- MCAdditions
  Padding = 1
  BucketSize = 1
  MaxLines = 4
  MaxFilters = 1
INVARIANTS LinesAreInLog ShowsWhatItShould OrderIsKept
PROPERTIES BookmarksStay SelectionStays LinesAreProcessed
