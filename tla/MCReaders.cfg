SPECIFICATION FairSpec
CONSTANTS
  Kinds = {"file", "pipe", "socket", "dbgview"}
  MaxInput <- MCMaxInput
  MaxShrinks = 2
  bufSize = 3
  maxLine = 1
  Senders = {"a", "b"}
  Packets = {0, 1, 2}
INVARIANTS ReadsWhatIsWritten PiecesDontMatter
PROPERTIES FileIsFollowed DatagramsArrive  LastWordsArrive
CHECK_DEADLOCK FALSE
