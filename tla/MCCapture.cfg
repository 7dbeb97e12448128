SPECIFICATION FairSpec
CONSTANTS
  LocalReaders = {"l1"}
  GlobalReaders = {"g1"}
  Writers = {"v", "w"}
  Chatter = {"v"}
  MaxMessages <- MCMaxMessages
INVARIANTS OnceInOrder CapturesWhatItSays
PROPERTIES MessagesAreRead PauseReleases
CHECK_DEADLOCK FALSE
