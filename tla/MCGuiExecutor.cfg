SPECIFICATION FairSpec
CONSTANTS
  NoClient = "nobody"
  Clients = {"c"}
  MaxCalls = 2
  MaxOthers = 1
  MaxMessages = 1
  MaxTime = 1
  MaxNested = 2
PROPERTIES KeepsContract CallsAreServed
CHECK_DEADLOCK FALSE
