SPECIFICATION Spec
CONSTANTS
  Processes = {"p", "q"}
  Texts <- MCTexts
  blockSize = 2
  MaxMessages = 5
PROPERTIES KeepsLog
