CONSTANTS
  NumBuf = 2
  MaxLen = 3
  Char = {"a", "b"}
SPECIFICATION FairSpec
INVARIANTS TypeOK Accounted Echoed
PROPERTIES ImplementsQueue Responds
