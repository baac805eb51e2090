SPECIFICATION MCSpec
CONSTANTS
  Depth = 1
  Level = 0
  BufLen = 3
  Timeout = 2
  IntMax = 4
  MaxWritten = 4
  MaxSent = 3
  SentWithClock = 1
CHECK_DEADLOCK FALSE
INVARIANTS
  TypeOK
  EnablesAgree
  Armed
PROPERTIES
  ImplementsConsole
  WritesEnd
