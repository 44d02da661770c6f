SPECIFICATION Spec
CONSTANTS
  MaxCommands = 3
  Embedded = 1
  MinVersion = 1
  MaxVersion = 3
INVARIANTS
  
  SetupIsWhole
  
CHECK_DEADLOCK FALSE
