CONSTANTS
  BootRoom = 2
  ResultRoom = 2
  TerminalRoom = 3
  Payloads = {1, 3}
  Prompts = {1, 4}
  ObjectSize = 3
  Screen = 2
  OwnReader = TRUE
  MaxAsks = 2
  MaxObjects = 0
  MaxQueries = 2
SPECIFICATION Spec
PROPERTY LaunchEnds
CHECK_DEADLOCK FALSE
