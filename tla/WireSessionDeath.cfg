CONSTANTS
  Idle = 1
  PtyIdle = 2
  PtyQuiet = 1
  Timeout = 3
  MaxObjects = 3
  MaxAsks = 3
SPECIFICATION SessionSpec

PROPERTIES DeathIsAnExit
CHECK_DEADLOCK FALSE
