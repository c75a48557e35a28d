SPECIFICATION AskSpec
CONSTANTS
  Clis = {"kimi"}
  Resuming = {"kimi"}
  MaxMain = 2
  Events = 2
  MaxPending = 2
INVARIANTS IdIsOwn
CHECK_DEADLOCK FALSE
