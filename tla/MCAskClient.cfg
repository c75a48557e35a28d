SPECIFICATION AskSpec
CONSTANTS
  Clis = {"agy", "codex", "kimi"}
  Resuming = {"agy", "codex"}
  MaxMain = 2
  Events = 2
  MaxPending = 2
INVARIANTS TurnsIntact OwnRequest ResponsesExact IdIsOwn
CHECK_DEADLOCK FALSE
