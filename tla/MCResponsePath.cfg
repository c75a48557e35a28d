CONSTANTS
  Connections = {c1, c2}
  Addresses = {1, 2}
  Scripts <- MCScripts
  MaxPiece = 4
  Reclaim = 6
  Reuse = FALSE
  None = None
  Clis = {"agy", "codex", "kimi"}
  Replies <- MCReplies
  Histories <- MCHistories
  BootRoom = 2
  ResultRoom = 2
  TerminalRoom = 3
  Payloads = {1, 3}
  Prompts = {1, 4}
  ObjectSize = 3
  Screen = 2
  OwnReader = TRUE
  MaxTurns = 2
  MaxPuts = 2
  MaxQueries = 2
  Idle = 1
  PtyIdle = 2
  PtyQuiet = 1
  Timeout = 3
  MaxObjects = 3
  MaxAsks = 2
SPECIFICATION PathSpec
INVARIANTS StreamIntact StreamsExact TurnsTellTheReply
PROPERTIES AskReturns NobodyWaitsForEver
CHECK_DEADLOCK FALSE
