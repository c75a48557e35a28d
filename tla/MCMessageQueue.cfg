CONSTANTS
  Main = main
  Conversations = {main, sub}
  NoConv = NoConv
  Hooks = {h1, h2}
  NoHook = NoHook
  Ids = {1, 2}
  Sizes = {1, 2}
  MaxBatch = 2
  MaxClock = 0
  MaxKills = 1
SPECIFICATION Spec
INVARIANTS AtMostOnce HonestStatus BindsMain InOrder
PROPERTIES MainMessagesLeaveTheQueue
CHECK_DEADLOCK FALSE
