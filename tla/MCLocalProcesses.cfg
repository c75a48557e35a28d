CONSTANTS
  Launches = {l1, l2}
  Nobody = Nobody
  MaxObjects = 2
  Threads = {t1, t2}
  NoThread = NoThread
  Names = {n1, n2}
  NoName = NoName
  MaxWindows = 2
  MaxViews = 2
SPECIFICATION LocalSpec
SYMMETRY Interchangeable
INVARIANTS InheritsItsOwn NothingRemains SamplesComplete OpenScreensLive PageShowsItsScreen NothingLeftBehind
CHECK_DEADLOCK FALSE
