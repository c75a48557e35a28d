CONSTANTS
  Threads = {t1, t2, t3}
  Main = t1
  Worker = worker
  NoJob = NoJob
  MaxEvents = 1
  MaxJobs = 3
SPECIFICATION HostSpec
INVARIANTS PromiseOnLiveStack CompleteCapture
PROPERTIES DeliversEvents EveryCallReturns
CHECK_DEADLOCK FALSE
