SPECIFICATION FairSpec
CONSTANTS
  waits = waits
  late = late
  Threads = {w1, w2}
  Tasks = {waits, late}
  Delayed = {late}
  WaitsFor <- MCWaitsFor
  NoTask = NoTask
  InitialThreads = 1
  MinThreads = 1
  MaxThreads = 2
  MaxPings = 2
  MaxStarts = 2
PROPERTIES TasksStart StopReturns FuturesSettle
CHECK_DEADLOCK FALSE
