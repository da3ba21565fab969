SPECIFICATION FairSpec
CONSTANTS
  t1 = t1  t2 = t2  t3 = t3
  NULL = NULL
  Threads = {t1, t2, t3}
  Priorities = {1, 2}
  StackWords <- Words
  FreePriorities = TRUE
  Strict = FALSE
INVARIANTS SignalPending
PROPERTIES ImplementsMonitor SleepersByPriority BroadcastReaches
