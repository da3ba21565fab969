SPECIFICATION Spec
CONSTANTS
  main = main  t1 = t1  t2 = t2  idle = idle
  tid = tid  A = A  S = S
  NULL = NULL
  Threads = {main, t1, t2}
  Main = main
  Idle = idle
  Locks = {tid}
  TidLock = tid
  Semas = {S}
  IntrSemas = {}
  TryLocks = {}
  Sleepers = {main, t1, t2}
  Rank <- LockRank
  Priorities = {0, 1, 2}
  NewPriorities = {0, 2}
  MaxValue = 2
  Mlfqs = FALSE
SYMMETRY ThreadSymmetry
INVARIANTS StrictPriority NoLostWakeup BlockedReachable
