SPECIFICATION Spec
CONSTANTS
  main = main  t1 = t1  t2 = t2  idle = idle
  tid = tid  A = A  S = S
  NULL = NULL
  Threads = {main, t1}
  Main = main
  Idle = idle
  Locks = {tid}
  TidLock = tid
  Semas = {}
  IntrSemas = {}
  TryLocks = {}
  Sleepers = {}
  Rank <- LockRank
  Priorities = {0, 1}
  NewPriorities = {}
  MaxValue = 0
  Mlfqs = FALSE
SYMMETRY ThreadSymmetry
INVARIANTS ChildStillThere
