SPECIFICATION FairSpec
CONSTANTS
  main = main  p1 = p1  p2 = p2  p3 = p3
  ok = ok  killed = killed  garbage = garbage
  NULL = NULL
  Procs = {main, p1, p2}
  Main = main
  Codes = {ok}
  Killed = killed
  Garbage = garbage
INVARIANTS TypeOK FreedExactlyOnce CountsReferences ShareThere
PROPERTIES ExecTells WaitReturnsStatus CallsReturn
CHECK_DEADLOCK FALSE
