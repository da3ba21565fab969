SPECIFICATION FairSpec
CONSTANTS
  w1 = w1
  r1 = r1
  r2 = r2
  NULL = NULL
  Writers = {w1}
  Readers = {r1, r2}
  Bytes = {0, 1}
  INTQ_BUFSIZE = 3
INVARIANTS TypeOK InterruptsMatchQueues
PROPERTIES QueuesKeepOrder WaiterWoken
CHECK_DEADLOCK FALSE
