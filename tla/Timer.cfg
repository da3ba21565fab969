SPECIFICATION FairSpec
CONSTANTS
  t1 = t1
  t2 = t2
  t3 = t3
  Idle = idle
  AllList <- All3
  Sleepers <- WhoSleeps
  Waiters = {t3}
  Sleeps = {2}
  Nices = {0}
  TIMER_FREQ = 3
  TIME_SLICE = 2
  PRI_MAX = 3
  Minute = 2
  f = 2
  Period = 12
INVARIANTS TypeOK OutrankedBriefly
PROPERTIES AlarmImplemented NoStarvation
