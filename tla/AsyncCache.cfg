SPECIFICATION FairSpec
CONSTANTS
  Tasks = {t1, t2, t3}
  MaxGets = 4
  MaxCancels = 1
INVARIANTS
  NoConcurrency
  RemovesItsOwn
  UncachedIsPrivate
PROPERTIES
  FuturesLetGo
  TimedLeaves
CHECK_DEADLOCK FALSE
