SPECIFICATION Spec
CONSTANTS
  Cids = {c1}
  Tasks = {t1, t2}
  MaxConcurrent = 1
  Retries = 1
  Capacity = 1
  MaxTurns = 0
INVARIANTS
  AtMostMaxConcurrentOpen
