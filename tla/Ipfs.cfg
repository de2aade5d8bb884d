SPECIFICATION FairSpec
CONSTANTS
  Cids = {c1, c2}
  Tasks = {t1, t2}
  MaxConcurrent = 1
  Retries = 1
  Capacity = 1
  MaxTurns = 2
INVARIANTS
  TypeOK
  PermitsConserved
  OkIsOfThisRun
  UnavailableAfterRetries
PROPERTIES
  CatAdvances
  CatReturns
