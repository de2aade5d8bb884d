SPECIFICATION FairSpec
CONSTANTS
  Deployments = {d1, d2}
  ChunkSize = 2
  MaxEntries = 3
  MaxCalls = 2
  MaxFaults = 2
INVARIANTS
  EachEntryOnce
  SettledBetweenChunks
PROPERTIES
  CallAdvances
  CallReturns
CHECK_DEADLOCK FALSE
