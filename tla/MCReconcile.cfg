SPECIFICATION MCSpec
CONSTANTS
  Deployments = {1, 2}
  PageSize = 1
  Buffer = 2
  ChunkSize = 1
  TTL = 2
  MaxFaults = 2
INVARIANTS
  TypeOK
  ClaimsWitnessed
  DenialsAreFresh
  ErrorSubmitsNothing
  FlagsHaveVerdicts
PROPERTIES
  PanicsAreSpent
  AbortKeepsCache
  SettledStays
  ImplementsSequential
  Converges
