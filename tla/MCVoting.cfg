SPECIFICATION MCSpec
CONSTANTS
  Oracles = {1, 2, 3}
  Threshold = 2
  VoteTimeLimit = 2
  MaxFaults = 2
INVARIANTS
  TypeOK
PROPERTIES
  FlipHasRecentQuorum
  DecidedStays
  QuorumPrevails
  ConsensusIsQuiet
