SPECIFICATION FairSpec
CONSTANTS
  Deployments = {1, 2, 3, 4}
  PageSize = 2
  MaxChanges = 2
INVARIANTS
  CoversUnlessShrunk
  NoRepeatUnlessGrown
PROPERTIES
  StreamEnds
CHECK_DEADLOCK FALSE
