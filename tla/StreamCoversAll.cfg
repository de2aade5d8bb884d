SPECIFICATION Spec
CONSTANTS
  Deployments = {1, 2, 3}
  PageSize = 1
  MaxChanges = 1
INVARIANTS
  CoversAll
CHECK_DEADLOCK FALSE
