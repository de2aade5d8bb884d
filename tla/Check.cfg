SPECIFICATION Spec
CONSTANTS
  Kinds = {"ethereum", "near"}
  SupportedKinds = {"ethereum"}
  Networks = {"mainnet", "eth", "gnosis"}
  Entries = {{"mainnet", "eth"}, {"gnosis"}}
  PageSize = 1
  MaxSources = 2
  MaxFiles = 2
  MaxChanges = 1
INVARIANTS
  OkMeansSound
  InvalidHasDefect
  OtherIsFirstFailure
CHECK_DEADLOCK FALSE
