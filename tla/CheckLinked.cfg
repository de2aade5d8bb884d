SPECIFICATION Spec
CONSTANTS
  Kinds = {"ethereum", "substreams"}
  SupportedKinds = {"ethereum", "substreams"}
  Networks = {"mainnet", "eth"}
  Entries = {{"mainnet", "eth"}}
  PageSize = 1
  MaxSources = 1
  MaxFiles = 1
  MaxChanges = 0
INVARIANTS
  AllLinkedChecked
CHECK_DEADLOCK FALSE
