SPECIFICATION Spec
CONSTANTS
  Period = 3
  MaxFaults = 2
PROPERTIES
  NoBurst
  OnlyFaultsEndTheLoop
  KeepsRunning
  RunsOnce
CHECK_DEADLOCK FALSE
