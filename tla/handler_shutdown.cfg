SPECIFICATION FairSpec
CONSTANTS
  MaxPairs = 1
PROPERTIES ShutdownStops
CHECK_DEADLOCK FALSE
