SPECIFICATION FairSpec
CONSTANTS
  MaxQueuePairs = 2
  NofVids = 2
  VringCounts = {2, 4}
  ChanCap = 2
  Order = "dense"
INVARIANTS TypeOK StaleServersEnd HandlersMatchDevices OneServer ResourcesOwned
PROPERTIES UpStartsItsHandler EventuallyServed
