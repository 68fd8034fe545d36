SPECIFICATION FairSpec
CONSTANTS
  PoolSize = 4
  RingCap = 5
  Burst = 2
  MaxRetries = 2
  MaxPkts = 6
INVARIANTS TypeOK MbufsConserved RingNeverFull StatsAgree SingleWorkerDrainsNothing InOrder
PROPERTIES ImplementsLine
