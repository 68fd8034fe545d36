SPECIFICATION FairSpec
CONSTANTS
  MaxQueuePairs = 2
  NofVids = 2
  MaxBursts = 2
  MaxBusy = 1
INVARIANTS TypeOK EveryDeviceReported RowsPlausible
PROPERTIES ReportEnds
CHECK_DEADLOCK FALSE
