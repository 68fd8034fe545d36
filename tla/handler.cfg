SPECIFICATION FairSpec
CONSTANTS
  MaxPairs = 2
INVARIANTS TypeOK NoUseAfterFree NothingDangles OneProducerOneConsumer AllServed
PROPERTIES ShutdownReturns
CHECK_DEADLOCK FALSE
