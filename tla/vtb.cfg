SPECIFICATION FairSpec
CONSTANTS
  NofVids = 2
  ChanCap = 1
  MaxSignals = 1
INVARIANTS TypeOK StoppedAtReturn
PROPERTIES SkipsOnlyInWindow SignalEndsProcess
CHECK_DEADLOCK FALSE
