SPECIFICATION FairSpec
CONSTANTS
  Producers = {p1, p2}
  Flusher = flusher
  NoThread = nobody
  MaxFileSize = 2
  MaxMsgs = 4
PROPERTIES CrashAlwaysReported
CHECK_DEADLOCK FALSE
