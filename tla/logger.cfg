SPECIFICATION FairSpec
CONSTANTS
  Producers = {p1, p2}
  Flusher = flusher
  NoThread = nobody
  MaxFileSize = 2
  MaxMsgs = 4
INVARIANTS TypeOK NothingLost FilesAreTail
PROPERTIES EventuallyWritten ExitEnds CrashReported
CHECK_DEADLOCK FALSE
