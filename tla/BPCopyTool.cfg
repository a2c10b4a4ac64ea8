CONSTANTS
  Reader = r
  Writer = w
  Threads = {r, w}
  NoThread = NoThread
  BUFFERS_IN_QUEUE = 3
  BUFFER_SIZE = 3
  FileSizes = {0, 1, 2, 3, 4, 6, 8, 9, 11, 12, 13}
  DiskMayFill = FALSE
SPECIFICATION FairSpec
INVARIANTS
  TypeOK
  DstIsPrefix
  CallsSucceed
  NeverBothAsleep
  StopsOnlyOnClosedQueue
PROPERTIES
  ExitsOrSleepsOnClosedQueue
  ImplementsCopyFile
