CONSTANTS
  Reader = r
  Writer = w
  Threads = {r, w}
  Observers = {r, w}
  NoThread = NoThread
  BUFFERS_IN_QUEUE = 2
  BUFFER_SIZE = 2
  FileSizes = {1}
  DiskMayFill = FALSE
  waitingTime = 2
  EarlyWriter = TRUE
  Faults = {}
SPECIFICATION IPCSpec
INVARIANT GetReturns
CHECK_DEADLOCK FALSE
