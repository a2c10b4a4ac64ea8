CONSTANTS
  Reader = r
  Writer = w
  Threads = {r, w}
  Observers = {r, w}
  NoThread = NoThread
  BUFFERS_IN_QUEUE = 1
  BUFFER_SIZE = 2
  FileSizes = {0, 5}
  DiskMayFill = FALSE
  waitingTime = 1
  EarlyWriter = FALSE
  Faults <- MCFaults
SPECIFICATION IPCFairSpec
INVARIANTS
  IPCTypeOK
  CountsAreTrue
  ReaderLeavesAWriter
  CallsSucceed
  HeldUpOnlyAsKnown
PROPERTIES
  IPCImplementsCopyFile
  ReaderEnds
  EndsOrSleeps
  InterruptIsNoticed
CHECK_DEADLOCK FALSE
