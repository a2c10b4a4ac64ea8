CONSTANTS
  Reader = r
  Writer = w
  Threads = {r, w}
  NoThread = NoThread
  BUFFERS_IN_QUEUE = 2
  BUFFER_SIZE = 2
  FileSizes = {0, 1, 2, 3, 4, 5}
  DiskMayFill = FALSE
SPECIFICATION InterruptedFairSpec
INVARIANTS
  AbortLosesOneChunk
  InterruptedWriterNeverDone
PROPERTIES
  InterruptedImplementsCopyFile
  InterruptedRunBlocks
CHECK_DEADLOCK FALSE
