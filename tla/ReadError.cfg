CONSTANTS
  Reader = r
  Writer = w
  Threads = {r, w}
  NoThread = NoThread
  BUFFERS_IN_QUEUE = 2
  BUFFER_SIZE = 2
  FileSizes = {1, 3}
  DiskMayFill = FALSE
  Troubles = {"readError"}
SPECIFICATION ChangingSpec
INVARIANT WritesOnlyRead
