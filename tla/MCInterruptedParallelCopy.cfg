CONSTANTS
  Reader = r
  Writer = w
  Threads = {r, w}
  NoChunk = NoChunk
  defaultBufferSize = 2
  FileSizes <- MCFileSizes
  Chunks <- MCChunks
SPECIFICATION AbortedFairSpec
INVARIANTS
  TypeOK
  NeverWritesTooMuch
  WriterStaysToTheEnd
PROPERTIES
  ImplementsFillFile
  EndsUnlessAborted
  AbortedRunBlocks
CHECK_DEADLOCK FALSE
