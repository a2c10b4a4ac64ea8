CONSTANTS
  Reader = r
  Writer = w
  Threads = {r, w}
  NoChunk = NoChunk
  defaultBufferSize = 2
  FileSizes <- MCFileSizes
  Chunks <- MCChunks
SPECIFICATION FairSpec
PROPERTIES
  CopyEnds
