CONSTANTS
  Threads = {t1, t2, t3, t4}
  Chunks = {c}
  NoChunk = NoChunk
  MaxQueue = 3
SPECIFICATION MCSyncSpec
SYMMETRY ThreadSymmetry
INVARIANTS
  EveryChunkHasAWaker
