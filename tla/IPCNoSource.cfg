CONSTANTS
  Processes = {a, b}
  NoSegment = NoSegment
  Chunks = 1
  BUFFERS_IN_QUEUE = 1
  WithoutSource = {b}
  LosesSource = {}
  Observed = FALSE
  Killable = {}
SPECIFICATION SessionSpec
INVARIANT LockIsReleased
CHECK_DEADLOCK FALSE
