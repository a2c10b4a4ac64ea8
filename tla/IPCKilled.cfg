CONSTANTS
  Processes = {a, b}
  NoSegment = NoSegment
  Chunks = 1
  BUFFERS_IN_QUEUE = 1
  WithoutSource = {}
  LosesSource = {}
  Observed = TRUE
  Killable = {a, b}
SPECIFICATION SessionSpec
INVARIANT NoSegmentLeft
CHECK_DEADLOCK FALSE
