CONSTANTS
  Processes = {a, b}
  NoSegment = NoSegment
  Chunks = 1
  BUFFERS_IN_QUEUE = 1
  WithoutSource = {}
  LosesSource = {}
  Observed = FALSE
  Killable = {}
SPECIFICATION SessionSpec
INVARIANT FirstIsReader
CHECK_DEADLOCK FALSE
