CONSTANTS
  Processes = {a, b, c}
  NoSegment = NoSegment
  Chunks = 1
  BUFFERS_IN_QUEUE = 1
  WithoutSource = {}
  LosesSource = {}
  Observed = FALSE
  Killable = {}
SPECIFICATION SessionSpec
PROPERTY RemovedOnlyUnused
CHECK_DEADLOCK FALSE
