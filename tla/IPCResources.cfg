CONSTANTS
  Processes = {a, b}
  NoSegment = NoSegment
  Chunks = 1
  BUFFERS_IN_QUEUE = 1
  WithoutSource = {}
  LosesSource = {}
  Observed = FALSE
  Killable = {}
SPECIFICATION SessionSpec
INVARIANT ResourcesAreReady
CHECK_DEADLOCK FALSE
