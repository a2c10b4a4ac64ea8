CONSTANTS
  Processes = {a, b, c}
  NoSegment = NoSegment
  Chunks = 2
  BUFFERS_IN_QUEUE = 2
  WithoutSource = {b}
  LosesSource = {c}
  Observed = TRUE
  Killable = {a}
SPECIFICATION SessionSpec
INVARIANTS
  SessionTypeOK
  CountersAreTrue
  NoSegmentLeaks
  PairCopies
  PairKeepsName
CHECK_DEADLOCK FALSE
