CONSTANTS
  Threads = {t1, t2, t3}
  NoThread = NoThread
  BUFFERS_IN_QUEUE = 2
SPECIFICATION QueueSpec
SYMMETRY ThreadSymmetry
INVARIANTS
  QueueTypeOK
  BuffersConserved
  NoLostReturn
