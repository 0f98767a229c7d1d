CONSTANTS
  c1 = c1
  c2 = c2
  Conn = {c1, c2}
  Chunks = {1}
  FLUSH_CHUNKS = 2
  THRESHOLD = 2
  ACTIVE_CAP = 1
  MaxBytes <- UnequalBytes
SPECIFICATION FairSpec
CHECK_DEADLOCK FALSE
INVARIANTS
  Accounted
  NoGhost
  FailIsEarned
PROPERTIES
  ClosedEndsBoth
  IdleEndsBoth
