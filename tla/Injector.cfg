CONSTANTS
  c1 = c1
  c2 = c2
  p1 = p1
  e1 = e1
  e2 = e2
  Conn = {c1, c2}
  Port = {p1}
  Ep = {e1, e2}
  Methods = {"split_seq", "fragmented", "delayed_retry"}
  SeqMod = 2
  None = None
  NarrowEp = e1
  NarrowMethod = "delayed_retry"
SPECIFICATION Spec
SYMMETRY ConnSymmetry
CONSTRAINT Small
CHECK_DEADLOCK FALSE
INVARIANTS
  SuccessIsEarned
  OneJob
  KeyedById
  NoLeak
  GaugesBounded
PROPERTIES
  NoFakeAfterVerdict
  ImplementsBypass
  SequenceStable
