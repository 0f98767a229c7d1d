CONSTANTS
  c1 = c1
  p1 = p1
  e1 = e1
  e2 = e2
  Conn = {c1}
  Port = {p1}
  Ep = {e1, e2}
  ENDPOINTS <- TwoEndpoints
  Methods = {"split_seq", "delayed_retry"}
  SeqMod = 1
  None = None
SPECIFICATION HFairSpec
CHECK_DEADLOCK FALSE
INVARIANTS
  FirstEndpointObserved
PROPERTIES
  HandleTerminates
  InjectorReturns
  JobTerminates
