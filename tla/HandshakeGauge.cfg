CONSTANTS
  c1 = c1
  p1 = p1
  e1 = e1
  e2 = e2
  Conn = {c1}
  Port = {p1}
  Ep = {e1}
  ENDPOINTS <- OneEndpoint
  Methods = {"wrong_seq"}
  SeqMod = 1
  None = None
SPECIFICATION HSpec
CHECK_DEADLOCK FALSE
INVARIANTS
  ActiveReturnsToZero
