CONSTANTS
  c1 = c1
  c2 = c2
  c3 = c3
  c4 = c4
  Conn = {c1, c2, c3, c4}
  REAL_METHODS = {m1, m2}
  MAX_CONNECTIONS = 2
  AUTO_MAX_FAILURES = 1
  AUTO_MAX_ATTEMPTS = 2
  m1 = m1
  m2 = m2
  None = None
SPECIFICATION Spec
SYMMETRY Symmetry
CHECK_DEADLOCK FALSE
INVARIANTS
  LimitHolds
