SPECIFICATION Spec
CONSTANTS
  Conns = {c1, c2}
  None = None
  Pending = Pending
CHECK_DEADLOCK FALSE
INVARIANTS ConnectionHasSession
