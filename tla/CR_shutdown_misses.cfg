SPECIFICATION Spec
CONSTANTS
  Conns = {c1}
  None = None
  Pending = Pending
CHECK_DEADLOCK FALSE
INVARIANTS ShutdownClosesAll
