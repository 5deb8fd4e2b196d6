SPECIFICATION FairSpec
CONSTANTS
  Conns = {c1, c2, c3}
  None = None
  Pending = Pending
CHECK_DEADLOCK FALSE
INVARIANTS TypeOK HandlerOwnsEntry RegisteredHasRemover
PROPERTIES SessionsEnd HandlersReturn
