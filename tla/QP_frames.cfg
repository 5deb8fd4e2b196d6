SPECIFICATION FairSpec
CONSTANTS
  NStages = 2
  Capacity = 1
  MaxFrames = 3
  Strategies = {"drop", "continue", "close_session"}
  Producers = {p1}
CHECK_DEADLOCK FALSE
INVARIANTS TypeOK FifoOrder Conservation Accounting
PROPERTIES ConduitSpec EverySettled PushReturns CloseEndsGoroutines
