SPECIFICATION FairSpec
CONSTANTS
  Senders = {s1}
  Nobody = Nobody
  UplinkCapacity = 1
  InboxSize = 1
CHECK_DEADLOCK FALSE
INVARIANTS TypeOK ClosedMeansDisconnected
PROPERTIES WritersGetTheirTurn ReaderReturns CloseEndsConnection
