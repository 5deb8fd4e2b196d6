SPECIFICATION Spec
CONSTANTS
  MaxGen = 2
  MaxCancel = 0
  DownlinkCapacity = 1
CHECK_DEADLOCK FALSE
INVARIANTS TextInTurn
