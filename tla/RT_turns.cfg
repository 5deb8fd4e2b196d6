SPECIFICATION FairSpec
CONSTANTS
  MaxGen = 2
  MaxCancel = 1
  DownlinkCapacity = 1
CHECK_DEADLOCK FALSE
INVARIANTS TypeOK CancelReachesLive TurnsBalanced TextBeforeAudio
PROPERTIES EveryGenerationEnds
