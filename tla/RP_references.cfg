SPECIFICATION FairSpec
CONSTANTS
  Nobody = Nobody
  QueueSize = 2
  MaxFrames = 4
CHECK_DEADLOCK FALSE
INVARIANTS TypeOK
PROPERTIES ConduitSpec TapNeverBlocks ReferencesArrive CloseEndsLoop
