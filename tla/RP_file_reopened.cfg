SPECIFICATION Spec
CONSTANTS
  Nobody = Nobody
  QueueSize = 1
  MaxFrames = 1
CHECK_DEADLOCK FALSE
INVARIANTS FilesReleased
