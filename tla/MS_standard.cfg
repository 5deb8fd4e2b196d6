SPECIFICATION Spec
CONSTANTS
  TargetRate = 3
  StreamRate = 3
  StreamChannels = 1
  Rates <- MCRates
  Channels <- MCChannels
  Levels <- MCLevels
  Samples <- MCSomeSamples
  MaxSamples = 0
CHECK_DEADLOCK FALSE
INVARIANTS FollowsStandard
