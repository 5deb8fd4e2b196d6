SPECIFICATION Spec
CONSTANTS
  TargetRate = 3
  StreamRate = 3
  StreamChannels = 1
  Rates <- MCRates
  Channels <- MCChannels
  Levels <- MCLevels
  Samples <- MCAllSamples
  MaxSamples = 5
CHECK_DEADLOCK FALSE
INVARIANTS TypeOK RefusedAtEdge DurationKept SamplesInTime MixUnbiased ClientHearsReference ServiceGetsSaved CodecMirrors
