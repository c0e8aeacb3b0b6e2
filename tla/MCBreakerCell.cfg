CONSTANTS
  ConsecutiveFailures = 2
  WindowSize = 3
  RateNum = 2
  RateDen = 3
  HalfOpenProbeInterval = 3
  Cooldowns = {0, 2}
  MaxSkew = 1
  MaxTime = 8
  MaxLog = 5
SPECIFICATION Spec
INVARIANTS
  TypeOK
  TripsInTime
  NeverStuckOpen
  EpisodesAreSeparate
  WindowFaithful
PROPERTIES
  NoEarlyExit
  ProbeSpacing
