CONSTANTS
  ConsecutiveFailures = 1
  WindowSize = 1
  RateNum = 1
  RateDen = 1
  HalfOpenProbeInterval = 1
  NumBackends = 2
  Prefer = 2
  MinSamples = 1
  r1 = r1
  r2 = r2
  Requests = {r1}
  TTFTs = {0, 1}
  DefaultCooldowns = {1}
  RetryAfters = {0}
  MaxTime = 4
SPECIFICATION FairRouterSpec
PROPERTIES
  Failback
