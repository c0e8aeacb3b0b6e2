CONSTANTS
  ConsecutiveFailures = 3
  WindowSize = 5
  RateNum = 3
  RateDen = 5
  HalfOpenProbeInterval = 1
  NumBackends = 2
  Prefer = 1
  MinSamples = 1
  r1 = r1
  r2 = r2
  Requests <- MCRequests
  TTFTs = {0}
  DefaultCooldowns = {1}
  RetryAfters = {0, 3}
  MaxTime = 5
SPECIFICATION MonitorSpec
INVARIANT RetryAfterHonoured
