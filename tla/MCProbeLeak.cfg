\* When every request is done nothing is left to do.
CHECK_DEADLOCK FALSE
CONSTANTS
  ConsecutiveFailures = 1
  WindowSize = 1
  RateNum = 1
  RateDen = 1
  HalfOpenProbeInterval = 1
  NumBackends = 2
  Prefer = 1
  MinSamples = 1
  r1 = r1
  r2 = r2
  Requests <- MCRequests
  TTFTs = {0}
  DefaultCooldowns = {1}
  RetryAfters = {0}
  MaxTime = 3
  Unset = Unset
  Default <- MCDefault
  Scale = 4
  Global <- Plain
  Overrides <- NoOverrides
  UpstreamFailures = {"upstream_error"}
SPECIFICATION SafeSpec
INVARIANT SelectableAgain
