\* When every request is done nothing is left to do.
CHECK_DEADLOCK FALSE
CONSTANTS
  ConsecutiveFailures = 1
  WindowSize = 1
  RateNum = 1
  RateDen = 1
  HalfOpenProbeInterval = 1
  NumBackends = 2
  Prefer = 1
  MinSamples = 1
  r1 = r1
  r2 = r2
  Requests = {r1}
  TTFTs = {0, 1}
  DefaultCooldowns = {1}
  RetryAfters = {0, 2}
  MaxTime = 5
  Unset = Unset
  Default <- MCDefault
  Scale = 4
  Global <- Generous
  Overrides <- Impatient
  UpstreamFailures = {"rate_limited", "timeout", "auth_failed", "bad_request", "upstream_error"}
SPECIFICATION Spec
INVARIANTS
  StreamTypeOK
  EveryAttemptReported
  TimersWithinBudget
PROPERTIES
  NoRetryAfterToken
  RequestEnds
