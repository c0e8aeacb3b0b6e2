CONSTANTS
  ConsecutiveFailures = 1
  WindowSize = 1
  RateNum = 1
  RateDen = 1
  HalfOpenProbeInterval = 1
  NumBackends = 2
  Prefer = 2
  MinSamples = 1
  r1 = r1
  r2 = r2
  Requests = {r1, r2}
  TTFTs = {0}
  DefaultCooldowns = {1}
  RetryAfters = {0}
  MaxTime = 2
VIEW WhatMatters
SPECIFICATION FairRouterSpec
INVARIANTS
  RouterTypeOK
  ProbeOwned
PROPERTIES
  Failback
