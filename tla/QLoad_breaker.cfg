\* Three callers race for two slots and on the atomics of breaker and timeout.
CONSTANTS
  c1 = c1
  c2 = c2
  c3 = c3
  Callers <- ThreeCallers
  Concurrency = 2
  MaxRetries = 1
  FailureThreshold = 2
  AdaptiveTimeout = TRUE
  Timeout = 6
  MinTarget = 2
  MaxBackoff = 4
  Durations <- Spans
  MaxFaults = 3
SPECIFICATION FairSpec
INVARIANTS
  TypeOK
  SlotsAccounted
  TripsAtThreshold
  OpenMeansFailing
  TimeoutInRange
PROPERTIES
  Recovers
  DialReturns
