\* The probe and a caller, alone and racing; a window that fills and wraps around.
CONSTANTS
  o1 = o1
  o2 = o2
  Observers <- TwoObservers
  Probe = o1
  NoSample = NoSample
  WindowSize = 3
  Percent = 60
  DegradedRTT = 1
  UnhealthyRTT = 2
  DegradedErr = 2
  UnhealthyErr = 10
  GoodRTT = 1
  BadSamples <- BadCalls
  MaxBad = 2
  MaxTrouble = 2
SPECIFICATION HealSpec
INVARIANTS
  PercentileIsNearestRank
  StateFollowsMetrics
PROPERTIES
  HealTakesHold
  HealingSettles
