CONSTANTS
  v1 = v1
  Vans <- VansOne
  MaxRules = 2
  Interval <- Intervals
  Fallback = 1
  MaxMissed = 2
  SinceCap = 3
  MaxSubs = 4
  MaxLag = 1
SPECIFICATION SubsSpec
PROPERTY SubscriptionsHaveNoTimeout
