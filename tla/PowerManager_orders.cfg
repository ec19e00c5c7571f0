CONSTANTS
  br = br
  relay = relay
  s1 = s1
  s2 = s2
  Nodes <- VanNodes
  Priority <- VanPriority
  Lives <- BatteryLives
  BootStep = 1
  LongestLag = 3
  v1 = v1
  Vans <- VansOne
  MaxRules = 2
  Interval <- Intervals
  Fallback = 1
  MaxMissed = 2
  SinceCap = 3
  MaxSubs = 4
  MaxLag = 1
SPECIFICATION FleetSpec
INVARIANTS
  SystemMatchesNodes
  ShutdownInOrder
  RecordsOwnProcesses
PROPERTIES
  BatteryIsEnough
  TransitionsEnd
  DeadAreNoticed
