CONSTANTS
  MeshNodes = 2
  Preset = "full"
  MaxBorn = 2
  MaxFrames = 0
  MaxDelay = 0
  MaxChanges = 0
SPECIFICATION FairBrokerSpec
PROPERTY Reattaches
CHECK_DEADLOCK FALSE
