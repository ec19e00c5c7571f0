CONSTANTS
  MeshNodes = 3
  Preset = "linear"
  MaxBorn = 1
  MaxFrames = 1
  MaxDelay = 1
  MaxChanges = 2
SPECIFICATION FairBrokerSpec
INVARIANTS
  EveryCopyHasOneFate
  DropsAreAttributed
PROPERTY StartedAreAccepted
CHECK_DEADLOCK FALSE
