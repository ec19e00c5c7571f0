CONSTANTS
  MeshNodes = 4
  NumNodes = 2
  MaxPid = 4
  MaxLines = 2
SPECIFICATION FairControllerSpec
INVARIANTS
  OneProcessPerNode
  NoneOutlivesTheShutdown
  RoutesAreShortest
PROPERTY SignalEnds
