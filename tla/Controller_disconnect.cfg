CONSTANTS
  MeshNodes = 4
  NumNodes = 2
  MaxPid = 4
  MaxLines = 2
SPECIFICATION ControllerSpec
INVARIANT ClientsMayDisconnect
