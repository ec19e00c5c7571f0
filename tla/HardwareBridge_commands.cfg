CONSTANTS
  Pids = {1, 2}
  MaxSubs = 2
  Timeout = 1
SPECIFICATION FairBridgeSpec
INVARIANTS
  NoneLeftBehind
  SuccessIsReal
  CancelHitsItsChild
PROPERTY EveryCallReturns
