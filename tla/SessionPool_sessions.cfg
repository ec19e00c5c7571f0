CONSTANTS
  v1 = v1
  v2 = v2
  d1 = d1
  d2 = d2
  Vans <- VansTwo
  Devices <- DevicesTwo
  Keepalive = 2
  SessionTimeout = 3
  Base = 1
  Cap = 3
  MaxAttempts = 3
  MaxLag = 2
SPECIFICATION FairPoolSpec
INVARIANT ObserversInStep
PROPERTIES
  IdleOnlyWhenDead
  KeepsContract
  SilenceIsNoticed
  AnsweringVanRecovers
