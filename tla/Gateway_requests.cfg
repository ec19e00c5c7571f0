CONSTANTS
  v1 = v1
  v2 = v2
  c1 = c1
  c2 = c2
  Vans <- VansTwo
  Devices = {d1}
  Clients <- ClientsTwo
  MaxVans = 1
  MaxTenants = 2
  MaxOps = 4
  VanIds <- VansTwo
  Fleet = fleet
  PerVan = 2
  MaxTotal = 3
  MaxAge = 0
  Lead = 1
  MaxEvents = 4
SPECIFICATION ServerSpec
INVARIANTS
  CredentialsAreSound
  NoneSkipped
PROPERTIES
  DeletionReachesAll
  PushDropsTheOldest
  RequestsAreAnswered
  ClientsDoNotStopTime
CHECK_DEADLOCK FALSE
