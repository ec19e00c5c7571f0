CONSTANTS
  Vans = {v1, v2}
  Devices = {d1}
  Clients = {c1}
  MaxVans = 1
  MaxTenants = 2
  MaxOps = 4
SPECIFICATION FairGatewaySpec
PROPERTY KeepaliveGoesOn
CHECK_DEADLOCK FALSE
