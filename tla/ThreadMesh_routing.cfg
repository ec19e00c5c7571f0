CONSTANTS
  Routers = {0, 1, 2}
  Mesh <- AllInRange
  Start <- Chain
  Timeout = 2
  Infinite = 4
  MaxChanges = 2
SPECIFICATION FairMeshSpec
INVARIANT LostCarryNoRoute
PROPERTIES
  Converges
  HealingSettles
