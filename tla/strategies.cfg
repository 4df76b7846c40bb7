CONSTANTS
  Kinds <- AllKinds
  Configs <- MCConfigs
  Ticks <- MCTicks
  FillPrices = {40, 80}
  StartCash = 1500000
  Levels = 2
  Faults = {"deny"}
  MaxTicks = 5
SPECIFICATION Spec
INVARIANTS
  OrdersBounded
  SumsFollowPosition
PROPERTIES
  PendingClears
CHECK_DEADLOCK FALSE
