SPECIFICATION Spec
CONSTANTS
  local = local  r2v2 = r2v2  r2 = r2
  NumHours = 2
  Sources = {local, r2v2, r2}
  Configs <- RunnerConfigs
  Holdings <- SplitHoldings
  CacheFiles = {"absent"}
  Faults = {}
  MaxLoads = 1
  WindowStart = 25
  WindowEnd = 35
  Tapes = {}
INVARIANTS
  MissConfirmed
CHECK_DEADLOCK FALSE
