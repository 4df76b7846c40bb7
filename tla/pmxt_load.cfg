SPECIFICATION Spec
CONSTANTS
  local = local  r2v2 = r2v2  r2 = r2
  NumHours = 3
  Sources = {local, r2v2, r2}
  Configs <- MCConfigs
  Holdings <- MCHoldings
  CacheFiles = {"bad"}
  Faults = {"fetch", "cache_write", "kill"}
  MaxLoads = 2
  WindowStart = 25
  WindowEnd = 35
  Tapes <- MCTapes
INVARIANTS
  FirstSourceWins
  MissConfirmed
  PrefetchBounded
  MatchesOnceSnapshot
PROPERTIES
  LoadEnds
CHECK_DEADLOCK FALSE
