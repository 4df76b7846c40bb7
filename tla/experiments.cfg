SPECIFICATION Spec
CONSTANTS
  WorkerFaults = {"start", "die", "exit", "pickle"}
  Grid <- GridDef
  Sampler = "random"
  MaxTrials = 3
  HoldoutTopK = 2
  MinFills = 1
  Cash = 10
  TrainWindows = 1
  HoldoutWindows = 1
  Markets = 2
  InvalidScore <- InvalidScoreDef
  Kinds = {"search", "independent", "joint"}
  Portfolios <- PortfoliosDef
  BaseReplays <- BaseReplaysDef
  Periods <- PeriodsDef
  StrategyConfigs <- StrategyConfigsDef
  Request <- RequestDef
  Now = 4
  History <- HistoryDef
  EngineRuns <- EngineRunsDef
  Accounts <- AccountsDef
INVARIANTS AnswersWhole BestIsBest ResultsOwn
PROPERTY ExperimentEnds
CHECK_DEADLOCK FALSE
