SPECIFICATION DataSpec
CONSTANTS
  Activities = {"search", "replay", "bars", "book"}
  Tape <- MCTape
  Printed = 5
  Start = 2
  End = 3
  PageSize = 2
  Ceiling = 4
  Second = 20
  Venues = {"POLYMARKET", "KALSHI"}
  FeeRates <- MCFeeRates
  Quotes = {50, 99}
  Jobs = {"analyze", "replay"}
  FillModels <- MCFillModels
  ModelRate = 700
  MaxFills = 2
  EntryPrice = 50
  MinTrades = 1
  MinRange = 0
  Catalog <- MCCatalog
  Kinds = {"live", "resolved", "games", "kalshi-live", "kalshi-resolved"}
  Series <- MCSeries
  PageLimit = 2
  MaxResults = 4
  MaxPages = 2
  CandidateLimit = 2
  Now = 10
  Within = 2
  Filters <- MCFilters
  GamesOnly = TRUE
  MaxChanges = 1
  Candles <- MCCandles
  BarStart = 1
  BarEnd = 6
  Chunk = 3
  MaxRetries = 1
  MinBars = 2
  MinBarRange = 10
  Books <- MCBooks
  FeedStart = 1
  FeedEnd = 5
  DayLength = 3
INVARIANT HistoryWhole
INVARIANT TicksOrdered
INVARIANT SettlementRight
INVARIANT FoundOnce
INVARIANT BookRebuilt
CHECK_DEADLOCK FALSE
