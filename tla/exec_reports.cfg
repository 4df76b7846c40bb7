SPECIFICATION ReportsSpec
CONSTANTS
  VenueOrders = {1, 2, 3}
  Own = {1, 3}
  InstrumentOf <- MCInstrumentOf
  ConditionOf <- MCConditionOf
  Cached = {1, 2}
  MaxTrades = 2
  OrderSize = 2
  History = {TRUE, FALSE}
  Jobs = {"orders", "fills", "data positions", "clob positions"}
  PageSize = 1
  MaxOffset = 2
  MaxHeld = 2
  MaxMoves = 2
INVARIANT FillsCountedOnce
INVARIANT KnownOnceReported
 
CHECK_DEADLOCK FALSE
