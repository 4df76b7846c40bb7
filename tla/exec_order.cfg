CONSTANTS
  o1 = o1
  o2 = o2
  t1 = t1
  t2 = t2
  Orders = {o1}
  Trades = {t1, t2}
  FilledOrders <- OneOrderFills
  Qty <- OneOrderQty
  SingleOrders = {o1}
  OrderLists <- NoLists
  VenueStatuses = {"MINED", "CONFIRMED", "RETRYING", "FAILED"}
  ProcessedTradesLimit = 10
  MaxResends = 0
  Faults = {}
SPECIFICATION Spec
CHECK_DEADLOCK FALSE
SYMMETRY TradeSymmetry
INVARIANTS NoWaiterStranded SettledAgreement
PROPERTY LedgerSpec
