CONSTANTS
  o1 = o1
  o2 = o2
  t1 = t1
  t2 = t2
  Orders = {o1, o2}
  Trades = {t1}
  FilledOrders <- SharedTradeFills
  Qty <- SharedTradeQty
  SingleOrders = {o1}
  OrderLists <- BothOrders
  VenueStatuses = {}
  ProcessedTradesLimit = 10
  MaxResends = 1
  Faults = {"no_response", "raise", "timeout"}
SPECIFICATION Spec
CHECK_DEADLOCK FALSE
INVARIANTS FillHandedOnce PostedOrdersResolved
PROPERTY SuppressedCancelCloses
