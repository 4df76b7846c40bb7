-------------------------- MODULE MCPolymarketExec --------------------------
(* Small instances of PolymarketExec for TLC. *)
EXTENDS PolymarketExec, TLC

CONSTANTS o1, o2, t1, t2

\* One order filled by two trades.
OneOrderFills == (t1 :> <<o1>>) @@ (t2 :> <<o1>>)
OneOrderQty == o1 :> 2

\* One trade that fills both orders.
SharedTradeFills == t1 :> <<o1, o2>>
SharedTradeQty == (o1 :> 2) @@ (o2 :> 1)

TradeSymmetry == Permutations({t1, t2})

NoLists == {}
BothOrders == {<<o1, o2>>}
=============================================================================
