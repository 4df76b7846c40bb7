------------------------ MODULE MCPolymarketReports -------------------------
(* A small instance of PolymarketReports for TLC: three orders, two of them *)
(* on both sides of one market; one instrument the cache does not hold.     *)
EXTENDS PolymarketReports, TLC

MCInstrumentOf == <<1, 2, 3>>
MCConditionOf == <<1, 1, 2, 3>>
=============================================================================
