--------------------------- MODULE MCExperiments ----------------------------
(***************************************************************************)
(* Two markets, one of them with two tokens.  The search has three trials, *)
(* one of the train and one of the holdout windows, and two finalists.     *)
(***************************************************************************)
EXTENDS Experiments

\* An hour of history before the clock of 4: "quiet" has a single record.
HistoryDef ==
  (<<"m", 0>> :> <<[kind |-> "quote", ts |-> 0, price |-> 40], [kind |-> "quote", ts |-> 2, price |-> 60],
                   [kind |-> "quote", ts |-> 4, price |-> 50]>>)
  @@ (<<"m", 1>> :> <<[kind |-> "quote", ts |-> 2, price |-> 60], [kind |-> "quote", ts |-> 4, price |-> 40]>>)
  @@ (<<"quiet", 0>> :> <<[kind |-> "quote", ts |-> 3, price |-> 50]>>)

Replay(market, token, start, lookback) ==
  [adapter |-> PolymarketPMXTQuoteReplayAdapter, market |-> market, token |-> token,
   start |-> start, end |-> None, lookback |-> lookback]

PortfoliosDef ==
  {<<Replay("m", 0, 1, None)>>,                              \* one
   <<Replay("m", 0, None, 2), Replay("quiet", 0, 1, None)>>, \* the window from the lookback
   <<Replay("m", 0, 1, None), Replay("m", 1, 1, None)>>,     \* two tokens of a market
   <<Replay("m", 0, 1, None), Replay("quiet", 0, 4, None)>>} \* a window that is none

BaseReplaysDef == <<Replay("m", 0, None, None), Replay("quiet", 0, None, None)>>
Period(start, end) == [start |-> start, end |-> end]
PeriodsDef == [train |-> <<Period(2, 4)>>, holdout |-> <<Period(3, 4)>>]
RequestDef == [end |-> None, lookback |-> None, min_count |-> 1, min_range |-> 0]

GridDef == <<<<1, 2, 2, 3>>>>
InvalidScoreDef == -100000
Engine(fills, end, forced) == [fills |-> fills, end |-> end, forced |-> forced]
EngineRunsDef == {Engine(0, None, TRUE), Engine(0, None, FALSE), Engine(1, 3, FALSE), Engine(1, 4, FALSE)}
StrategyConfigsDef == <<"primary", "all">>
AccountsDef == {[pnl |-> 1, equity |-> <<<<2, 10>>, <<3, 8>>, <<4, 11>>>>]}
=============================================================================
