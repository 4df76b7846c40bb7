---------------------------- MODULE MarketReplay ----------------------------
(***************************************************************************)
(* From the ticks of a market to the result of its replay                  *)
(* (adapters/polymarket/research.py, adapters/kalshi/research.py,          *)
(* backtesting/_backtest_runtime.py, backtesting/_result_policies.py).     *)
(* An analysis loads both sides and picks one; a replay loads one side,    *)
(* simulates the orders of a strategy over its ticks and settles what is   *)
(* left at the outcome the metadata tells.                                 *)
(*                                                                         *)
(* The strategy is anything that buys and sells one contract at a time;    *)
(* the engine (external) fills at once and keeps the account.              *)
(***************************************************************************)
EXTENDS TradeLoads, Fills, Settlement

CONSTANTS Jobs,        \* "analyze", "replay"
          FillModels,  \* the fill models considered
          ModelRate,   \* the rate of Kalshi's fee model, in basis points
          MaxFills,    \* bound of the model: fills of a replay
          EntryPrice,  \* entry_price of the analysis
          MinTrades, MinRange  \* what a history needs to be replayed

ASSUME ReplayAssumption ==
  /\ \A m \in FillModels :
       /\ FillModelValid(m)
       /\ (IF m.model = "taker" THEN {m.ticks, m.entry, m.exit} ELSE {m.median, m.thin}) \subseteq Int
  /\ ModelRate \in Int /\ FeeRates \subseteq Int

VARIABLES replay   \* the job: its sides analysed, its account and its fills, its result

NoResult == [pnl |-> 0, market_exit_pnl |-> None, realized_outcome |-> None, fill_events |-> <<>>]

ReplayInit ==
  /\ MarketInit
  /\ \E index \in DOMAIN Sides : load = Load(index)
  /\ \E job \in (IF load.index = 1 THEN Jobs ELSE Jobs \ {"analyze"}), model \in FillModels :
       replay = [job |-> job, pc |-> "load", snapshots |-> <<>>, pick |-> <<>>, model |-> model, at |-> 0,
                 cash |-> 0, position |-> 0, fills |-> <<>>, result |-> NoResult]

Go(fields) == replay' = [k \in DOMAIN replay |-> Get(fields, k, replay[k])]

LoadStep == replay.pc = "load" /\ LoadsNext /\ UNCHANGED replay
-----------------------------------------------------------------------------
(* analyze_market_trade_window                                              *)

\* The payload the analysis is given: the market closes at the end of the window.
AnalysedMarket ==
  [venue |-> market.venue, slug |-> "market", volumes |-> <<1, 1, 1>>, closes |-> <<End>>, starts |-> <<None>>,
   ends |-> <<End>>, status |-> "settled"]

Activation ==
  IF market.venue = "KALSHI" THEN 0 ELSE TradeWindow(AnalysedMarket, End - Start, End).from * Second

\* A side that cannot be loaded or has no trades is left out.
Analysed ==
  /\ replay.job = "analyze" /\ replay.pc = "load"
  /\ load.pc \in {"loaded", "failed"}
  /\ LET snapshots == IF load.ticks = <<>> THEN replay.snapshots
                      ELSE Append(replay.snapshots,
                                  SideSnapshot(AnalysedMarket, load.index, load.ticks, EntryPrice, Activation))
     IN  IF load.index < Len(Sides)
         THEN /\ Go([snapshots |-> snapshots])
              /\ load' = Load(load.index + 1)
         ELSE /\ Go([snapshots |-> snapshots, pc |-> "pick"])
              /\ UNCHANGED load
  /\ UNCHANGED market

\* Polymarket picks a side of a market, Kalshi a market of a game that has two.
Pick ==
  /\ replay.pc = "pick"
  /\ Go([pc |-> "done",
         pick |-> IF market.venue = "KALSHI"
                  THEN LET picks == BreakoutsPerGame(<<replay.snapshots>>, 1)
                       IN  [i \in DOMAIN picks |-> picks[i].chosen.side]
                  ELSE IF replay.snapshots = <<>> THEN <<>> ELSE <<PickSide(replay.snapshots).side>>])
  /\ UNCHANGED loadVars
-----------------------------------------------------------------------------
(* run_market_backtest                                                      *)

TickPrices == [i \in DOMAIN load.ticks |-> load.ticks[i].price]

\* load_market_trades: no loader without a history worth replaying.
Begin ==
  /\ replay.job = "replay" /\ replay.pc = "load"
  /\ load.pc \in {"loaded", "failed"}
  /\ Go([pc |-> IF load.pc = "loaded" /\ WorthReplaying(TickPrices, MinTrades, MinRange) THEN "run" ELSE "skipped",
         at |-> 1])
  /\ UNCHANGED loadVars

\* The strategy orders at the current tick; what the engine knows of the book is its price.
Order(side) ==
  /\ replay.pc = "run" /\ replay.at \in DOMAIN load.ticks
  /\ Len(replay.fills) < MaxFills
  /\ IF side = "buy" THEN replay.position = 0 ELSE replay.position > 0
  /\ \E type \in {"market", "limit"} :
       LET price == load.ticks[replay.at].price
           order == [type |-> type, side |-> side, price |-> price]
           paid  == FillPrice(replay.model, load.instrument, order, price, price)
           fee   == Commission(load.instrument, ModelRate, 1, paid)
           sign  == IF side = "buy" THEN 1 ELSE -1
       IN  Go([position |-> replay.position + sign, cash |-> replay.cash - sign * paid - fee,
               fills |-> Append(replay.fills, [action |-> side, price |-> paid, quantity |-> 1, commission |-> fee])])
  /\ UNCHANGED loadVars

NextTick ==
  /\ replay.pc = "run" /\ replay.at \in DOMAIN load.ticks
  /\ Go([at |-> replay.at + 1])
  /\ UNCHANGED loadVars

\* The result of the simulation, then BinarySettlementPnlPolicy.
Settle ==
  /\ replay.pc = "run" /\ replay.at \notin DOMAIN load.ticks
  /\ LET outcome == InferRealizedOutcome(load.instrument)
     IN  Go([pc |-> "done",
             result |-> WithSettlement(
               [pnl |-> RealizedPnl(<<replay.cash>>), market_exit_pnl |-> None, realized_outcome |-> outcome,
                fill_events |-> replay.fills])])
  /\ UNCHANGED loadVars

ReplayNext == LoadStep \/ Analysed \/ Pick \/ Begin \/ Order("buy") \/ Order("sell") \/ NextTick \/ Settle
-----------------------------------------------------------------------------
Knew(phase) == IF market.venue = "KALSHI" THEN load.details = phase ELSE phase \in {load.gamma, load.details}

\* Whether the side traded is the one that won
Won == market.winner = IF market.venue = "KALSHI" THEN Sides[load.index] ELSE load.instrument.outcome

\* The market was known as split, or Gamma showed even prices before it was resolved.
KnewEven == Knew("split") \/ (load.gamma \in {"open", "proposed"} /\ load.quote = 50)

\* A replay whose metadata knew the market as resolved settles at what the side it traded is
\* worth - in whatever order the two services list the sides, and whichever of them was asked
\* before the market was resolved - and its result is the account's cash and that worth of
\* what the account still holds, fees included.  One that knew the market as split, or saw even
\* prices before the market was resolved, has no outcome and keeps the result of the simulation.
SettlementRight ==
  replay.job = "replay" /\ replay.pc = "done" =>
    LET worth == IF Won THEN 100 ELSE 0
    IN  /\ KnewEven => /\ replay.result.realized_outcome = None
                       /\ replay.result.pnl = replay.cash /\ replay.result.market_exit_pnl = None
        /\ ~KnewEven /\ Knew("resolved") => /\ replay.result.realized_outcome = worth
                                            /\ replay.result.pnl = replay.cash + worth * replay.position
=============================================================================
