-------------------------------- MODULE Fills -------------------------------
(***************************************************************************)
(* What a simulated fill costs: the fees of the two venues and the books   *)
(* the fill models put before an order (adapters/polymarket/fee_model.py,  *)
(* adapters/polymarket/parsing.py, adapters/kalshi/fee_model.py,           *)
(* adapters/kalshi/providers.py, adapters/kalshi/fill_model.py,            *)
(* adapters/prediction_market/fill_model.py).                              *)
(*                                                                         *)
(* Prices are in cents, rates in basis points, percentages in percent.     *)
(***************************************************************************)
EXTENDS Integers, Sequences

CeilDiv(n, d) == (n + d - 1) \div d

\* Rounds half up.
RoundDiv(n, d) == (2 * n + d) \div (2 * d)

\* rate x quantity x p x (1 - p), in millionths of a cent
Earnings(quantity, price, rate) == rate * quantity * price * (100 - price)

\* calculate_kalshi_commission, KalshiProportionalFeeModel.get_commission: whole cents, up.
KalshiCommission(quantity, price, rate) ==
  IF rate <= 0 \/ price <= 0 \/ price >= 100 THEN 0 ELSE CeilDiv(Earnings(quantity, price, rate), 1000000)

\* The rate of an instrument counts unless it is 0: then the model's does.
KalshiFeeRate(instrument, modelRate) ==
  IF instrument.taker_fee > 0 THEN instrument.taker_fee ELSE modelRate

\* calculate_commission: thousandths of a cent, half up; a maker pays as a taker does.
PolymarketCommission(quantity, price, rate) ==
  IF rate <= 0 THEN 0 ELSE RoundDiv(Earnings(quantity, price, rate), 1000)

\* What a fill costs, in cents; the engine's account rounds it to its currency (external).
Commission(instrument, modelRate, quantity, price) ==
  IF instrument.venue = "KALSHI"
  THEN KalshiCommission(quantity, price, KalshiFeeRate(instrument, modelRate))
  ELSE RoundDiv(PolymarketCommission(quantity, price, instrument.taker_fee), 1000)
-----------------------------------------------------------------------------
Least(a, b) == IF a < b THEN a ELSE b
Most(a, b)  == IF a > b THEN a ELSE b

\* effective_prediction_market_slippage_tick
SlippageTick(instrument) == IF instrument.venue = "KALSHI" THEN 1 ELSE instrument.tick

TakerFillModel(ticks, entryPct, exitPct) == [model |-> "taker", ticks |-> ticks, entry |-> entryPct, exit |-> exitPct]
SpreadFillModel(median, thin) == [model |-> "spread", median |-> median, thin |-> thin]

\* The constructors refuse anything else.
FillModelValid(m) ==
  IF m.model = "taker" THEN m.ticks >= 0 /\ m.entry >= 0 /\ m.exit >= 0
  ELSE m.median >= 0 /\ m.thin >= m.median

\* What a price moves against the taker: ticks and a share of the price, or half the spread.
Shift(m, instrument, side, price) ==
  IF m.model = "taker"
  THEN m.ticks * SlippageTick(instrument) + RoundDiv(price * (IF side = "buy" THEN m.entry ELSE m.exit), 100)
  ELSE m.median \div 2

\* get_orderbook_for_fill_simulation for a market order
SimulatedBook(m, instrument, side, bid, ask) ==
  [ask |-> Least(100, ask + Shift(m, instrument, side, ask)),
   bid |-> Most(0, bid - Shift(m, instrument, side, bid))]

\* The engine fills a market order at the far side of the book it is given, a limit order
\* at its own price (external).
FillPrice(m, instrument, order, bid, ask) ==
  CASE order.type = "limit" -> order.price
    [] order.type = "market" /\ order.side = "buy"  -> SimulatedBook(m, instrument, "buy", bid, ask).ask
    [] OTHER                                        -> SimulatedBook(m, instrument, "sell", bid, ask).bid
=============================================================================
