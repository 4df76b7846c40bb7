--------------------------- MODULE StrategyFlags ----------------------------
(***************************************************************************)
(* The strategies that do their own order plumbing: btc_ofi_15m.py,        *)
(* btc_ofi_ma.py, nba_mispricing.py, nba_q4_totals.py,                     *)
(* ncaab_totals_rating.py, nba_fair_value.py.  They do not ask the         *)
(* portfolio: what they hold is a flag their fill handlers keep, each in   *)
(* its own way.                                                            *)
(*                                                                         *)
(* Prices are whole cents; a fair value is a fraction num / den of a       *)
(* dollar.  A decision is [mem, do, qty].                                  *)
(***************************************************************************)
EXTENDS StrategySignals

Stay(m) == [mem |-> m, do |-> "hold", qty |-> 0]
Order(m, side, qty) == [mem |-> m, do |-> side, qty |-> qty]
Close(m) == [mem |-> m, do |-> "exit", qty |-> 0]

\* int(min(kelly * fraction, cap) * 100), at least one contract: c.kelly and c.cap are
\* hundredths, cents is the price of what is bought.
KellySize(c, num, den, cents) ==
  LET edge == 100 * num - cents * den
  IN  IF cents <= 0 \/ cents >= 100 \/ edge <= 0 THEN 1
      ELSE Max({1, Min({c.cap, (edge * (100 - cents) * c.kelly) \div (100 * den * cents)})})

\* round(): a half goes to the even neighbour.
Rounded(num, den) ==
  LET q == num \div den
      r == 2 * (num % den)
  IN  IF r > den \/ (r = den /\ q % 2 = 1) THEN q + 1 ELSE q
-----------------------------------------------------------------------------
(* btc_ofi_15m.py                                                          *)

OfiStart(c) ==
  [window |-> <<>>, inPos |-> FALSE, entry |-> None, side |-> "none",
   losses |-> 0, halted |-> FALSE, cooldown |-> 0]

\* _update_ofi: +1, -1 or 0 by the aggressor, and the cooldown counts down.
OfiUpdate(c, m, tick) ==
  [m EXCEPT !.window = Push(m.window, tick.aggressor, c.window), !.cooldown = Positive(@ - 1)]

\* The fair value of YES from the imbalance: one half, and half of what goes beyond the
\* threshold, with the last five cents out of reach.
OfiFair(c, imbalance, length) ==
  LET over == 100 * length + (100 * imbalance - c.ofi * length)
  IN  IF over > 190 * length THEN [num |-> 95, den |-> 100] ELSE [num |-> over, den |-> 200 * length]

\* Buy on the bullish side when YES is cheap, sell on the bearish side when it is dear.
OfiEntry(c, m, price, bull, bear) ==
  LET n   == Len(m.window)
      ofi == Sum(m.window)
      up  == OfiFair(c, ofi, n)
      down == OfiFair(c, -ofi, n)
      edge(fair, cents) == Rounded(100 * fair.num, fair.den) - cents
  IN  IF bull /\ 100 * ofi > c.ofi * n /\ price < 50
      THEN IF edge(up, price) >= c.minEdge
           THEN Order(m, "buy", KellySize(c, up.num, up.den, price)) ELSE Stay(m)
      ELSE IF bear /\ 100 * ofi < -(c.ofi * n) /\ price > 50 /\ edge(down, 100 - price) >= c.minEdge
      THEN Order(m, "sell", KellySize(c, down.num, down.den, 100 - price))
      ELSE Stay(m)

OfiQuiet(c, m, price, v) ==
  \/ v.pending \/ m.inPos \/ m.halted \/ m.cooldown > 0
  \/ Len(m.window) < c.window \/ price > c.maxEntry

BTCOfi15m(c, m, tick, v) ==
  LET seen == OfiUpdate(c, m, tick)
  IN  IF OfiQuiet(c, seen, tick.bid, v) THEN Stay(seen) ELSE OfiEntry(c, seen, tick.bid, TRUE, TRUE)

\* The first fill is the entry and the next one the exit, whatever orders they belong to.
OfiOnFill(c, m, side, price) ==
  IF ~m.inPos THEN [m EXCEPT !.inPos = TRUE, !.entry = price, !.side = side]
  ELSE LET lost   == m.entry # None /\ (IF m.side = "buy" THEN price < m.entry ELSE price > m.entry)
           losses == IF m.entry = None THEN m.losses ELSE IF lost THEN m.losses + 1 ELSE 0
       IN  [m EXCEPT !.inPos = FALSE, !.entry = None, !.side = "none", !.losses = losses,
                     !.halted = @ \/ (lost /\ losses >= c.maxLosses), !.cooldown = c.cooldown]
-----------------------------------------------------------------------------
(* btc_ofi_ma.py: the same over a regime of two averages and a z-score     *)

\* The imbalances of the last ticks are kept as OfiUnit'ths.
OfiUnit == 12

OfiMaStart(c) ==
  [ofi |-> OfiStart(c), history |-> <<>>, fast |-> None, slow |-> None]

OfiMaUpdate(c, m, tick) ==
  LET ofi   == OfiUpdate(c, m.ofi, tick)
      value == (OfiUnit * Sum(ofi.window)) \div Len(ofi.window)
      first == m.fast = None
  IN  [ofi     |-> ofi,
       history |-> Push(m.history, value, c.window),
       fast    |-> IF first THEN tick.bid * EmaUnit ELSE Ema(m.fast, tick.bid, c.fast),
       slow    |-> IF first THEN tick.bid * EmaUnit ELSE Ema(m.slow, tick.bid, c.slow)]

\* |z| > c.maxZ tenths, z the distance of the last imbalance from the mean in deviations.
ZScoreTooLarge(c, history) ==
  LET n == Len(history)
      distance == n * Last(history) - Sum(history)
      spread   == n * Sum([i \in 1 .. n |-> history[i] * history[i]]) - Sum(history) * Sum(history)
  IN  n >= 2 /\ 100 * distance * distance > c.maxZ * c.maxZ * spread

BTCOfiMa(c, m, tick, v) ==
  LET seen == OfiMaUpdate(c, m, tick)
      decision == OfiEntry(c, seen.ofi, tick.bid, seen.fast > seen.slow, seen.fast <= seen.slow)
  IN  IF OfiQuiet(c, seen.ofi, tick.bid, v) \/ ZScoreTooLarge(c, seen.history) THEN Stay(seen)
      ELSE [decision EXCEPT !.mem = seen]

OfiMaOnFill(c, m, side, price) == [m EXCEPT !.ofi = OfiOnFill(c, @, side, price)]
-----------------------------------------------------------------------------
(* nba_mispricing.py: ticks counts the ticks, lastEntry is the last entry's *)

MispricingStart(c) ==
  [prices |-> <<>>, inPos |-> FALSE, entry |-> None, side |-> "none", before |-> None,
   ticks |-> 0, lastEntry |-> 0, entries |-> 0]

\* _detect_impulse: the change over a full window, 0 when it is below the threshold.
Impulse(c, prices) ==
  LET change == Last(prices) - Head(prices)
  IN  IF Len(prices) = c.window /\ (change >= c.impulse \/ change <= -c.impulse) THEN change ELSE 0

\* _kelly_size of the impulse: the edge is its size, the odds are even.
ImpulseSize(c, impulse) == Max({1, Min({c.cap, (impulse * c.kelly) \div 100})})

\* _should_exit: back where it was before the impulse, less a discount, but a cent ahead.
Converged(c, m, price) ==
  /\ m.before # None /\ m.entry # None
  /\ IF m.side = "buy" THEN price >= Max({m.before - c.discount, m.entry + 1})
                       ELSE price <= Min({m.before + c.discount, m.entry - 1})

\* Against the impulse: a dump is bought, a pump is sold.
NBAMispricing(c, m, tick, v) ==
  LET price   == tick.bid
      seen    == [m EXCEPT !.prices = Push(@, price, c.window), !.ticks = @ + 1]
      impulse == Impulse(c, seen.prices)
      size    == IF impulse < 0 THEN -impulse ELSE impulse
  IN  IF v.pending THEN Stay(seen)
      ELSE IF m.inPos /\ m.entry # None
      THEN IF Converged(c, seen, price) THEN Close(seen) ELSE Stay(seen)
      ELSE IF \/ seen.ticks - seen.lastEntry < c.cooldown \/ seen.entries >= c.maxPositions
              \/ price > c.maxEntry \/ price < 100 - c.maxEntry
              \/ impulse = 0 \/ size < c.minEdge
      THEN Stay(seen)
      ELSE Order([seen EXCEPT !.before = Head(seen.prices)],
                 IF impulse < 0 THEN "buy" ELSE "sell", ImpulseSize(c, size))

MispricingOnFill(c, m, side, price) ==
  IF ~m.inPos
  THEN [m EXCEPT !.inPos = TRUE, !.entry = price, !.side = side,
                 !.lastEntry = m.ticks, !.entries = @ + 1]
  ELSE [m EXCEPT !.inPos = FALSE, !.entry = None, !.side = "none", !.before = None]
-----------------------------------------------------------------------------
(* nba_q4_totals.py                                                        *)

Q4TotalsStart(c) == [prices |-> <<>>, count |-> 0]

\* _detect_spike: over the window before this price.
Spike(c, prices, price) == Len(prices) >= c.window /\ price - Head(prices) >= c.spike

\* YES only, in the sweet spot; the fair value is the price and the drift expected of it.
NBAQ4Totals(c, m, tick, v) ==
  LET price == tick.bid
      seen  == [m EXCEPT !.prices = Push(@, price, c.window)]
      fair  == Min({price + c.drift, 99})
  IN  IF \/ v.pending \/ m.count >= c.maxPositions \/ ~Spike(c, m.prices, price)
         \/ price < c.minEntry \/ price > c.maxEntry \/ fair - price < c.minEdge
      THEN Stay(seen)
      ELSE Order(seen, "buy", KellySize(c, fair, 100, price))

Q4TotalsOnFill(c, m, side) ==
  [m EXCEPT !.count = IF side = "buy" THEN @ + 1 ELSE Positive(@ - 1)]
-----------------------------------------------------------------------------
(* ncaab_totals_rating.py, nba_fair_value.py: c.over and c.fair are the    *)
(* probabilities their ratings files give, in cents, and None without one  *)

FlagStart(c) == [inPos |-> FALSE, entry |-> None]

\* on_trade_tick: the side the predicted total is on, bought at the market.
NCAABTotals(c, m, tick, v) ==
  LET price == tick.bid
  IN  IF v.pending \/ m.inPos \/ c.edge = None \/ c.edge < c.minEdge \/ price > c.maxEntry THEN Stay(m)
      ELSE IF c.over >= 50 THEN Order(m, "buy", KellySize(c, c.over, 100, price))
      ELSE Order(m, "sell", KellySize(c, 100 - c.over, 100, 100 - price))

NCAABOnFill(m) == [m EXCEPT !.inPos = TRUE]

\* on_trade_tick: the exit does not look at whether one is pending.
NBAFairValue(c, m, tick, v) ==
  LET price == tick.bid
  IN  IF v.pending \/ m.inPos
      THEN IF m.inPos /\ m.entry # None /\ price >= Max({c.fair - c.discount, m.entry + 1})
           THEN Close(m) ELSE Stay(m)
      ELSE IF c.fair = None \/ c.fair - price < c.minEdge \/ c.fair <= price \/ price > c.maxEntry
      THEN Stay(m)
      ELSE Order(m, "buy", KellySize(c, c.fair, 100, price))

FairValueOnFill(m, side, price) ==
  IF side = "buy" THEN [inPos |-> TRUE, entry |-> price] ELSE [inPos |-> FALSE, entry |-> None]
=============================================================================
