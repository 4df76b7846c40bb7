-------------------------- MODULE StrategySignals ---------------------------
(***************************************************************************)
(* What the strategies built on strategies/core.py decide on a tick: for   *)
(* each a predicate on its configuration c, the memory m it starts with,   *)
(* its price handler, and what a fill changes in its memory.               *)
(*                                                                         *)
(* Prices are in cents, so are thresholds; averages are compared after     *)
(* multiplying by the length.  A tick is a trade, a bar or a quote:        *)
(* [bid, ask, size, quote] with bid = ask = the price unless it is a       *)
(* quote.  v is what the strategy sees of itself: pending, held (the       *)
(* portfolio is not flat), qty and cost (the sums over its entry fills).   *)
(***************************************************************************)
EXTENDS Integers, SequencesExt, Lists

None == -1

Sum(s) == SumFunction(s)
Positive(x) == IF x > 0 THEN x ELSE 0

\* deque(maxlen = length).append
Push(s, x, length) == IF Len(s) < length THEN Append(s, x) ELSE Append(Tail(s), x)

\* The prices a handler is given: the mid, what an entry would pay, the size on offer.
Seen(tick) ==
  [price   |-> (tick.bid + tick.ask) \div 2,
   entry   |-> tick.ask,
   visible |-> IF tick.quote THEN tick.size ELSE None,
   size    |-> tick.size]

\* _risk_exit, once in position: the average entry price is cost / qty.
RiskExit(c, price, v) ==
  /\ v.qty > 0
  /\ \/ c.tp > 0 /\ price * v.qty >= v.cost + c.tp * v.qty
     \/ c.sl > 0 /\ price * v.qty <= v.cost - c.sl * v.qty

\* The shape the handlers share: nothing while an order is pending, an entry when flat.
Choose(m, quiet, v, enter, leave) ==
  [mem |-> m,
   do  |-> IF quiet \/ v.pending THEN "hold"
           ELSE IF ~v.held THEN (IF enter THEN "enter" ELSE "hold")
           ELSE (IF leave THEN "exit" ELSE "hold")]

RiskChecked(c) == c.size > 0 /\ c.tp >= 0 /\ c.sl >= 0
-----------------------------------------------------------------------------
(* mean_reversion.py                                                       *)

MeanReversionConfig(c) == RiskChecked(c) /\ c.window > 0 /\ c.entry >= 0 /\ c.exit >= 0

MeanReversionStart(c) == [prices |-> <<>>]

MeanReversionOnPrice(c, m, s, v) ==
  LET prices == Push(m.prices, s.price, c.window)
      n      == Len(prices)
  IN  Choose([m EXCEPT !.prices = prices], n < c.window, v,
             s.price * n <= Sum(prices) - c.entry * n,
             RiskExit(c, s.price, v) \/ s.price * n >= Sum(prices) - c.exit * n)

MeanReversion(c, m, tick, v) == MeanReversionOnPrice(c, m, Seen(tick), v)
-----------------------------------------------------------------------------
(* ema_crossover.py.  An average is kept as a whole number of EmaUnit'ths. *)

EmaUnit == 64

EMACrossoverConfig(c) == c.fast > 0 /\ c.slow > 0

EMACrossoverStart(c) == [fast |-> None, slow |-> None, warmup |-> 0]

\* alpha * price + (1 - alpha) * ema with alpha = 2 / (period + 1)
Ema(ema, price, period) == (2 * price * EmaUnit + (period - 1) * ema) \div (period + 1)

EMACrossoverOnPrice(c, m, s, v) ==
  LET first == m.fast = None
      fast  == IF first THEN s.price * EmaUnit ELSE Ema(m.fast, s.price, c.fast)
      slow  == IF first THEN s.price * EmaUnit ELSE Ema(m.slow, s.price, c.slow)
      warmup == m.warmup + 1
      needed == IF c.fast > c.slow THEN c.fast ELSE c.slow
  IN  Choose([m EXCEPT !.fast = fast, !.slow = slow, !.warmup = IF warmup > needed THEN needed ELSE warmup],
             first \/ warmup < needed, v,
             fast >= slow + c.entry * EmaUnit,
             RiskExit(c, s.price, v) \/ fast <= slow - c.entry * EmaUnit)

EMACrossover(c, m, tick, v) == EMACrossoverOnPrice(c, m, Seen(tick), v)
-----------------------------------------------------------------------------
(* breakout.py                                                             *)

BreakoutConfig(c) == RiskChecked(c) /\ c.window > 0 /\ c.std > 0

BreakoutStart(c) == [prices |-> <<>>, holding |-> 0, last |-> None, cooldown |-> 0]

\* _requires_fresh_breakout_cross
NeedsCross(c) == c.buffer > 0 \/ c.exit > 0 \/ c.minHolding > 0 \/ c.cooldown > 0

\* price >= mean + std * deviation + buffer over the prices, without roots: n times the
\* distance from the mean is not negative and its square is large enough.
AboveBreakout(c, prices, price) ==
  LET n      == Len(prices)
      far    == n * price - Sum(prices) - n * c.buffer
      spread == n * Sum([i \in 1 .. n |-> prices[i] * prices[i]]) - Sum(prices) * Sum(prices)
      free   == IF n > 1 THEN n - 1 ELSE 1
  IN  far >= 0 /\ far * far * free >= c.std * c.std * n * spread

\* The window is of the prices before this one; a flat strategy waits out its cooldown.
BreakoutOnPrice(c, m, s, v) ==
  LET quiet == Len(m.prices) < c.window \/ v.pending
      moved == [m EXCEPT !.prices = Push(m.prices, s.price, c.window), !.last = s.price]
      n     == Len(m.prices)
      held  == [moved EXCEPT !.holding = m.holding + 1]
  IN  IF quiet THEN [mem |-> moved, do |-> "hold"]
      ELSE IF ~v.held /\ m.cooldown > 0
      THEN [mem |-> [moved EXCEPT !.cooldown = m.cooldown - 1], do |-> "hold"]
      ELSE IF ~v.held
      THEN Choose(moved, FALSE, v,
                  /\ AboveBreakout(c, m.prices, s.price) /\ s.price <= c.maxEntry
                  /\ NeedsCross(c) => m.last # None /\ ~AboveBreakout(c, m.prices, m.last), FALSE)
      ELSE Choose(held, FALSE, v, FALSE,
                  \/ RiskExit(c, s.price, v)
                  \/ held.holding >= c.minHolding /\ s.price * n <= Sum(m.prices) - c.exit * n)

BreakoutOnFill(c, m, side) ==
  [m EXCEPT !.holding = 0, !.cooldown = IF side = "buy" THEN 0 ELSE c.cooldown]

Breakout(c, m, tick, v) == BreakoutOnPrice(c, m, Seen(tick), v)
-----------------------------------------------------------------------------
(* panic_fade.py                                                           *)

PanicFadeStart(c) == [prices |-> <<>>, holding |-> 0]

\* A panic is bought; it is sold on the rebound or after so many periods.
PanicFadeOnPrice(c, m, s, v) ==
  LET prices  == Push(m.prices, s.price, c.window)
      active  == v.held /\ ~v.pending
      holding == IF active THEN m.holding + 1 ELSE m.holding
  IN  Choose([m EXCEPT !.prices = prices, !.holding = holding], FALSE, v,
             /\ Len(prices) >= c.window
             /\ s.price <= c.panic /\ Max(Range(prices)) - s.price >= c.minDrop,
             \/ RiskExit(c, s.price, v) \/ s.price >= c.rebound \/ holding >= c.maxHolding)

PanicFadeOnFill(c, m, side) == IF side = "buy" THEN [m EXCEPT !.holding = 0] ELSE m

PanicFade(c, m, tick, v) == PanicFadeOnPrice(c, m, Seen(tick), v)
-----------------------------------------------------------------------------
(* rsi_reversion.py                                                        *)

RSIReversionStart(c) == [prices |-> <<>>]

\* The sums of the rises and of the falls between the prices of a window.
Gains(prices)  == Sum([i \in 1 .. Len(prices) - 1 |-> Positive(prices[i + 1] - prices[i])])
Losses(prices) == Sum([i \in 1 .. Len(prices) - 1 |-> Positive(prices[i] - prices[i + 1])])

\* _compute_rsi <= level and >= level: 100 - 100 / (1 + gains / losses) is
\* 100 * gains / (gains + losses), and 100 when nothing fell.
RsiAtMost(prices, level) ==
  IF Losses(prices) = 0 THEN 100 <= level
  ELSE 100 * Gains(prices) <= level * (Gains(prices) + Losses(prices))
RsiAtLeast(prices, level) ==
  IF Losses(prices) = 0 THEN 100 >= level
  ELSE 100 * Gains(prices) >= level * (Gains(prices) + Losses(prices))

RSIReversionOnPrice(c, m, s, v) ==
  LET prices == Push(m.prices, s.price, c.period + 1)
  IN  Choose([m EXCEPT !.prices = prices], Len(prices) < c.period + 1, v,
             RsiAtMost(prices, c.entry),
             RiskExit(c, s.price, v) \/ RsiAtLeast(prices, c.exit))

RSIReversion(c, m, tick, v) == RSIReversionOnPrice(c, m, Seen(tick), v)
-----------------------------------------------------------------------------
(* vwap_reversion.py                                                       *)

VWAPReversionConfig(c) == RiskChecked(c) /\ c.window > 0 /\ c.entry >= 0 /\ c.exit >= 0 /\ c.minSize >= 0

VWAPReversionStart(c) == [window |-> <<>>, weighted |-> 0, sizes |-> 0]

\* _append_point: what leaves the window leaves the sums.
AppendPoint(c, m, s) ==
  LET old == IF Len(m.window) = c.window THEN Head(m.window) ELSE <<0, 0>>
  IN  [window   |-> Push(m.window, <<s.price, s.size>>, c.window),
       weighted |-> m.weighted - old[1] * old[2] + s.price * s.size,
       sizes    |-> m.sizes - old[2] + s.size]

\* A tick that comes while an order is pending, or is too small, is not counted at all.
VWAPReversionOnPrice(c, m, s, v) ==
  IF v.pending \/ s.size < c.minSize THEN [mem |-> m, do |-> "hold"]
  ELSE LET w == AppendPoint(c, m, s)
       IN  Choose(w, Len(w.window) < c.window \/ w.sizes <= 0, v,
                  s.price * w.sizes <= w.weighted - c.entry * w.sizes,
                  RiskExit(c, s.price, v) \/ s.price * w.sizes >= w.weighted - c.exit * w.sizes)

VWAPReversion(c, m, tick, v) == VWAPReversionOnPrice(c, m, Seen(tick), v)
-----------------------------------------------------------------------------
(* threshold_momentum.py, final_period_momentum.py: now is the tick's time *)

MomentumStart(c) == [last |-> None, entered |-> FALSE]

\* _entry_window_is_open: a time of 0 is no bound.
EntryWindowOpen(c, now) == (c.start > 0 => now >= c.start) /\ (c.close > 0 => now <= c.close)

\* _is_in_final_period: without a close there is no final period.
InFinalPeriod(c, now) == c.close > 0 /\ Positive(c.close - c.period) <= now /\ now <= c.close

\* One entry, on a price that crosses the threshold from below; then target, stop or close.
MomentumOnPrice(c, m, s, v, now, open) ==
  Choose([m EXCEPT !.last = s.price], FALSE, v,
         ~m.entered /\ open /\ m.last # None /\ m.last < c.entry /\ c.entry <= s.price,
         (c.close > 0 /\ now >= c.close) \/ s.price >= c.target \/ s.price <= c.floor)

\* A first buy fill, whole or not, is the entry.
EnteredOnFill(c, m, side) == IF side = "buy" THEN [m EXCEPT !.entered = TRUE] ELSE m

ThresholdMomentum(c, m, tick, v, now) ==
  MomentumOnPrice(c, m, Seen(tick), v, now, EntryWindowOpen(c, now))

FinalPeriodMomentum(c, m, tick, v, now) ==
  MomentumOnPrice(c, m, Seen(tick), v, now, InFinalPeriod(c, now))
-----------------------------------------------------------------------------
(* deep_value.py, late_favorite_limit_hold.py, late_game_blowout.py        *)

HoldStart(c) == [entered |-> FALSE]

DeepValueOnPrice(c, m, s, v) ==
  Choose(m, c.single /\ m.entered, v, s.price <= c.maxEntry, FALSE)

DeepValueHold(c, m, tick, v) == DeepValueOnPrice(c, m, Seen(tick), v)

LateFavoriteConfig(c) ==
  /\ c.size > 0 /\ c.entry \in 0 .. 100 /\ c.start >= 0 /\ c.close >= 0
  /\ c.start > 0 /\ c.close > 0 => c.start <= c.close

\* A limit order at the ask once the mid is high enough.
LateFavoriteOnPrice(c, m, s, v, now) ==
  LET choice == Choose(m, m.entered, v, EntryWindowOpen(c, now) /\ s.price >= c.entry, FALSE)
  IN  [choice EXCEPT !.do = IF @ = "enter" THEN "limit" ELSE @]

LateFavoriteLimitHold(c, m, tick, v, now) == LateFavoriteOnPrice(c, m, Seen(tick), v, now)

LateGameBlowoutStart(c) == [count |-> 0]

\* Whether a position is open does not matter; what was bought is counted.
LateGameBlowoutOnPrice(c, m, s, v) ==
  Choose(m, m.count >= c.maxPositions, [v EXCEPT !.held = FALSE],
         c.threshold <= s.price /\ s.price <= c.maxEntry /\ c.fair - s.price >= c.minEdge, FALSE)

\* max_positions is compared with the number of fills, not of entries.
LateGameBlowoutOnFill(c, m, side) == IF side = "buy" THEN [m EXCEPT !.count = @ + 1] ELSE m

LateGameBlowout(c, m, tick, v) == LateGameBlowoutOnPrice(c, m, Seen(tick), v)
-----------------------------------------------------------------------------
(* legacy_shim.py, basketball_context_demo.py                              *)

\* The signal function is the user's: signal is what it answers.  Its exit is heard only in
\* position and its entry only when flat, after the risk exit.
LegacySignal(c, m, tick, v, signal) ==
  Choose(m, FALSE, v, signal = "enter",
         RiskExit(c, Seen(tick).price, v) \/ signal = "exit")

DemoStart(c) == [context |-> FALSE]

\* on_data: the last context; late says that it is of the last period and far apart.
DemoOnData(m, late) == [m EXCEPT !.context = late]

BasketballDemo(c, m, tick, v) == Choose(m, ~m.context, v, Seen(tick).price < c.maxEntry, FALSE)
=============================================================================
