-------------------------- MODULE StrategiesProofs --------------------------
(***************************************************************************)
(* Proofs about the strategies, for any configurations, ticks, prices,     *)
(* pieces of fills and refusals:                                           *)
(*   - Spec => []OrdersBounded: one order at a time, and entries within    *)
(*     what is configured;                                                 *)
(*   - Spec => []SumsFollowPosition: the entry sums follow the position.   *)
(*                                                                         *)
(* The invariant has three parts.  OrdersInv: _pending covers the order on *)
(* its way or in the book, and every tick handler is quiet while it is set *)
(* (Decides, one lemma a strategy).  EntriesInv: what a strategy remembers *)
(* of its entries is not less than the entry orders that were filled, and  *)
(* an entry under way was sent while less than the allowed number was      *)
(* remembered.  SumsInv: the sums are of the position, and only what is    *)
(* held is sold.  An order is filled in any number of pieces: the fills    *)
(* are gone through by induction (FilledStages, MemRuns, SumsRun).         *)
(***************************************************************************)
EXTENDS Strategies, ListProofs

\* The kinds that enter once, and those that count what they enter.
Once(k) ==
  \/ k \in {"threshold_momentum", "final_period", "late_favorite", "ncaab_totals"}
  \/ k = "deep_value" /\ Configs[k].single
Counting(k) == k \in {"blowout", "mispricing", "q4_totals"}

\* What a strategy remembers of its entries, and how many it allows itself.
Counted(k, m) ==
  CASE k \in {"blowout", "q4_totals"} -> m.count
    [] k = "mispricing"   -> m.entries
    [] k = "ncaab_totals" -> IF m.inPos THEN 1 ELSE 0
    [] OTHER              -> IF m.entered THEN 1 ELSE 0
Allowed(k) == IF Counting(k) THEN Configs[k].maxPositions ELSE 1

\* What of its memory matters here.
MemOK(k, m) ==
  /\ k \in {"threshold_momentum", "final_period", "deep_value", "late_favorite"} =>
       "entered" \in DOMAIN m /\ m.entered \in BOOLEAN
  /\ k \in {"blowout", "q4_totals"} => "count" \in DOMAIN m /\ m.count \in Nat
  /\ k = "ncaab_totals" => "inPos" \in DOMAIN m /\ m.inPos \in BOOLEAN
  /\ k = "mispricing" =>
       /\ {"inPos", "entry", "entries"} \subseteq DOMAIN m
       /\ m.inPos \in BOOLEAN /\ m.entries \in Nat /\ (m.inPos => m.entry # None)

\* The oldest order on its way is an entry.
EntryWaits == orders # <<>> /\ Head(orders).do # "exit"

\* What the variables are.
TypesOK ==
  /\ kind \in Kinds /\ pending \in BOOLEAN /\ stopped \in BOOLEAN /\ bought \in Nat
  /\ \E S : orders \in Seq(S)
  /\ MemOK(kind, mem)
  /\ DOMAIN resting = {"qty", "price", "filled"} /\ resting.qty \in Int /\ resting.filled \in BOOLEAN

\* Limit orders are of one strategy, and a running one has one order at a time, for which
\* _pending is set unless it was filled in part.
OrdersInv ==
  /\ \A i \in DOMAIN orders : orders[i].do = "limit" => kind = "late_favorite"
  /\ kind = "late_favorite" /\ ~stopped => \A i \in DOMAIN orders : orders[i].do # "exit"
  /\ resting.qty > 0 => kind = "late_favorite" /\ ~stopped
  /\ ~stopped /\ kind # "fair_value" =>
       /\ Len(orders) <= 1
       /\ ~pending => orders = <<>>
       /\ resting.qty > 0 => orders = <<>> /\ (pending \/ mem.entered)

\* What was entered is remembered, and with the entry under way within what is allowed.
EntriesInv ==
  Once(kind) \/ Counting(kind) =>
    /\ \A i \in DOMAIN orders : i > 1 => orders[i].do = "exit"
    /\ bought + (IF EntryWaits THEN 1 ELSE 0) + (IF resting.qty > 0 /\ ~resting.filled THEN 1 ELSE 0) <= Allowed(kind)
    /\ ~stopped => /\ bought <= Counted(kind, mem)
                   /\ kind = "q4_totals" => \A i \in DOMAIN orders : orders[i].do = "buy"
                   /\ kind = "mispricing" /\ EntryWaits => ~mem.inPos
                   /\ resting.qty > 0 /\ resting.filled => bought > 0

\* The entry sums of a state, as SumsFollowPosition wants them.
SumsOK(t) ==
  /\ t.qty \in Nat /\ t.qty = t.position /\ t.cost \in Int /\ t.cash \in Int /\ (t.qty = 0 => t.cost = 0)
  /\ kind # "late_favorite" => Min(FillPrices) * t.qty <= t.cost /\ t.cost <= Max(FillPrices) * t.qty

\* An order of core.py.
CoreOrder(order) ==
  /\ order.do \in {"enter", "limit", "exit"} /\ order.qty \in Nat
  /\ order.do = "limit" => order.price \in 1 .. 99

\* The sums follow the position while the strategy runs, and its orders are of core.py.
SumsInv ==
  Core /\ ~stopped =>
    /\ SumsOK(State)
    /\ \A i \in DOMAIN orders : CoreOrder(orders[i])
    /\ resting.qty \in Nat /\ (resting.qty > 0 => resting.price \in 1 .. 99)

-----------------------------------------------------------------------------
(* What the handlers decide                                                *)

\* What was entered is remembered as before.
Kept(k, m, d) ==
  /\ MemOK(k, d.mem)
  /\ Once(k) \/ Counting(k) => Counted(k, d.mem) = Counted(k, m)
  /\ k = "mispricing" => d.mem.inPos = m.inPos

\* What a handler may decide: nothing while an order is under way, no entry beyond what is
\* allowed, and of each kind its own orders.
Decides(k, c, m, v, d) ==
  /\ k # "fair_value" /\ v.pending => d.do = "hold"
  /\ Kept(k, m, d)
  /\ d.do \in {"enter", "limit", "buy", "sell"} /\ (Once(k) \/ Counting(k)) => Counted(k, m) < Allowed(k)
  /\ d.do \in {"hold", "enter", "limit", "buy", "sell", "exit"}
  /\ k \in CoreKinds => d.do \in {"hold", "enter", "limit", "exit"}
  /\ d.do = "limit" => k = "late_favorite"
  /\ k = "late_favorite" => d.do # "exit" /\ (m.entered => d.do = "hold")
  /\ k = "q4_totals" => d.do \in {"hold", "buy"}
  /\ k = "mispricing" => d.do \in {"hold", "buy", "sell", "exit"} /\ (d.do \in {"buy", "sell"} => ~m.inPos)

\* Kinds whose memory does not matter here, with and without orders of core.py.
Plain == {"mean_reversion", "ema_crossover", "breakout", "panic_fade", "rsi_reversion", "vwap_reversion", "legacy", "demo"}

\* Such a kind decides as Decides says if it is quiet while an order is under way.
LEMMA PlainDecides ==
  ASSUME NEW k \in Plain, NEW c, NEW m, NEW v, NEW d,
         d.do \in {"hold", "enter", "exit"}, v.pending => d.do = "hold"
  PROVE  Decides(k, c, m, v, d)
BY DEF Plain, Decides, Kept, MemOK, Once, Counting, CoreKinds

\* mean_reversion.py
LEMMA MeanReversionDecides ==
  ASSUME NEW c, NEW m, NEW v, NEW tick
  PROVE  Decides("mean_reversion", c, m, v, MeanReversion(c, m, tick, v))
<1>1. LET d == MeanReversion(c, m, tick, v) IN d.do \in {"hold", "enter", "exit"} /\ (v.pending => d.do = "hold")
  BY DEF MeanReversion, MeanReversionOnPrice, Choose
<1> QED BY <1>1, PlainDecides DEF Plain

\* ema_crossover.py
LEMMA EMACrossoverDecides ==
  ASSUME NEW c, NEW m, NEW v, NEW tick
  PROVE  Decides("ema_crossover", c, m, v, EMACrossover(c, m, tick, v))
<1>1. LET d == EMACrossover(c, m, tick, v) IN d.do \in {"hold", "enter", "exit"} /\ (v.pending => d.do = "hold")
  BY DEF EMACrossover, EMACrossoverOnPrice, Choose
<1> QED BY <1>1, PlainDecides DEF Plain

\* breakout.py
LEMMA BreakoutDecides ==
  ASSUME NEW c, NEW m, NEW v, NEW tick
  PROVE  Decides("breakout", c, m, v, Breakout(c, m, tick, v))
<1>1. LET d == Breakout(c, m, tick, v) IN d.do \in {"hold", "enter", "exit"} /\ (v.pending => d.do = "hold")
  BY DEF Breakout, BreakoutOnPrice, Choose
<1> QED BY <1>1, PlainDecides DEF Plain

\* panic_fade.py
LEMMA PanicFadeDecides ==
  ASSUME NEW c, NEW m, NEW v, NEW tick
  PROVE  Decides("panic_fade", c, m, v, PanicFade(c, m, tick, v))
<1>1. LET d == PanicFade(c, m, tick, v) IN d.do \in {"hold", "enter", "exit"} /\ (v.pending => d.do = "hold")
  BY DEF PanicFade, PanicFadeOnPrice, Choose
<1> QED BY <1>1, PlainDecides DEF Plain

\* rsi_reversion.py
LEMMA RSIReversionDecides ==
  ASSUME NEW c, NEW m, NEW v, NEW tick
  PROVE  Decides("rsi_reversion", c, m, v, RSIReversion(c, m, tick, v))
<1>1. LET d == RSIReversion(c, m, tick, v) IN d.do \in {"hold", "enter", "exit"} /\ (v.pending => d.do = "hold")
  BY DEF RSIReversion, RSIReversionOnPrice, Choose
<1> QED BY <1>1, PlainDecides DEF Plain

\* vwap_reversion.py
LEMMA VWAPReversionDecides ==
  ASSUME NEW c, NEW m, NEW v, NEW tick
  PROVE  Decides("vwap_reversion", c, m, v, VWAPReversion(c, m, tick, v))
<1>1. LET d == VWAPReversion(c, m, tick, v) IN d.do \in {"hold", "enter", "exit"} /\ (v.pending => d.do = "hold")
  BY DEF VWAPReversion, VWAPReversionOnPrice, Choose
<1> QED BY <1>1, PlainDecides DEF Plain

\* legacy_shim.py
LEMMA LegacySignalDecides ==
  ASSUME NEW c, NEW m, NEW v, NEW tick, NEW signal
  PROVE  Decides("legacy", c, m, v, LegacySignal(c, m, tick, v, signal))
<1>1. LET d == LegacySignal(c, m, tick, v, signal) IN d.do \in {"hold", "enter", "exit"} /\ (v.pending => d.do = "hold")
  BY DEF LegacySignal, Choose
<1> QED BY <1>1, PlainDecides DEF Plain

\* basketball_context_demo.py
LEMMA BasketballDemoDecides ==
  ASSUME NEW c, NEW m, NEW v, NEW tick
  PROVE  Decides("demo", c, m, v, BasketballDemo(c, m, tick, v))
<1>1. LET d == BasketballDemo(c, m, tick, v) IN d.do \in {"hold", "enter", "exit"} /\ (v.pending => d.do = "hold")
  BY DEF BasketballDemo, Choose
<1> QED BY <1>1, PlainDecides DEF Plain

\* threshold_momentum.py, final_period_momentum.py: what was entered is not entered again.
LEMMA MomentumDecides ==
  ASSUME NEW k \in {"threshold_momentum", "final_period"}, NEW c, NEW m, MemOK(k, m), NEW v, NEW s, NEW t, NEW open
  PROVE  Decides(k, c, m, v, MomentumOnPrice(c, m, s, v, t, open))
<1> DEFINE d == MomentumOnPrice(c, m, s, v, t, open)
<1>0. m.entered \in BOOLEAN /\ "entered" \in DOMAIN m
  BY DEF MemOK
<1>1. d.do \in {"hold", "enter", "exit"} /\ (v.pending => d.do = "hold") /\ (d.do = "enter" => ~m.entered)
  BY DEF MomentumOnPrice, Choose
<1>2. d.mem = [m EXCEPT !.last = s.price]
  BY DEF MomentumOnPrice, Choose
<1>3. d.mem.entered = m.entered /\ DOMAIN d.mem = DOMAIN m
  BY <1>0, <1>2
<1> HIDE DEF d
<1>4. Kept(k, m, d)
  BY <1>0, <1>3 DEF Kept, MemOK, Counted, Counting
<1> QED BY <1>1, <1>4 DEF d, Decides, Counted, Allowed, Counting, CoreKinds

\* deep_value.py: single_entry enters once.
LEMMA DeepValueDecides ==
  ASSUME NEW m, MemOK("deep_value", m), NEW v, NEW tick
  PROVE  Decides("deep_value", Configs["deep_value"], m, v, DeepValueHold(Configs["deep_value"], m, tick, v))
<1> DEFINE c == Configs["deep_value"]
           d == DeepValueHold(c, m, tick, v)
<1>0. m.entered \in BOOLEAN
  BY DEF MemOK
<1>1. d.do \in {"hold", "enter"} /\ (v.pending => d.do = "hold") /\ (c.single /\ m.entered => d.do = "hold") /\ d.mem = m
  BY DEF DeepValueHold, DeepValueOnPrice, Choose
<1> HIDE DEF d
<1>4. Kept("deep_value", m, d)
  BY <1>1 DEF Kept
<1>5. Counted("deep_value", m) = (IF m.entered THEN 1 ELSE 0) /\ Allowed("deep_value") = 1
  BY DEF Counted, Allowed, Counting
<1>6. Once("deep_value") \/ Counting("deep_value") => c.single
  BY DEF Once, Counting
<1>7. d.do = "enter" /\ c.single => ~m.entered
  BY <1>1
<1>8. d.do \in {"enter", "limit", "buy", "sell"} /\ (Once("deep_value") \/ Counting("deep_value"))
        => Counted("deep_value", m) < Allowed("deep_value")
  BY <1>1, <1>5, <1>6, <1>7
<1>9. d.do \in {"hold", "enter"} /\ (v.pending => d.do = "hold")
  BY <1>1
<1>10. Decides("deep_value", c, m, v, d)
  BY <1>4, <1>8, <1>9 DEF Decides
<1> QED BY <1>10 DEF d

\* late_favorite_limit_hold.py: never an exit, and nothing once it entered.
LEMMA LateFavoriteDecides ==
  ASSUME NEW c, NEW m, MemOK("late_favorite", m), NEW v, NEW tick, NEW t
  PROVE  Decides("late_favorite", c, m, v, LateFavoriteLimitHold(c, m, tick, v, t))
<1> DEFINE d == LateFavoriteLimitHold(c, m, tick, v, t)
<1>0. m.entered \in BOOLEAN
  BY DEF MemOK
<1>1. d.do \in {"hold", "limit"} /\ (v.pending => d.do = "hold") /\ (m.entered => d.do = "hold") /\ d.mem = m
  BY DEF LateFavoriteLimitHold, LateFavoriteOnPrice, Choose
<1> HIDE DEF d
<1>4. Kept("late_favorite", m, d)
  BY <1>1 DEF Kept
<1>5. Counted("late_favorite", m) = (IF m.entered THEN 1 ELSE 0) /\ Allowed("late_favorite") = 1
  BY DEF Counted, Allowed, Counting
<1>7. d.do # "hold" => ~m.entered
  BY <1>1
<1>8. d.do # "hold" => Counted("late_favorite", m) < Allowed("late_favorite")
  BY <1>5, <1>7
<1>9. d.do \in {"hold", "limit"} /\ (v.pending => d.do = "hold") /\ (m.entered => d.do = "hold")
  BY <1>1
<1>10. Decides("late_favorite", c, m, v, d)
  BY <1>4, <1>8, <1>9 DEF Decides
<1> QED BY <1>10 DEF d

\* late_game_blowout.py: an entry while fewer are counted than max_positions.
LEMMA BlowoutDecides ==
  ASSUME Configs["blowout"].maxPositions \in Nat, NEW m, MemOK("blowout", m), NEW v, NEW tick
  PROVE Decides("blowout", Configs["blowout"], m, v, LateGameBlowout(Configs["blowout"], m, tick, v))
BY DEF Choose, LateGameBlowout, LateGameBlowoutOnPrice, Decides, Kept, MemOK, Once, Counting, Counted, Allowed, CoreKinds

\* The entries of the order flow strategies.
LEMMA OfiEntryDecides ==
  ASSUME NEW c, NEW m, NEW price, NEW bull, NEW bear
  PROVE  OfiEntry(c, m, price, bull, bear).do \in {"hold", "buy", "sell"} /\ OfiEntry(c, m, price, bull, bear).mem = m
BY DEF OfiEntry, Order, Stay

\* btc_ofi_15m.py
LEMMA OfiDecides ==
  ASSUME NEW c, NEW m, NEW v, NEW tick
  PROVE  Decides("ofi", c, m, v, BTCOfi15m(c, m, tick, v))
<1>1. LET d == BTCOfi15m(c, m, tick, v) IN d.do \in {"hold", "buy", "sell"} /\ (v.pending => d.do = "hold")
  BY OfiEntryDecides DEF BTCOfi15m, OfiQuiet, Stay
<1> QED BY <1>1 DEF Decides, Kept, MemOK, Once, Counting, CoreKinds

\* btc_ofi_ma.py
LEMMA OfiMaDecides ==
  ASSUME NEW c, NEW m, NEW v, NEW tick
  PROVE  Decides("ofi_ma", c, m, v, BTCOfiMa(c, m, tick, v))
BY OfiEntryDecides DEF BTCOfiMa, OfiQuiet, Stay, Decides, Kept, MemOK, Once, Counting, CoreKinds

\* nba_mispricing.py: entries only while out of the market.
LEMMA MispricingDecides ==
  ASSUME Configs["mispricing"].maxPositions \in Nat, NEW m, MemOK("mispricing", m), NEW v, NEW tick
  PROVE  Decides("mispricing", Configs["mispricing"], m, v, NBAMispricing(Configs["mispricing"], m, tick, v))
<1> DEFINE c == Configs["mispricing"]
           d == NBAMispricing(c, m, tick, v)
           seen == [m EXCEPT !.prices = Push(m.prices, tick.bid, c.window), !.ticks = m.ticks + 1]
<1>0. /\ {"inPos", "entry", "entries"} \subseteq DOMAIN m
      /\ m.inPos \in BOOLEAN /\ m.entries \in Nat /\ (m.inPos => m.entry # None)
  BY DEF MemOK
<1>1. seen.inPos = m.inPos /\ seen.entry = m.entry /\ seen.entries = m.entries /\ DOMAIN seen = DOMAIN m
  BY <1>0
<1>2. /\ d.do \in {"hold", "buy", "sell", "exit"} /\ (v.pending => d.do = "hold")
      /\ d.do \in {"buy", "sell"} => ~(m.inPos /\ m.entry # None) /\ ~(seen.entries >= c.maxPositions)
      /\ d.mem = seen \/ d.mem = [seen EXCEPT !.before = Head(seen.prices)]
  BY DEF NBAMispricing, Order, Stay, Close
<1> HIDE DEF d, seen
<1>3. Kept("mispricing", m, d)
  BY <1>0, <1>1, <1>2 DEF Kept, MemOK, Counted
<1>4. Counted("mispricing", m) = m.entries /\ Allowed("mispricing") = c.maxPositions
  BY DEF Counted, Allowed, Counting
<1>5. d.do \in {"buy", "sell"} => Counted("mispricing", m) < Allowed("mispricing") /\ ~m.inPos
  BY <1>0, <1>1, <1>2, <1>4
<1>6. d.do \in {"hold", "buy", "sell", "exit"} /\ (v.pending => d.do = "hold")
  BY <1>2
<1>7. Decides("mispricing", c, m, v, d)
  BY <1>3, <1>5, <1>6 DEF Decides, CoreKinds
<1> QED BY <1>7 DEF d

\* nba_q4_totals.py buys only.
LEMMA Q4Decides ==
  ASSUME Configs["q4_totals"].maxPositions \in Nat, NEW m, MemOK("q4_totals", m), NEW v, NEW tick
  PROVE Decides("q4_totals", Configs["q4_totals"], m, v, NBAQ4Totals(Configs["q4_totals"], m, tick, v))
BY DEF NBAQ4Totals, Order, Stay, Decides, Kept, MemOK, Once, Counting, Counted, Allowed, CoreKinds

\* ncaab_totals_rating.py enters once.
LEMMA NCAABDecides ==
  ASSUME NEW c, NEW m, MemOK("ncaab_totals", m), NEW v, NEW tick
  PROVE Decides("ncaab_totals", c, m, v, NCAABTotals(c, m, tick, v))
BY DEF NCAABTotals, Order, Stay, Decides, Kept, MemOK, Once, Counting, Counted, Allowed, CoreKinds

\* nba_fair_value.py
LEMMA FairDecides ==
  ASSUME NEW c, NEW m, NEW v, NEW tick
  PROVE Decides("fair_value", c, m, v, NBAFairValue(c, m, tick, v))
BY DEF NBAFairValue, Order, Stay, Close, Decides, Kept, MemOK, Once, Counting, Counted, Allowed, CoreKinds

\* The tick handler of any strategy.
LEMMA TickDecides ==
  ASSUME NEW k \in Kinds, NEW m, MemOK(k, m), NEW v, NEW tick, NEW signal
  PROVE  Decides(k, Configs[k], m, v, OnTick(k, Configs[k], m, tick, v, signal))
<1>0. /\ k \in CoreKinds \union FlagKinds
      /\ k \in {"blowout", "mispricing", "q4_totals"} => Configs[k].maxPositions \in Nat
  BY StrategyAssumption
<1>1. CASE k = "mean_reversion"
  BY <1>1, MeanReversionDecides DEF OnTick
<1>2. CASE k = "ema_crossover"
  BY <1>2, EMACrossoverDecides DEF OnTick
<1>3. CASE k = "breakout"
  BY <1>3, BreakoutDecides DEF OnTick
<1>4. CASE k = "panic_fade"
  BY <1>4, PanicFadeDecides DEF OnTick
<1>5. CASE k = "rsi_reversion"
  BY <1>5, RSIReversionDecides DEF OnTick
<1>6. CASE k = "vwap_reversion"
  BY <1>6, VWAPReversionDecides DEF OnTick
<1>7. CASE k = "threshold_momentum"
  BY <1>7, MomentumDecides DEF OnTick, ThresholdMomentum
<1>8. CASE k = "final_period"
  BY <1>8, MomentumDecides DEF OnTick, FinalPeriodMomentum
<1>9. CASE k = "deep_value"
  BY <1>9, DeepValueDecides DEF OnTick
<1>10. CASE k = "late_favorite"
  BY <1>10, LateFavoriteDecides DEF OnTick
<1>11. CASE k = "blowout"
  BY <1>0, <1>11, BlowoutDecides DEF OnTick
<1>12. CASE k = "legacy"
  BY <1>12, LegacySignalDecides DEF OnTick
<1>13. CASE k = "demo"
  BY <1>13, BasketballDemoDecides DEF OnTick
<1>14. CASE k = "ofi"
  BY <1>14, OfiDecides DEF OnTick
<1>15. CASE k = "ofi_ma"
  BY <1>15, OfiMaDecides DEF OnTick
<1>16. CASE k = "mispricing"
  BY <1>0, <1>16, MispricingDecides DEF OnTick
<1>17. CASE k = "q4_totals"
  BY <1>0, <1>17, Q4Decides DEF OnTick
<1>18. CASE k = "ncaab_totals"
  BY <1>18, NCAABDecides DEF OnTick
<1>19. CASE k = "fair_value"
  BY <1>19, FairDecides DEF OnTick
<1> QED
  BY <1>0, <1>1, <1>2, <1>3, <1>4, <1>5, <1>6, <1>7, <1>8, <1>9, <1>10, <1>11, <1>12, <1>13,
     <1>14, <1>15, <1>16, <1>17, <1>18, <1>19 DEF CoreKinds, FlagKinds
-----------------------------------------------------------------------------
(* What a fill is remembered as                                            *)

\* At the start nothing was entered.
LEMMA StartsEmpty ==
  ASSUME NEW k \in Kinds
  PROVE  /\ MemOK(k, StartMem(k, Configs[k]))
         /\ Once(k) \/ Counting(k) => Counted(k, StartMem(k, Configs[k])) = 0
         /\ Allowed(k) \in Nat
<1>1. k \in CoreKinds \union FlagKinds /\ (Counting(k) => Configs[k].maxPositions \in Nat)
  BY StrategyAssumption DEF Counting
<1>2. CASE k \in {"threshold_momentum", "final_period"}
  BY <1>1, <1>2 DEF StartMem, MomentumStart, MemOK, Counted, Allowed
<1>3. CASE k \in {"deep_value", "late_favorite"}
  BY <1>1, <1>3 DEF StartMem, HoldStart, MemOK, Counted, Allowed
<1>4. CASE k = "blowout"
  BY <1>1, <1>4 DEF StartMem, LateGameBlowoutStart, MemOK, Counted, Allowed
<1>5. CASE k = "q4_totals"
  BY <1>1, <1>5 DEF StartMem, Q4TotalsStart, MemOK, Counted, Allowed
<1>6. CASE k = "ncaab_totals"
  BY <1>1, <1>6 DEF StartMem, FlagStart, MemOK, Counted, Allowed
<1>7. CASE k = "mispricing"
  BY <1>1, <1>7 DEF StartMem, MispricingStart, MemOK, Counted, Allowed
<1>8. CASE ~(Once(k) \/ Counting(k)) /\ k # "deep_value"
  BY <1>1, <1>8 DEF Once, Counting, MemOK, Allowed
<1> QED BY <1>2, <1>3, <1>4, <1>5, <1>6, <1>7, <1>8 DEF Once, Counting

\* What a fill leaves remembered: an entry is remembered, and but for a sale of nba_q4_totals.py
\* nothing is forgotten.
Remembers(k, m, side, f) ==
  /\ MemOK(k, f)
  /\ (Once(k) \/ Counting(k)) /\ ~(k = "q4_totals" /\ side = "sell") => Counted(k, f) >= Counted(k, m)
  /\ (Once(k) \/ Counting(k)) /\ side = "buy" /\ k # "mispricing" =>
       Counted(k, f) >= (IF Counting(k) THEN Counted(k, m) + 1 ELSE 1)
  /\ k = "ncaab_totals" => Counted(k, f) >= 1
  /\ k = "mispricing" /\ ~m.inPos => Counted(k, f) >= Counted(k, m) + 1
  /\ k = "late_favorite" => (side = "buy" => f.entered) /\ (m.entered => f.entered)

\* What MemOnFill does is of this form.
LEMMA FillRemembered ==
  ASSUME NEW k \in Kinds, NEW m, MemOK(k, m), NEW side \in {"buy", "sell"}, NEW price \in Nat
  PROVE  Remembers(k, m, side, MemOnFill(k, Configs[k], m, side, price))
<1>2. CASE k \in {"threshold_momentum", "final_period", "deep_value", "late_favorite"}
  <2> DEFINE f == MemOnFill(k, Configs[k], m, side, price)
  <2>1. "entered" \in DOMAIN m /\ m.entered \in BOOLEAN
    BY <1>2 DEF MemOK
  <2>2. f = EnteredOnFill(Configs[k], m, side)
    BY <1>2 DEF MemOnFill
  <2>3. /\ "entered" \in DOMAIN f /\ f.entered \in BOOLEAN
        /\ (side = "buy" => f.entered) /\ (m.entered => f.entered)
    BY <2>1, <2>2 DEF EnteredOnFill
  <2> HIDE DEF f
  <2>4. Counted(k, f) = (IF f.entered THEN 1 ELSE 0) /\ Counted(k, m) = IF m.entered THEN 1 ELSE 0
    BY <1>2 DEF Counted
  <2>5. Counted(k, f) >= Counted(k, m) /\ (side = "buy" => Counted(k, f) >= 1)
    BY <2>1, <2>3, <2>4
  <2>6. MemOK(k, f)
    BY <1>2, <2>3 DEF MemOK
  <2>7. ~Counting(k)
    BY <1>2 DEF Counting
  <2>8. Remembers(k, m, side, f)
    BY <1>2, <2>3, <2>5, <2>6, <2>7 DEF Remembers
  <2> QED BY <2>8 DEF f
<1>4. CASE k = "blowout"
  BY <1>4 DEF Remembers, MemOnFill, LateGameBlowoutOnFill, MemOK, Counted, Once, Counting
<1>5. CASE k = "q4_totals"
  BY <1>5 DEF Remembers, MemOnFill, Q4TotalsOnFill, Positive, MemOK, Counted, Once, Counting
<1>6. CASE k = "ncaab_totals"
  <2> DEFINE f == MemOnFill(k, Configs[k], m, side, price)
  <2>1. "inPos" \in DOMAIN m /\ m.inPos \in BOOLEAN
    BY <1>6 DEF MemOK
  <2>2. f = NCAABOnFill(m)
    BY <1>6 DEF MemOnFill
  <2>3. "inPos" \in DOMAIN f /\ f.inPos = TRUE
    BY <2>1, <2>2 DEF NCAABOnFill
  <2> HIDE DEF f
  <2>4. Counted(k, f) = 1 /\ Counted(k, m) = IF m.inPos THEN 1 ELSE 0
    BY <1>6, <2>3 DEF Counted
  <2>5. Counted(k, f) = 1 /\ Counted(k, f) >= Counted(k, m)
    BY <2>1, <2>4
  <2>6. MemOK(k, f)
    BY <1>6, <2>3 DEF MemOK
  <2>7. ~Counting(k)
    BY <1>6 DEF Counting
  <2>8. Remembers(k, m, side, f)
    BY <1>6, <2>5, <2>6, <2>7 DEF Remembers
  <2> QED BY <2>8 DEF f
<1>7. CASE k = "mispricing"
  <2> DEFINE f == MemOnFill(k, Configs[k], m, side, price)
  <2>1. /\ {"inPos", "entry", "entries"} \subseteq DOMAIN m
        /\ m.inPos \in BOOLEAN /\ m.entries \in Nat
    BY <1>7 DEF MemOK
  <2>2. f = MispricingOnFill(Configs[k], m, side, price)
    BY <1>7 DEF MemOnFill
  <2>3. /\ DOMAIN f = DOMAIN m /\ f.inPos \in BOOLEAN /\ (f.inPos => ~m.inPos)
        /\ f.entries = IF m.inPos THEN m.entries ELSE m.entries + 1
        /\ ~m.inPos => f.entry = price
    BY <2>1, <2>2 DEF MispricingOnFill
  <2> HIDE DEF f
  <2>8. f.entries \in Nat /\ (f.inPos => f.entry # None)
    BY <2>1, <2>3 DEF None
  <2>9. {"inPos", "entry", "entries"} \subseteq DOMAIN f /\ f.inPos \in BOOLEAN
    BY <2>1, <2>3
  <2>4. MemOK(k, f)
    BY <1>7, <2>8, <2>9 DEF MemOK
  <2>5. Counted(k, f) = f.entries /\ Counted(k, m) = m.entries
    BY <1>7 DEF Counted
  <2>6. Counted(k, f) >= Counted(k, m) /\ (~m.inPos => Counted(k, f) >= Counted(k, m) + 1)
    BY <2>1, <2>3, <2>5
  <2>7. Remembers(k, m, side, f)
    BY <1>7, <2>4, <2>6 DEF Remembers
  <2> QED BY <2>7 DEF f
<1>8. CASE ~(Once(k) \/ Counting(k)) /\ k # "deep_value"
  BY <1>8 DEF Once, Counting, MemOK, Remembers
<1> QED BY <1>2, <1>4, <1>5, <1>6, <1>7, <1>8 DEF Once, Counting
-----------------------------------------------------------------------------
(* One fill after another                                                  *)

\* The states that fills go through, at least up to the m-th.
Stages(at, s, side, fills, m) ==
  at = [i \in 0 .. m |-> IF i = 0 THEN s ELSE Fill(at[i - 1], side, fills[i][1], fills[i][2])]

\* There are such states, and Filled gives the last.
LEMMA FilledStages ==
  ASSUME NEW s, NEW side, NEW fills, NEW n \in Nat
  PROVE  \E at : Stages(at, s, side, fills, n) /\ Filled(s, side, fills, n) = at[n]
<1> DEFINE Lost == {m \in Nat : ~\E at : Stages(at, s, side, fills, m)}
<1>1. Lost = {}
  <2> SUFFICES ASSUME Lost # {} PROVE FALSE
    OBVIOUS
  <2>1. PICK m \in Lost : \A k \in Lost : m <= k
    BY LeastNumber
  <2>2. CASE m = 0
    <3> DEFINE f == [i \in 0 .. 0 |-> s]
    <3>1. Stages(f, s, side, fills, 0)
      BY DEF Stages
    <3> QED BY <2>1, <2>2, <3>1
  <2>3. CASE m # 0
    <3>1. m - 1 \in Nat /\ m - 1 \notin Lost
      BY <2>1, <2>3
    <3>2. PICK g : Stages(g, s, side, fills, m - 1)
      BY <3>1
    <3> DEFINE f == [i \in 0 .. m |-> IF i = m THEN Fill(g[m - 1], side, fills[m][1], fills[m][2]) ELSE g[i]]
    <3>3. \A i \in 0 .. m - 1 : f[i] = g[i]
      BY <3>1
    <3>4. \A i \in 0 .. m - 1 : g[i] = IF i = 0 THEN s ELSE Fill(g[i - 1], side, fills[i][1], fills[i][2])
      BY <3>2 DEF Stages
    <3>5. \A i \in 0 .. m : f[i] = IF i = 0 THEN s ELSE Fill(f[i - 1], side, fills[i][1], fills[i][2])
      <4> TAKE i \in 0 .. m
      <4>1. CASE i = m
        BY <4>1, <3>1, <3>3, <2>3
      <4>2. CASE i # m
        <5>1. i \in 0 .. m - 1 /\ (i # 0 => i - 1 \in 0 .. m - 1)
          BY <4>2, <3>1
        <5>2. f[i] = g[i] /\ (i # 0 => f[i - 1] = g[i - 1])
          BY <5>1, <3>3
        <5> HIDE DEF f
        <5> QED BY <5>1, <5>2, <3>4
      <4> QED BY <4>1, <4>2
    <3>6. Stages(f, s, side, fills, m)
      <4> HIDE DEF f
      <4>1. f = [i \in 0 .. m |-> f[i]]
        BY DEF f
      <4> QED BY <3>5, <4>1 DEF Stages
    <3> QED BY <2>1, <3>6
  <2> QED BY <2>2, <2>3
<1> DEFINE h == CHOOSE at : Stages(at, s, side, fills, n)
<1>2. Stages(h, s, side, fills, n)
  BY <1>1
<1>3. Filled(s, side, fills, n) = h[n]
  BY DEF Filled, Stages
<1> QED BY <1>2, <1>3
-----------------------------------------------------------------------------
(* What fills change                                                       *)

\* What a state of fills has.
Fields == {"mem", "pending", "qty", "cost", "position", "cash", "lots"}

\* One fill, field by field.
LEMMA FillFields ==
  ASSUME NEW s, DOMAIN s = Fields, NEW side, NEW price, NEW q
  PROVE  /\ DOMAIN Fill(s, side, price, q) = Fields
         /\ Fill(s, side, price, q).position = IF side = "buy" THEN s.position + q ELSE s.position - q
         /\ Fill(s, side, price, q).cash = s.cash + Paid(side, price, q)
         /\ Fill(s, side, price, q).lots = s.lots + q
BY DEF Fill, Fields

\* And what the handler does in a running strategy.
LEMMA FillHeard ==
  ASSUME ~stopped, NEW s, DOMAIN s = Fields, NEW side, NEW price, NEW q
  PROVE  /\ Fill(s, side, price, q).mem = MemOnFill(kind, Config, s.mem, side, price)
         /\ Fill(s, side, price, q).pending = FALSE
         /\ Core => /\ Fill(s, side, price, q).qty = EntrySums(s, side, price, q).q
                    /\ Fill(s, side, price, q).cost = EntrySums(s, side, price, q).c
<1>1. DOMAIN Fill(s, side, price, q) = Fields
  BY FillFields
<1> QED BY <1>1 DEF Fill, Fields

\* What a strategy counts is a number.
LEMMA CountedNat ==
  ASSUME NEW k, NEW m, MemOK(k, m), Once(k) \/ Counting(k)
  PROVE  Counted(k, m) \in Nat
<1>1. CASE k \in {"blowout", "q4_totals"}
  BY <1>1 DEF MemOK, Counted
<1>2. CASE k = "mispricing"
  BY <1>2 DEF MemOK, Counted
<1>3. CASE k = "ncaab_totals"
  BY <1>3 DEF MemOK, Counted
<1>4. CASE k \in {"threshold_momentum", "final_period", "deep_value", "late_favorite"}
  BY <1>4 DEF MemOK, Counted
<1> QED BY <1>1, <1>2, <1>3, <1>4 DEF Once, Counting

\* What n fills leave remembered.
MemRan(t, side, n) ==
  /\ DOMAIN t = Fields
  /\ MemOK(kind, t.mem)
  /\ n = 0 => t.pending = pending /\ t.mem = mem
  /\ n > 0 => t.pending = FALSE
  /\ (Once(kind) \/ Counting(kind)) /\ ~(kind = "q4_totals" /\ side = "sell") =>
       Counted(kind, t.mem) >= Counted(kind, mem)
  /\ n > 0 /\ (Once(kind) \/ Counting(kind)) /\ side = "buy" /\ kind # "mispricing" =>
       Counted(kind, t.mem) >= (IF Counting(kind) THEN Counted(kind, mem) + 1 ELSE 1)
  /\ n > 0 /\ kind = "ncaab_totals" => Counted(kind, t.mem) >= 1
  /\ n > 0 /\ kind = "mispricing" /\ ~mem.inPos => Counted(kind, t.mem) >= Counted(kind, mem) + 1
  /\ kind = "late_favorite" => (n > 0 /\ side = "buy" => t.mem.entered) /\ (mem.entered => t.mem.entered)

\* By induction on the number of fills.
LEMMA MemRuns ==
  ASSUME kind \in Kinds, MemOK(kind, mem), ~stopped, NEW side \in {"buy", "sell"}, NEW n \in Nat, NEW fills,
         \A i \in 1 .. n : fills[i][1] \in Nat
  PROVE  MemRan(Filled(State, side, fills, n), side, n)
<1>1. PICK at : Stages(at, State, side, fills, n) /\ Filled(State, side, fills, n) = at[n]
  BY FilledStages
<1> DEFINE Good == {i \in 0 .. n : MemRan(at[i], side, i)}
<1>2. at[0] = State /\ \A i \in 1 .. n : at[i] = Fill(at[i - 1], side, fills[i][1], fills[i][2])
  <2>1. 0 \in 0 .. n /\ \A i \in 1 .. n : i \in 0 .. n /\ i # 0
    OBVIOUS
  <2> QED BY <1>1, <2>1 DEF Stages
<1>3. 0 \in Good
  <2>1. /\ DOMAIN at[0] = Fields /\ at[0].mem = mem /\ at[0].pending = pending
    BY <1>2 DEF State, Fields
  <2>2. Once(kind) \/ Counting(kind) => Counted(kind, mem) \in Nat
    BY CountedNat
  <2>3. MemRan(at[0], side, 0)
    BY <2>1, <2>2 DEF MemRan
  <2> QED BY <2>3
<1>4. \A i \in 1 .. n : i - 1 \in Good => i \in Good
  <2> TAKE i \in 1 .. n
  <2> HAVE i - 1 \in Good
  <2> DEFINE s == at[i - 1]
             t == at[i]
  <2>1. MemRan(s, side, i - 1) /\ t = Fill(s, side, fills[i][1], fills[i][2]) /\ fills[i][1] \in Nat
    BY <1>2
  <2> HIDE DEF s, t, Good
  <2>2. DOMAIN s = Fields /\ MemOK(kind, s.mem)
    BY <2>1 DEF MemRan
  <2>3. DOMAIN t = Fields /\ t.pending = FALSE /\ t.mem = MemOnFill(kind, Configs[kind], s.mem, side, fills[i][1])
    <3>1. /\ DOMAIN Fill(s, side, fills[i][1], fills[i][2]) = Fields
          /\ Fill(s, side, fills[i][1], fills[i][2]).pending = FALSE
          /\ Fill(s, side, fills[i][1], fills[i][2]).mem = MemOnFill(kind, Config, s.mem, side, fills[i][1])
      <4> DEFINE p == fills[i][1]
                 q == fills[i][2]
      <4> HIDE DEF p, q
      <4>1. DOMAIN Fill(s, side, p, q) = Fields
        BY <2>2, FillFields
      <4>2. Fill(s, side, p, q).pending = FALSE
        BY <2>2, FillHeard
      <4>3. Fill(s, side, p, q).mem = MemOnFill(kind, Config, s.mem, side, p)
        BY <2>2, FillHeard
      <4> QED BY <4>1, <4>2, <4>3 DEF p, q
    <3> QED BY <2>1, <3>1 DEF Config
  <2>4. Remembers(kind, s.mem, side, t.mem)
    BY <2>1, <2>2, <2>3, FillRemembered
  <2>5. Once(kind) \/ Counting(kind) => Counted(kind, mem) \in Nat /\ Counted(kind, s.mem) \in Nat
    BY <2>2, CountedNat
  <2>6. MemOK(kind, t.mem)
    BY <2>4 DEF Remembers
  <2>7. Once(kind) \/ Counting(kind) => Counted(kind, t.mem) \in Nat
    BY <2>6, CountedNat
  <2>8. /\ (Once(kind) \/ Counting(kind)) /\ ~(kind = "q4_totals" /\ side = "sell") =>
             Counted(kind, t.mem) >= Counted(kind, mem)
        /\ (Once(kind) \/ Counting(kind)) /\ side = "buy" /\ kind # "mispricing" =>
             Counted(kind, t.mem) >= (IF Counting(kind) THEN Counted(kind, mem) + 1 ELSE 1)
    BY <2>1, <2>4, <2>5, <2>7 DEF MemRan, Remembers
  <2>9. kind = "ncaab_totals" => Counted(kind, t.mem) >= 1
    BY <2>4 DEF Remembers
  <2>10. kind = "mispricing" /\ ~mem.inPos => Counted(kind, t.mem) >= Counted(kind, mem) + 1
    <3> HAVE kind = "mispricing" /\ ~mem.inPos
    <3>1. Counting(kind)
      BY DEF Counting
    <3>2. CASE i = 1
      <4>1. s.mem = mem
        BY <2>1, <3>2 DEF MemRan
      <4> QED BY <2>4, <4>1 DEF Remembers
    <3>3. CASE i # 1
      <4>1. Counted(kind, s.mem) >= Counted(kind, mem) + 1
        BY <2>1, <3>3 DEF MemRan
      <4>2. Counted(kind, t.mem) >= Counted(kind, s.mem)
        BY <2>4, <3>1 DEF Remembers
      <4> QED BY <2>5, <2>7, <3>1, <4>1, <4>2
    <3> QED BY <3>2, <3>3
  <2>11. kind = "late_favorite" => (side = "buy" => t.mem.entered) /\ (mem.entered => t.mem.entered)
    BY <2>1, <2>4 DEF MemRan, Remembers
  <2>12. MemRan(t, side, i)
    BY <2>3, <2>6, <2>8, <2>9, <2>10, <2>11 DEF MemRan
  <2> QED BY <2>12 DEF t, Good
<1>5. n \in Good
  <2> HIDE DEF Good
  <2> QED BY <1>3, <1>4, UpTo
<1> QED BY <1>1, <1>5
-----------------------------------------------------------------------------
(* What fills do to the entry sums                                         *)

\* The product of numbers that are not negative is not.
LEMMA ProductNat ==
  ASSUME NEW x \in Int, NEW y \in Int, x >= 0, y >= 0
  PROVE  x * y \in Int /\ x * y >= 0
OBVIOUS

\* A common factor is left out.
LEMMA Cancel ==
  ASSUME NEW x \in Int, NEW y \in Int, NEW n \in Int, n > 0, x * n < y * n + n
  PROVE  x <= y
<1> SUFFICES ASSUME x >= y + 1 PROVE FALSE
  OBVIOUS
<1>1. (x - y - 1) * n >= 0
  BY ProductNat
<1>2. (x - y - 1) * n = x * n - y * n - n
  OBVIOUS
<1> QED BY <1>1, <1>2

\* What \div is.
LEMMA Quotient ==
  ASSUME NEW x \in Int, NEW n \in Int, n > 0
  PROVE  /\ x \div n \in Int
         /\ (x \div n) * n <= x /\ x < (x \div n) * n + n
OBVIOUS

\* A sale of q of m lots takes the average cost out, rounded down: what is left is between the
\* lowest and the highest price of the lots that are left.
LEMMA SaleBounds ==
  ASSUME NEW a \in Int, NEW b \in Int, NEW m \in Int, NEW q \in Int, 0 <= q, q <= m, 0 < m,
         NEW c \in Int, a * m <= c, c <= b * m
  PROVE  /\ (c * q) \div m \in Int
         /\ a * (m - q) <= c - (c * q) \div m /\ c - (c * q) \div m <= b * (m - q)
<1> DEFINE d == (c * q) \div m
           e == c - a * m + a * q
           f == c - b * m + b * q
<1>1. c * q \in Int
  OBVIOUS
<1>2. d \in Int /\ d * m <= c * q /\ c * q < d * m + m
  BY <1>1, Quotient
<1>0. e \in Int /\ f \in Int
  OBVIOUS
<1>3. c * q <= e * m
  <2>1. (m - q) * (c - a * m) >= 0
    BY ProductNat
  <2>2. (m - q) * (c - a * m) = e * m - c * q
    OBVIOUS
  <2> QED BY <2>1, <2>2
<1>4. f * m <= c * q
  <2>1. (m - q) * (b * m - c) >= 0
    BY ProductNat
  <2>2. (m - q) * (b * m - c) = c * q - f * m
    OBVIOUS
  <2> QED BY <2>1, <2>2
<1>5. d <= e
  <2> HIDE DEF d, e
  <2>1. d * m < e * m + m
    BY <1>0, <1>2, <1>3
  <2> QED BY <1>0, <1>2, <2>1, Cancel
<1>6. f <= d
  <2> HIDE DEF d, f
  <2>1. f * m < d * m + m
    BY <1>0, <1>2, <1>4
  <2> QED BY <1>0, <1>2, <2>1, Cancel
<1>7. a * (m - q) = a * m - a * q /\ b * (m - q) = b * m - b * q
  OBVIOUS
<1> HIDE DEF d
<1>8. a * (m - q) <= c - d /\ c - d <= b * (m - q)
  BY <1>2, <1>5, <1>6, <1>7
<1> QED BY <1>2, <1>8 DEF d

\* The least and the greatest price of the venue are prices of it.
LEMMA PricesBounded ==
  /\ Min(FillPrices) \in 1 .. 99 /\ Max(FillPrices) \in 1 .. 99
  /\ \A price \in FillPrices : price \in Nat /\ Min(FillPrices) <= price /\ price <= Max(FillPrices)
<1>1. FillPrices \in SUBSET (1 .. 99) /\ FillPrices # {}
  BY StrategyAssumption
<1>2. \A n \in Nat : IsFiniteSet(1 .. n)
  BY FS_Interval
<1>3. IsFiniteSet(FillPrices) /\ FillPrices \in SUBSET Nat /\ FillPrices \in SUBSET Int
  <2>1. 99 \in Nat
    OBVIOUS
  <2>2. IsFiniteSet(1 .. 99)
    BY <1>2, <2>1
  <2>3. IsFiniteSet(FillPrices)
    BY <1>1, <2>2, FS_Subset
  <2>4. \A x \in FillPrices : x \in Nat /\ x \in Int
    BY <1>1
  <2> QED BY <2>3, <2>4
<1>4. Max(FillPrices) \in FillPrices /\ \A price \in FillPrices : Max(FillPrices) >= price
  BY <1>1, <1>3, MaxIn
<1>5. Min(FillPrices) \in FillPrices /\ \A price \in FillPrices : Min(FillPrices) <= price
  <2>1. \E x \in FillPrices : \A y \in FillPrices : x <= y
    BY <1>1, <1>3, LeastNumber
  <2> QED BY <2>1 DEF Min
<1>6. \A x \in FillPrices : x \in 1 .. 99 /\ x \in Nat
  BY <1>1
<1> QED BY <1>4, <1>5, <1>6

\* What is paid is a number.
LEMMA PaidInt ==
  ASSUME kind \in Kinds, Core, NEW side, NEW price \in Nat, NEW q \in Nat
  PROVE  Paid(side, price, q) \in Int
<1>1. Config.fee \in Nat
  BY StrategyAssumption DEF Core, Config
<1>2. price * (100 - price) \in Int
  OBVIOUS
<1>3. Config.fee * price * (100 - price) \in Int
  BY <1>1
<1>4. UnitCost(price, Config.fee) \in Int
  BY <1>3 DEF UnitCost
<1> HIDE DEF UnitCost
<1>5. q * UnitCost(price, Config.fee) \in Int /\ q * (20000 * price - UnitCost(price, Config.fee)) \in Int
  BY <1>4
<1> QED BY <1>5 DEF Paid

\* A purchase adds its price for every lot.
LEMMA BuyKeeps ==
  ASSUME kind \in Kinds, Core, ~stopped, NEW s, DOMAIN s = Fields, SumsOK(s),
         NEW price \in 1 .. 99, kind # "late_favorite" => price \in FillPrices, NEW q \in Nat, q > 0
  PROVE  SumsOK(Fill(s, "buy", price, q))
<1> DEFINE t == Fill(s, "buy", price, q)
<1>1. /\ t.position = s.position + q /\ t.cash = s.cash + Paid("buy", price, q)
      /\ t.qty = s.qty + q /\ t.cost = s.cost + price * q
  <2>1. t.position = s.position + q /\ t.cash = s.cash + Paid("buy", price, q)
    BY FillFields
  <2>2. t.qty = EntrySums(s, "buy", price, q).q /\ t.cost = EntrySums(s, "buy", price, q).c
    BY FillHeard
  <2> HIDE DEF t
  <2> QED BY <2>1, <2>2 DEF EntrySums
<1> HIDE DEF t
<1>2. Paid("buy", price, q) \in Int
  BY PaidInt
<1>3. price * q \in Int
  OBVIOUS
<1>4. t.qty \in Nat /\ t.qty = t.position /\ t.cost \in Int /\ t.cash \in Int /\ t.qty # 0
  BY <1>1, <1>2, <1>3 DEF SumsOK
<1>5. ASSUME kind # "late_favorite"
      PROVE  Min(FillPrices) * t.qty <= t.cost /\ t.cost <= Max(FillPrices) * t.qty
  <2> DEFINE a == Min(FillPrices)
             b == Max(FillPrices)
  <2>1. a \in Int /\ b \in Int /\ a <= price /\ price <= b
    BY <1>5, PricesBounded
  <2>2. a * s.qty <= s.cost /\ s.cost <= b * s.qty /\ s.qty \in Int /\ s.cost \in Int
    BY <1>5 DEF SumsOK
  <2> HIDE DEF a, b
  <2>3. (price - a) * q >= 0 /\ (b - price) * q >= 0
    BY <2>1, ProductNat
  <2>4. a * (s.qty + q) = a * s.qty + a * q /\ b * (s.qty + q) = b * s.qty + b * q
    BY <2>1, <2>2
  <2>5. (price - a) * q = price * q - a * q /\ (b - price) * q = b * q - price * q
    BY <2>1
  <2>6. a * t.qty <= t.cost /\ t.cost <= b * t.qty
    BY <1>1, <1>3, <2>1, <2>2, <2>3, <2>4, <2>5
  <2> QED BY <2>6 DEF a, b
<1>6. SumsOK(t)
  BY <1>4, <1>5 DEF SumsOK
<1> QED BY <1>6 DEF t

\* A sale within what is held takes the average out.
LEMMA SaleKeeps ==
  ASSUME kind \in Kinds, Core, ~stopped, NEW s, DOMAIN s = Fields, SumsOK(s),
         NEW price \in Nat, NEW q \in Nat, q > 0, q <= s.qty
  PROVE  SumsOK(Fill(s, "sell", price, q))
<1> DEFINE t == Fill(s, "sell", price, q)
           d == (s.cost * q) \div s.qty
<1>0. s.qty \in Nat /\ s.qty = s.position /\ s.cost \in Int /\ s.cash \in Int
  BY DEF SumsOK
<1>1. /\ t.position = s.position - q /\ t.cash = s.cash + Paid("sell", price, q)
      /\ t.qty = s.qty - q /\ t.cost = IF s.qty > q THEN s.cost - d ELSE 0
  <2>1. t.position = s.position - q /\ t.cash = s.cash + Paid("sell", price, q)
    BY FillFields
  <2>2. t.qty = EntrySums(s, "sell", price, q).q /\ t.cost = EntrySums(s, "sell", price, q).c
    BY FillHeard
  <2> HIDE DEF t
  <2>3. t.qty = Positive(s.qty - q) /\ t.cost = IF s.qty > q THEN s.cost - d ELSE 0
    BY <2>2 DEF EntrySums
  <2> HIDE DEF d
  <2> QED BY <1>0, <2>1, <2>3 DEF Positive
<1> HIDE DEF t
<1>2. Paid("sell", price, q) \in Int
  BY PaidInt
<1>3. d \in Int
  <2>1. s.cost * q \in Int
    BY <1>0
  <2> QED BY <1>0, <2>1, Quotient
<1>4. t.qty \in Nat /\ t.qty = t.position /\ t.cost \in Int /\ t.cash \in Int /\ (t.qty = 0 => t.cost = 0)
  <2> HIDE DEF d
  <2> QED BY <1>0, <1>1, <1>2, <1>3
<1>5. ASSUME kind # "late_favorite"
      PROVE  Min(FillPrices) * t.qty <= t.cost /\ t.cost <= Max(FillPrices) * t.qty
  <2> DEFINE a == Min(FillPrices)
             b == Max(FillPrices)
  <2>1. a \in Int /\ b \in Int
    BY PricesBounded
  <2>2. a * s.qty <= s.cost /\ s.cost <= b * s.qty
    BY <1>5 DEF SumsOK
  <2> HIDE DEF a, b
  <2>3. a * (s.qty - q) <= s.cost - d /\ s.cost - d <= b * (s.qty - q)
    <3> DEFINE m == s.qty
               c == s.cost
    <3>1. m \in Int /\ c \in Int /\ 0 < m /\ q <= m /\ 0 <= q /\ a * m <= c /\ c <= b * m
      BY <1>0, <2>2
    <3> HIDE DEF m, c
    <3>2. a * (m - q) <= c - (c * q) \div m /\ c - (c * q) \div m <= b * (m - q)
      BY <2>1, <3>1, SaleBounds
    <3> QED BY <3>2 DEF m, c
  <2> HIDE DEF d
  <2>4. s.qty > q => a * t.qty <= t.cost /\ t.cost <= b * t.qty
    BY <1>0, <1>1, <2>3
  <2>5. s.qty = q => a * t.qty <= t.cost /\ t.cost <= b * t.qty
    <3>1. s.qty = q => t.qty = 0 /\ t.cost = 0
      BY <1>0, <1>1
    <3> QED BY <2>1, <3>1
  <2>6. s.qty > q \/ s.qty = q
    BY <1>0
  <2>7. a * t.qty <= t.cost /\ t.cost <= b * t.qty
    BY <2>4, <2>5, <2>6
  <2> QED BY <2>7 DEF a, b
<1>6. SumsOK(t)
  BY <1>4, <1>5 DEF SumsOK
<1> QED BY <1>6 DEF t

\* Fills at prices there are.
FillsOK(fills, n) ==
  \A i \in 1 .. n : /\ fills[i][1] \in 1 .. 99 /\ fills[i][2] \in Nat /\ fills[i][2] > 0
                    /\ kind # "late_favorite" => fills[i][1] \in FillPrices

\* And so the sums are in order through all the fills of an order: of a sale while it is within
\* what is held.
LEMMA SumsRun ==
  ASSUME kind \in Kinds, Core, ~stopped, SumsOK(State), NEW side \in {"buy", "sell"}, NEW n \in Nat, NEW fills,
         FillsOK(fills, n),
         NEW t, t = Filled(State, side, fills, n)
  PROVE  t.lots \in Nat /\ ((side = "sell" => t.lots <= position) => SumsOK(t))
<1> DEFINE Ran(s) == /\ DOMAIN s = Fields /\ s.lots \in Nat
                     /\ side = "sell" => s.position = position - s.lots
                     /\ (side = "sell" => s.lots <= position) => SumsOK(s)
<1>1. PICK at : Stages(at, State, side, fills, n) /\ t = at[n]
  BY FilledStages
<1> DEFINE Good == {i \in 0 .. n : Ran(at[i])}
<1>2. at[0] = State /\ \A i \in 1 .. n : at[i] = Fill(at[i - 1], side, fills[i][1], fills[i][2])
  <2>1. 0 \in 0 .. n /\ \A i \in 1 .. n : i \in 0 .. n /\ i # 0
    OBVIOUS
  <2> QED BY <1>1, <2>1 DEF Stages
<1>0. position \in Int
  BY DEF SumsOK, State
<1>3. 0 \in Good
  <2>1. DOMAIN State = Fields /\ State.lots = 0 /\ State.position = position
    BY DEF State, Fields
  <2> QED BY <1>0, <1>2, <2>1
<1>4. \A i \in 1 .. n : i - 1 \in Good => i \in Good
  <2> TAKE i \in 1 .. n
  <2> HAVE i - 1 \in Good
  <2> DEFINE s == at[i - 1]
             p == fills[i][1]
             q == fills[i][2]
  <2>1. Ran(s) /\ at[i] = Fill(s, side, p, q)
    BY <1>2
  <2>2. p \in 1 .. 99 /\ q \in Nat /\ q > 0 /\ (kind # "late_favorite" => p \in FillPrices)
    BY DEF FillsOK
  <2> HIDE DEF s, p, q, Good
  <2>3. DOMAIN Fill(s, side, p, q) = Fields /\ Fill(s, side, p, q).lots = s.lots + q
    BY <2>1, FillFields
  <2>4. side = "sell" => Fill(s, side, p, q).position = position - Fill(s, side, p, q).lots
    <3> HAVE side = "sell"
    <3>1. Fill(s, side, p, q).position = s.position - q
      BY <2>1, FillFields
    <3> QED BY <1>0, <2>1, <2>2, <2>3, <3>1
  <2>5. (side = "sell" => Fill(s, side, p, q).lots <= position) => SumsOK(Fill(s, side, p, q))
    <3>1. CASE side = "buy"
      BY <2>1, <2>2, <3>1, BuyKeeps
    <3>2. CASE side = "sell"
      <4> HAVE side = "sell" => Fill(s, side, p, q).lots <= position
      <4>1. s.lots + q <= position
        BY <2>3, <3>2
      <4>2. SumsOK(s) /\ s.position = position - s.lots
        BY <1>0, <2>1, <2>2, <3>2, <4>1
      <4>3. q <= s.qty
        BY <1>0, <2>1, <2>2, <4>1, <4>2 DEF SumsOK
      <4>4. p \in Nat
        BY <2>2
      <4> QED BY <2>1, <2>2, <3>2, <4>2, <4>3, <4>4, SaleKeeps
    <3> QED BY <3>1, <3>2
  <2>6. Ran(Fill(s, side, p, q))
    BY <2>1, <2>2, <2>3, <2>4, <2>5
  <2> QED BY <2>1, <2>6 DEF Good
<1>5. n \in Good
  <2> HIDE DEF Good
  <2> QED BY <1>3, <1>4, UpTo
<1> QED BY <1>1, <1>5

\* A strategy that has stopped hears of nothing.
LEMMA StoppedRun ==
  ASSUME stopped, NEW side, NEW n \in Nat, NEW fills, NEW t, t = Filled(State, side, fills, n)
  PROVE  DOMAIN t = Fields /\ t.mem = mem /\ t.pending = pending
<1> DEFINE Ran(s) == DOMAIN s = Fields /\ s.mem = mem /\ s.pending = pending
<1>1. PICK at : Stages(at, State, side, fills, n) /\ t = at[n]
  BY FilledStages
<1> DEFINE Good == {i \in 0 .. n : Ran(at[i])}
<1>2. at[0] = State /\ \A i \in 1 .. n : at[i] = Fill(at[i - 1], side, fills[i][1], fills[i][2])
  <2>1. 0 \in 0 .. n /\ \A i \in 1 .. n : i \in 0 .. n /\ i # 0
    OBVIOUS
  <2> QED BY <1>1, <2>1 DEF Stages
<1>3. 0 \in Good
  <2>1. DOMAIN State = Fields /\ State.mem = mem /\ State.pending = pending
    BY DEF State, Fields
  <2> QED BY <1>2, <2>1
<1>4. \A i \in 1 .. n : i - 1 \in Good => i \in Good
  <2> TAKE i \in 1 .. n
  <2> HAVE i - 1 \in Good
  <2>1. Ran(at[i - 1]) /\ at[i] = Fill(at[i - 1], side, fills[i][1], fills[i][2])
    BY <1>2
  <2>2. Ran(Fill(at[i - 1], side, fills[i][1], fills[i][2]))
    BY <2>1 DEF Fill, Fields
  <2> QED BY <2>1, <2>2
<1>5. n \in Good
  <2> HIDE DEF Good
  <2> QED BY <1>3, <1>4, UpTo
<1> QED BY <1>1, <1>5
-----------------------------------------------------------------------------
(* Ticks: what a strategy sends                                            *)

\* The quantity of an entry is a number.
LEMMA EntryQuantityInt ==
  ASSUME kind \in Kinds, Core, cash \in Int, NEW tick \in Ticks[kind]
  PROVE  EntryQuantity(Seen(tick), Config, cash) \in Int /\ Seen(tick).entry \in 1 .. 99
<1> DEFINE s == Seen(tick)
           price == ReferencePrice(s)
           unit == UnitCost(price, Config.fee)
           offered == IF s.visible = None THEN Config.size ELSE Min({Config.size, Positive(s.visible)})
           affordable == (97 * (cash \div 100)) \div unit
<1>1. Config.size \in Nat /\ Config.fee \in Nat /\ tick.ask \in 1 .. 99 /\ tick.size \in Nat /\ tick.quote \in BOOLEAN
  BY StrategyAssumption DEF Core, Config
<1>2. s.entry = tick.ask /\ s.visible = IF tick.quote THEN tick.size ELSE None
  BY DEF Seen
<1> HIDE DEF s
<1>3. price \in 1 .. 100
  BY <1>1, <1>2 DEF ReferencePrice
<1> HIDE DEF price
<1>4. unit \in Int /\ unit > 0
  <2> DEFINE fee == Config.fee
             spread == price * (100 - price)
  <2>1. fee \in Int /\ fee >= 0 /\ spread \in Int /\ spread >= 0
    BY <1>1, <1>3, ProductNat
  <2>2. fee * price * (100 - price) = fee * spread
    BY <1>1, <1>3
  <2> HIDE DEF fee, spread
  <2>3. fee * spread \in Int /\ fee * spread >= 0
    BY <2>1, ProductNat
  <2> QED BY <1>3, <2>2, <2>3 DEF UnitCost, fee
<1> HIDE DEF unit
<1>5. affordable \in Int
  <2>1. 97 * (cash \div 100) \in Int
    OBVIOUS
  <2> QED BY <1>4, <2>1, Quotient
<1>6. offered \in Int
  <2>1. Positive(s.visible) \in Nat
    BY <1>1, <1>2 DEF Positive, None
  <2>2. Min({Config.size, Positive(s.visible)}) \in {Config.size, Positive(s.visible)}
    BY <1>1, <2>1, MinOfTwo
  <2> QED BY <1>1, <2>1, <2>2
<1> HIDE DEF offered, affordable
<1>7. Min({offered, affordable}) \in Int
  <2>1. \E x \in {offered, affordable} : \A y \in {offered, affordable} : x <= y
    BY <1>5, <1>6
  <2>2. Min({offered, affordable}) \in {offered, affordable}
    BY <2>1 DEF Min
  <2> QED BY <1>5, <1>6, <2>2
<1> QED BY <1>1, <1>2, <1>7 DEF EntryQuantity, offered, affordable, unit, price, s

\* An order a strategy may send.
OrderOK(order) ==
  /\ order.do = "limit" => kind = "late_favorite"
  /\ kind = "late_favorite" => order.do # "exit"
  /\ order.do # "exit" /\ (Once(kind) \/ Counting(kind)) => Counted(kind, mem) < Allowed(kind)
  /\ kind = "q4_totals" => order.do = "buy"
  /\ kind = "mispricing" /\ order.do # "exit" => ~mem.inPos
  /\ Core => CoreOrder(order)

\* Data and ticks change the memory but for what was entered, and one order is sent at most.
Sends ==
  /\ ~stopped /\ UNCHANGED <<kind, qty, cost, resting, position, cash, stopped, bought>>
  /\ Kept(kind, mem, [mem |-> mem'])
  /\ \/ UNCHANGED <<pending, orders>>
     \/ /\ pending' = TRUE /\ (kind # "fair_value" => ~pending) /\ (kind = "late_favorite" => ~mem.entered)
        /\ \/ orders' = orders
           \/ \E order : orders' = Append(orders, order) /\ OrderOK(order)

\* on_data sends nothing.
LEMMA DataSends == TypesOK /\ Data => Sends
<1> SUFFICES ASSUME TypesOK, Data PROVE Sends
  OBVIOUS
<1>1. kind = "demo" /\ ~stopped
      /\ UNCHANGED <<kind, pending, qty, cost, orders, resting, position, cash, stopped, bought>>
  BY DEF Data, engineVars, historyVars
<1>2. Kept(kind, mem, [mem |-> mem'])
  BY <1>1 DEF Kept, MemOK, Once, Counting
<1> QED BY <1>1, <1>2 DEF Sends

\* A tick sends what Sends says: what the handler decides is of the form Decides.
LEMMA TickSends == TypesOK /\ SumsInv /\ Tick => Sends
<1> SUFFICES ASSUME TypesOK, SumsInv, Tick PROVE Sends
  OBVIOUS
<1>1. PICK tick \in Ticks[kind], signal \in {"enter", "exit", "none"} :
        LET decision == OnTick(kind, Config, mem, tick, View, signal)
        IN  /\ mem' = decision.mem
            /\ CASE decision.do \in {"enter", "limit"} -> SubmitEntry(decision.do, Seen(tick))
                 [] decision.do \in {"buy", "sell"} ->
                      Submit([do |-> decision.do, qty |-> decision.qty, price |-> 0])
                 [] decision.do = "exit" -> SubmitExit
                 [] OTHER -> UNCHANGED <<pending, orders, denied>>
  BY DEF Tick
<1>2. ~stopped /\ UNCHANGED <<kind, qty, cost, resting, position, cash, stopped, bought>>
  BY DEF Tick
<1> DEFINE d == OnTick(kind, Config, mem, tick, View, signal)
<1>3. Decides(kind, Configs[kind], mem, View, d)
  BY TickDecides DEF TypesOK, Config
<1>4. /\ mem' = d.mem
      /\ d.do \in {"enter", "limit"} => SubmitEntry(d.do, Seen(tick))
      /\ d.do \in {"buy", "sell"} => Submit([do |-> d.do, qty |-> d.qty, price |-> 0])
      /\ d.do = "exit" => SubmitExit
      /\ d.do = "hold" => UNCHANGED <<pending, orders>>
  <2> HIDE DEF d
  <2> QED BY <1>1 DEF d
<1> HIDE DEF d
<1>5. Kept(kind, mem, [mem |-> mem'])
  BY <1>3, <1>4 DEF Decides, Kept
<1>6. kind # "fair_value" /\ d.do # "hold" => ~pending
  BY <1>3 DEF Decides, View
<1>7. kind = "late_favorite" /\ d.do # "hold" => ~mem.entered
  BY <1>3 DEF Decides
<1>8. d.do \in {"hold", "enter", "limit", "buy", "sell", "exit"}
  BY <1>3 DEF Decides
<1>9. CASE d.do = "hold"
  BY <1>2, <1>4, <1>5, <1>9 DEF Sends
<1>10. CASE d.do \in {"enter", "limit"}
  <2> DEFINE q == EntryQuantity(Seen(tick), Config, cash)
             order == [do |-> d.do, qty |-> q, price |-> Seen(tick).entry]
  <2>1. (q > 0 /\ Submit(order)) \/ UNCHANGED <<pending, orders>>
    BY <1>4, <1>10 DEF SubmitEntry
  <2>2. order.do = d.do /\ order.qty = q /\ order.price = Seen(tick).entry
    OBVIOUS
  <2>3. ASSUME q > 0, Core PROVE CoreOrder(order)
    <3>1. cash \in Int
      BY <1>2, <2>3 DEF SumsInv, SumsOK, State
    <3>2. q \in Int /\ Seen(tick).entry \in 1 .. 99
      BY <2>3, <3>1, EntryQuantityInt DEF TypesOK
    <3> HIDE DEF q, order
    <3>3. q \in Nat
      BY <2>3, <3>2
    <3> QED BY <1>10, <2>2, <3>2, <3>3 DEF CoreOrder
  <2> HIDE DEF q, order
  <2>4. q > 0 => OrderOK(order)
    <3>1. q > 0 /\ Core => CoreOrder(order)
      BY <2>3
    <3>2. /\ d.do = "limit" => kind = "late_favorite"
          /\ kind = "late_favorite" => d.do # "exit"
          /\ d.do # "exit" /\ (Once(kind) \/ Counting(kind)) => Counted(kind, mem) < Allowed(kind)
          /\ kind # "q4_totals"
          /\ kind # "mispricing"
      BY <1>3, <1>10 DEF Decides
    <3> QED BY <2>2, <3>1, <3>2 DEF OrderOK
  <2> QED BY <1>2, <1>5, <1>6, <1>7, <1>10, <2>1, <2>4 DEF Sends, Submit
<1>11. CASE d.do \in {"buy", "sell"}
  <2> DEFINE order == [do |-> d.do, qty |-> d.qty, price |-> 0]
  <2>1. Submit(order)
    BY <1>4, <1>11
  <2>2. order.do = d.do
    OBVIOUS
  <2> HIDE DEF order
  <2>3. OrderOK(order)
    BY <1>3, <1>11, <2>2 DEF OrderOK, Decides, Core
  <2> QED BY <1>2, <1>5, <1>6, <1>7, <1>11, <2>1, <2>3 DEF Sends, Submit
<1>12. CASE d.do = "exit"
  <2> DEFINE order == [do |-> "exit", qty |-> IF position > 0 THEN position ELSE -position, price |-> 0]
  <2>1. pending' = TRUE /\ orders' = orders \o ClosingOrder
    BY <1>4, <1>12 DEF SubmitExit
  <2>2. \E S : orders \in Seq(S)
    BY DEF TypesOK
  <2>3. orders' = orders \/ orders' = Append(orders, order)
    <3>1. ClosingOrder = <<>> \/ ClosingOrder = <<order>>
      BY DEF ClosingOrder
    <3> HIDE DEF order
    <3>2. orders \o <<>> = orders /\ orders \o <<order>> = Append(orders, order)
      BY <2>2
    <3> QED BY <2>1, <3>1, <3>2
  <2>4. order.do = "exit" /\ order.qty = (IF position > 0 THEN position ELSE -position)
    OBVIOUS
  <2> HIDE DEF order
  <2>5. Core => position \in Nat
    BY <1>2 DEF SumsInv, SumsOK, State
  <2>6. OrderOK(order)
    BY <1>3, <1>12, <2>4, <2>5 DEF OrderOK, CoreOrder, Decides
  <2> QED BY <1>2, <1>5, <1>6, <1>7, <1>12, <2>1, <2>3, <2>6 DEF Sends
<1> QED BY <1>8, <1>9, <1>10, <1>11, <1>12

\* The inductive invariant.
Inv == TypesOK /\ OrdersInv /\ EntriesInv /\ SumsInv

\* What is kept of the memory when no order is filled.
LEMMA KeptKeeps ==
  ASSUME NEW k, NEW m, MemOK(k, m), NEW n, Kept(k, m, [mem |-> n])
  PROVE  /\ MemOK(k, n)
         /\ Once(k) \/ Counting(k) => Counted(k, n) = Counted(k, m)
         /\ k = "mispricing" => n.inPos = m.inPos
         /\ k = "late_favorite" /\ m.entered => n.entered
<1>1. MemOK(k, n) /\ (Once(k) \/ Counting(k) => Counted(k, n) = Counted(k, m)) /\ (k = "mispricing" => n.inPos = m.inPos)
  BY DEF Kept
<1>2. k = "late_favorite" /\ m.entered => n.entered
  <2> HAVE k = "late_favorite" /\ m.entered
  <2>1. Counted(k, n) = Counted(k, m)
    BY <1>1 DEF Once
  <2>2. Counted(k, n) = (IF n.entered THEN 1 ELSE 0) /\ Counted(k, m) = 1
    BY DEF Counted
  <2> QED BY <2>1, <2>2
<1> QED BY <1>1, <1>2

\* Ticks and data keep the invariant.
LEMMA SendsKeep == Inv /\ Sends => Inv'
<1> SUFFICES ASSUME Inv, Sends PROVE Inv'
  OBVIOUS
<1>1. /\ ~stopped /\ UNCHANGED <<kind, qty, cost, resting, position, cash, stopped, bought>>
      /\ kind \in Kinds /\ pending \in BOOLEAN /\ bought \in Nat /\ MemOK(kind, mem)
      /\ resting.qty \in Int /\ resting.filled \in BOOLEAN
  BY DEF Sends, Inv, TypesOK
<1>2. PICK S : orders \in Seq(S)
  BY DEF Inv, TypesOK
<1>3. /\ MemOK(kind, mem')
      /\ Once(kind) \/ Counting(kind) => Counted(kind, mem') = Counted(kind, mem)
      /\ kind = "mispricing" => mem'.inPos = mem.inPos
      /\ kind = "late_favorite" /\ mem.entered => mem'.entered
  <2>1. Kept(kind, mem, [mem |-> mem'])
    BY DEF Sends
  <2> QED BY <1>1, <2>1, KeptKeeps
<1>4. SumsOK(State)' <=> SumsOK(State)
  BY <1>1 DEF SumsOK, State
<1>5. CASE UNCHANGED <<pending, orders>>
  <2>1. TypesOK'
    BY <1>1, <1>2, <1>3, <1>5 DEF Inv, TypesOK
  <2>2. OrdersInv'
    BY <1>1, <1>3, <1>5 DEF Inv, OrdersInv
  <2>3. EntriesInv'
    BY <1>1, <1>3, <1>5 DEF Inv, EntriesInv, EntryWaits, Once, Counting, Allowed, Config
  <2>4. SumsInv'
    BY <1>1, <1>4, <1>5 DEF Inv, SumsInv, Core, CoreOrder
  <2> QED BY <2>1, <2>2, <2>3, <2>4 DEF Inv
<1>6. CASE pending' = TRUE /\ (kind # "fair_value" => ~pending) /\ (kind = "late_favorite" => ~mem.entered) /\ orders' = orders
  <2>1. TypesOK'
    BY <1>1, <1>2, <1>3, <1>6 DEF Inv, TypesOK
  <2>2. OrdersInv'
    BY <1>1, <1>3, <1>6 DEF Inv, OrdersInv
  <2>3. EntriesInv'
    BY <1>1, <1>3, <1>6 DEF Inv, EntriesInv, EntryWaits, Once, Counting, Allowed, Config
  <2>4. SumsInv'
    BY <1>1, <1>4, <1>6 DEF Inv, SumsInv, Core, CoreOrder
  <2> QED BY <2>1, <2>2, <2>3, <2>4 DEF Inv
<1>7. ASSUME pending' = TRUE, kind # "fair_value" => ~pending, kind = "late_favorite" => ~mem.entered,
             NEW order, orders' = Append(orders, order), OrderOK(order)
      PROVE  Inv'
  <2>1. /\ orders' \in Seq(S \union {order}) /\ Len(orders') = Len(orders) + 1
        /\ \A i \in DOMAIN orders' : (i \in DOMAIN orders /\ orders'[i] = orders[i]) \/ (i = Len(orders) + 1 /\ orders'[i] = order)
    BY <1>2, <1>7
  <2>2. kind # "fair_value" => orders = <<>> /\ ~(resting.qty > 0)
    BY <1>1, <1>7 DEF Inv, OrdersInv
  <2>3. TypesOK'
    BY <1>1, <1>3, <1>7, <2>1 DEF Inv, TypesOK
  <2>4. OrdersInv'
    <3>1. (\A i \in DOMAIN orders : orders[i].do = "limit" => kind = "late_favorite")'
      BY <1>1, <1>7, <2>1 DEF Inv, OrdersInv, OrderOK
    <3>2. (kind = "late_favorite" /\ ~stopped => \A i \in DOMAIN orders : orders[i].do # "exit")'
      BY <1>1, <1>7, <2>1 DEF Inv, OrdersInv, OrderOK
    <3>3. kind # "fair_value" => Len(orders') = 1
      BY <2>1, <2>2
    <3>4. (resting.qty > 0 => kind = "late_favorite" /\ ~stopped)'
      BY <1>1 DEF Inv, OrdersInv
    <3> QED BY <1>1, <1>7, <2>2, <3>1, <3>2, <3>3, <3>4 DEF OrdersInv
  <2>5. EntriesInv'
    <3> SUFFICES ASSUME Once(kind) \/ Counting(kind) PROVE EntriesInv'
      BY <1>1 DEF EntriesInv, Once, Counting
    <3>1. kind # "fair_value"
      BY DEF Once, Counting
    <3>2. orders' = <<order>> /\ orders'[1] = order /\ DOMAIN orders' = {1} /\ Head(orders') = order /\ orders' # <<>>
      BY <1>7, <2>2, <3>1
    <3>3. bought <= Counted(kind, mem) /\ Counted(kind, mem) \in Nat /\ Allowed(kind) \in Nat /\ bought <= Allowed(kind)
      <4>1. Counted(kind, mem) \in Nat /\ Allowed(kind) \in Nat
        BY <1>1, CountedNat, StartsEmpty
      <4>2. bought + 0 + 0 <= Allowed(kind)
        BY <2>2, <3>1 DEF Inv, EntriesInv, EntryWaits
      <4> QED BY <1>1, <4>1, <4>2 DEF Inv, EntriesInv
    <3>4. order.do # "exit" => bought + 1 <= Allowed(kind)
      BY <1>1, <1>7, <3>3 DEF OrderOK
    <3>5. (\A i \in DOMAIN orders : i > 1 => orders[i].do = "exit")'
      BY <3>2
    <3>6. (bought + (IF EntryWaits THEN 1 ELSE 0) + (IF resting.qty > 0 /\ ~resting.filled THEN 1 ELSE 0) <= Allowed(kind))'
      <4>1. EntryWaits' <=> order.do # "exit"
        BY <3>2 DEF EntryWaits
      <4>2. ~(resting'.qty > 0) /\ bought' = bought /\ Allowed(kind)' = Allowed(kind)
        BY <1>1, <2>2, <3>1
      <4> QED BY <1>1, <3>3, <3>4, <4>1, <4>2
    <3>7. (bought <= Counted(kind, mem))'
      BY <1>1, <1>3, <3>3
    <3>8. (kind = "q4_totals" => \A i \in DOMAIN orders : orders[i].do = "buy")'
      BY <1>1, <1>7, <3>2 DEF OrderOK
    <3>9. (kind = "mispricing" /\ EntryWaits => ~mem.inPos)'
      BY <1>1, <1>3, <1>7, <3>2 DEF OrderOK, EntryWaits
    <3>10. ~(resting'.qty > 0)
      BY <1>1, <2>2, <3>1
    <3> QED BY <3>5, <3>6, <3>7, <3>8, <3>9, <3>10 DEF EntriesInv
  <2>6. SumsInv'
    <3> SUFFICES ASSUME Core PROVE SumsInv'
      BY <1>1 DEF SumsInv, Core
    <3>1. SumsOK(State)' /\ resting'.qty \in Nat /\ (resting'.qty > 0 => resting'.price \in 1 .. 99)
      BY <1>1, <1>4 DEF Inv, SumsInv
    <3>2. \A i \in DOMAIN orders' : CoreOrder(orders'[i])
      BY <1>1, <1>7, <2>1 DEF Inv, SumsInv, OrderOK
    <3> QED BY <3>1, <3>2 DEF SumsInv, CoreOrder
  <2> QED BY <2>3, <2>4, <2>5, <2>6 DEF Inv
<1> QED BY <1>5, <1>6, <1>7 DEF Sends
-----------------------------------------------------------------------------
(* The arrival of an order                                                 *)

\* The state after the fills of an order, and what rests of it.
ArrivedTo(order, n, rests, f) ==
  LET rest == order.qty - f.lots
      to   == IF rest > 0 /\ ~rests THEN Refused(f) ELSE f
  IN  /\ f.lots <= Limit(order)
      /\ Become(to)
      /\ resting' = IF rests /\ rest > 0 THEN [qty |-> rest, price |-> order.price, filled |-> n > 0] ELSE resting
      /\ bought' = IF order.do # "exit" /\ n > 0 THEN bought + 1 ELSE bought

\* A refusal changes the flag alone.
LEMMA RefusedFields ==
  ASSUME NEW f, DOMAIN f = Fields, NEW b \in BOOLEAN, NEW to, to = IF b THEN Refused(f) ELSE f
  PROVE  /\ DOMAIN to = Fields /\ to.mem = f.mem /\ to.qty = f.qty /\ to.cost = f.cost
         /\ to.position = f.position /\ to.cash = f.cash
         /\ to.pending = f.pending \/ (~stopped /\ to.pending = FALSE)
         /\ ~b => to.pending = f.pending
BY DEF Refused, Fields

\* Fills of a running strategy of core.py leave the sums in order, whatever order came.
LEMMA SumsArrive ==
  ASSUME Inv, Core, ~stopped, NEW order, CoreOrder(order), kind = "late_favorite" => order.do # "exit",
         order.do = "limit" => kind = "late_favorite", NEW n \in Nat,
         NEW fills \in Pieces(n, Limit(order), IF order.do = "limit" THEN {order.price} ELSE FillPrices),
         NEW f, f = Filled(State, SideOf(order), fills, n), f.lots <= Limit(order)
  PROVE  f.lots \in Nat /\ SumsOK(f)
<1>1. SumsOK(State) /\ kind \in Kinds /\ qty \in Nat /\ position = qty
  BY DEF Inv, TypesOK, SumsInv, SumsOK, State
<1>2. order.qty \in Nat /\ order.do \in {"enter", "limit", "exit"}
  BY DEF CoreOrder
<1>3. Limit(order) \in Nat /\ (order.do = "exit" => Limit(order) <= position)
  <2>1. CASE order.do # "exit"
    BY <1>2, <2>1 DEF Limit
  <2>2. CASE order.do = "exit"
    <3>1. (IF position > 0 THEN position ELSE -position) = position /\ position \in Nat
      BY <1>1
    <3>2. Limit(order) = Min({order.qty, position})
      BY <2>2, <3>1 DEF Limit
    <3> QED BY <1>2, <3>1, <3>2, MinOfTwo
  <2> QED BY <2>1, <2>2
<1>4. \A i \in 1 .. n : /\ fills[i][1] \in (IF order.do = "limit" THEN {order.price} ELSE FillPrices)
                       /\ fills[i][2] \in 1 .. Limit(order)
  BY DEF Pieces
<1>5. FillsOK(fills, n)
  <2>1. ASSUME NEW i \in 1 .. n
        PROVE  /\ fills[i][1] \in 1 .. 99 /\ fills[i][2] \in Nat /\ fills[i][2] > 0
               /\ kind # "late_favorite" => fills[i][1] \in FillPrices
    <3>1. fills[i][2] \in Nat /\ fills[i][2] > 0
      BY <1>3, <1>4
    <3>2. CASE order.do = "limit"
      <4>1. fills[i][1] = order.price /\ order.price \in 1 .. 99 /\ kind = "late_favorite"
        BY <1>4, <3>2 DEF CoreOrder
      <4> QED BY <3>1, <4>1
    <3>3. CASE order.do # "limit"
      <4>1. fills[i][1] \in FillPrices
        BY <1>4, <3>3
      <4> QED BY <3>1, <4>1, StrategyAssumption
    <3> QED BY <3>2, <3>3
  <2> QED BY <2>1 DEF FillsOK
<1>6. SideOf(order) \in {"buy", "sell"}
  BY DEF SideOf
<1>7. SideOf(order) = "sell" => order.do = "exit"
  BY <1>2 DEF SideOf
<1>8. f.lots \in Nat /\ ((SideOf(order) = "sell" => f.lots <= position) => SumsOK(f))
  BY <1>1, <1>5, <1>6, SumsRun
<1>9. SideOf(order) = "sell" => f.lots <= position
  BY <1>1, <1>3, <1>7, <1>8
<1> QED BY <1>8, <1>9

\* The arrival of an order keeps the invariant: its fills are of the entry that waited, or of
\* what is held.
LEMMA ArriveKeeps == Inv /\ Arrive => Inv'
<1> SUFFICES ASSUME Inv, Arrive PROVE Inv'
  OBVIOUS
<1> DEFINE order == Head(orders)
           side == SideOf(order)
<1>0. PICK n \in 0 .. Levels, rests \in (IF order.do = "limit" /\ ~stopped THEN BOOLEAN ELSE {FALSE}) :
        \E fills \in Pieces(n, Limit(order), IF order.do = "limit" THEN {order.price} ELSE FillPrices) :
          ArrivedTo(order, n, rests, Filled(State, side, fills, n))
  BY DEF Arrive, ArrivedTo
<1>1. PICK fills \in Pieces(n, Limit(order), IF order.do = "limit" THEN {order.price} ELSE FillPrices) :
        ArrivedTo(order, n, rests, Filled(State, side, fills, n))
  BY <1>0
<1>2. orders # <<>> /\ orders' = Tail(orders) /\ UNCHANGED <<kind, now, stopped, denied>>
  BY DEF Arrive
<1>3. /\ kind \in Kinds /\ pending \in BOOLEAN /\ stopped \in BOOLEAN /\ bought \in Nat /\ MemOK(kind, mem)
      /\ DOMAIN resting = {"qty", "price", "filled"} /\ resting.qty \in Int /\ resting.filled \in BOOLEAN
  BY DEF Inv, TypesOK
<1>3a. n \in Nat /\ rests \in BOOLEAN /\ (rests => order.do = "limit" /\ ~stopped)
  <2>1. Levels \in Nat
    BY StrategyAssumption
  <2>2. n \in Nat
    BY <2>1
  <2> HIDE DEF order
  <2>3. CASE order.do = "limit" /\ ~stopped
    BY <2>2, <2>3
  <2>4. CASE ~(order.do = "limit" /\ ~stopped)
    BY <2>2, <2>4
  <2> QED BY <2>3, <2>4
<1>4. PICK S : orders \in Seq(S)
  BY DEF Inv, TypesOK
<1>5. /\ 1 \in DOMAIN orders /\ order = orders[1]
      /\ orders' \in Seq(S) /\ Len(orders') = Len(orders) - 1 /\ Len(orders) \in Nat
      /\ \A i \in DOMAIN orders' : i + 1 \in DOMAIN orders /\ i + 1 > 1 /\ orders'[i] = orders[i + 1]
  BY <1>2, <1>4
<1>6. ~(resting.qty > 0)
  <2>1. resting.qty > 0 => kind = "late_favorite" /\ ~stopped
    BY DEF Inv, OrdersInv
  <2>2. resting.qty > 0 => orders = <<>>
    BY <2>1 DEF Inv, OrdersInv
  <2> QED BY <1>2, <2>2
<1>7. /\ order.do = "limit" => kind = "late_favorite"
      /\ kind = "late_favorite" /\ ~stopped => order.do # "exit"
      /\ Core /\ ~stopped => CoreOrder(order)
      /\ ~stopped /\ kind # "fair_value" => orders' = <<>> /\ pending
  <2>1. ~stopped /\ kind # "fair_value" => Len(orders) <= 1 /\ pending
    BY <1>2, <1>3 DEF Inv, OrdersInv
  <2>2. Len(orders) <= 1 => orders' = <<>>
    BY <1>5
  <2> QED BY <1>5, <2>1, <2>2 DEF Inv, OrdersInv, SumsInv
<1>8. side \in {"buy", "sell"} /\ (order.do \in {"enter", "limit", "buy"} => side = "buy")
  BY DEF SideOf
<1> DEFINE f == Filled(State, side, fills, n)
           b == order.qty - f.lots > 0 /\ ~rests
           to == IF b THEN Refused(f) ELSE f
           rest == order.qty - f.lots
<1>9. /\ f.lots <= Limit(order) /\ Become(to)
      /\ resting' = IF rests /\ rest > 0 THEN [qty |-> rest, price |-> order.price, filled |-> n > 0] ELSE resting
      /\ bought' = IF order.do # "exit" /\ n > 0 THEN bought + 1 ELSE bought
  BY <1>1 DEF ArrivedTo
<1> HIDE DEF order, side
<1>10. ~stopped => \A i \in 1 .. n : fills[i][1] \in Nat
  <2> SUFFICES ASSUME ~stopped, NEW i \in 1 .. n PROVE fills[i][1] \in Nat
    OBVIOUS
  <2>1. fills[i][1] \in (IF order.do = "limit" THEN {order.price} ELSE FillPrices)
    BY DEF Pieces
  <2>2. CASE order.do = "limit"
    <3>1. Core
      BY <1>7, <2>2 DEF Core, CoreKinds
    <3>2. order.price \in 1 .. 99
      BY <1>7, <2>2, <3>1 DEF CoreOrder
    <3> QED BY <2>1, <2>2, <3>2
  <2>3. CASE order.do # "limit"
    BY <2>1, <2>3, PricesBounded
  <2> QED BY <2>2, <2>3
<1>11. ~stopped => MemRan(f, side, n)
  <2> HIDE DEF f
  <2> SUFFICES ASSUME ~stopped PROVE MemRan(f, side, n)
    OBVIOUS
  <2>1. \A i \in 1 .. n : fills[i][1] \in Nat
    BY <1>10
  <2> QED BY <1>3, <1>8, <2>1, MemRuns DEF f
<1>12. DOMAIN f = Fields /\ (stopped => f.mem = mem /\ f.pending = pending)
  <2>1. CASE stopped
    BY <1>3, <2>1, StoppedRun
  <2>2. CASE ~stopped
    BY <1>11, <2>2 DEF MemRan
  <2> QED BY <1>3, <2>1, <2>2
<1> HIDE DEF f
<1>13. /\ DOMAIN to = Fields /\ to.mem = f.mem /\ to.qty = f.qty /\ to.cost = f.cost
       /\ to.position = f.position /\ to.cash = f.cash
       /\ to.pending = f.pending \/ (~stopped /\ to.pending = FALSE)
       /\ ~b => to.pending = f.pending
  <2>1. b \in BOOLEAN
    OBVIOUS
  <2> HIDE DEF b
  <2> QED BY <1>12, <2>1, RefusedFields
<1> HIDE DEF to
<1>14. /\ mem' = f.mem /\ qty' = f.qty /\ cost' = f.cost /\ position' = f.position /\ cash' = f.cash
       /\ pending' = f.pending \/ (~stopped /\ pending' = FALSE)
       /\ ~b => pending' = f.pending
  BY <1>9, <1>13 DEF Become
<1>15. MemOK(kind, mem') /\ pending' \in BOOLEAN
  <2>1. CASE stopped
    BY <1>3, <1>12, <1>14, <2>1
  <2>2. CASE ~stopped
    <3>1. MemOK(kind, f.mem) /\ f.pending \in BOOLEAN
      <4>1. MemRan(f, side, n) /\ (n = 0 \/ n > 0)
        BY <1>11, <1>3a, <2>2
      <4>2. f.pending = pending \/ f.pending = FALSE
        BY <4>1 DEF MemRan
      <4> QED BY <1>3, <4>1, <4>2 DEF MemRan
    <3> QED BY <1>14, <2>2, <3>1
  <2> QED BY <1>3, <2>1, <2>2
<1>16. Core /\ ~stopped => f.lots \in Nat /\ SumsOK(f)
  BY <1>1, <1>7, <1>9, <1>3a, SumsArrive DEF f, side
<1>17. rests => Core /\ kind = "late_favorite" /\ ~stopped /\ order.do = "limit" /\ order.qty \in Nat /\ f.lots \in Nat /\ order.price \in 1 .. 99
  <2> HAVE rests
  <2>1. kind = "late_favorite" /\ ~stopped /\ order.do = "limit"
    BY <1>3, <1>7
  <2>2. Core
    BY <2>1 DEF Core, CoreKinds
  <2> QED BY <1>7, <1>16, <2>1, <2>2 DEF CoreOrder
<1>18. /\ DOMAIN resting' = {"qty", "price", "filled"} /\ resting'.qty \in Int /\ resting'.filled \in BOOLEAN
       /\ resting'.qty > 0 => /\ rests /\ ~b /\ resting'.filled = (n > 0)
                              /\ resting'.qty \in Nat /\ resting'.price \in 1 .. 99
  <2>1. CASE rests /\ rest > 0
    BY <1>3, <1>9, <1>17, <2>1
  <2>2. CASE ~(rests /\ rest > 0)
    BY <1>3, <1>6, <1>9, <2>2
  <2> QED BY <2>1, <2>2
<1> HIDE DEF b, rest
<1>19. TypesOK'
  <2>1. bought' \in Nat
    BY <1>3, <1>9
  <2> QED BY <1>2, <1>3, <1>5, <1>15, <1>18, <2>1 DEF TypesOK
<1>20. OrdersInv'
  <2>1. (\A i \in DOMAIN orders : orders[i].do = "limit" => kind = "late_favorite")'
    BY <1>2, <1>5 DEF Inv, OrdersInv
  <2>2. (kind = "late_favorite" /\ ~stopped => \A i \in DOMAIN orders : orders[i].do # "exit")'
    BY <1>2, <1>5 DEF Inv, OrdersInv
  <2>3. (resting.qty > 0 => kind = "late_favorite" /\ ~stopped)'
    BY <1>2, <1>17, <1>18
  <2>4. ~stopped /\ kind # "fair_value" => orders' = <<>>
    BY <1>7
  <2>5. resting'.qty > 0 => pending' \/ mem'.entered
    <3> HAVE resting'.qty > 0
    <3>1. kind = "late_favorite" /\ ~stopped /\ order.do = "limit" /\ ~b
      BY <1>17, <1>18
    <3>2. MemRan(f, side, n) /\ side = "buy" /\ pending' = f.pending /\ pending /\ mem' = f.mem
      BY <1>7, <1>8, <1>11, <1>14, <3>1
    <3>3. CASE n = 0
      BY <3>2, <3>3 DEF MemRan
    <3>4. CASE n > 0
      BY <3>1, <3>2, <3>4 DEF MemRan
    <3> QED BY <1>3, <3>3, <3>4
  <2>6. (~stopped /\ kind # "fair_value" =>
           /\ Len(orders) <= 1
           /\ ~pending => orders = <<>>
           /\ resting.qty > 0 => orders = <<>> /\ (pending \/ mem.entered))'
    <3> SUFFICES ASSUME ~stopped, kind # "fair_value"
                 PROVE  Len(orders') <= 1 /\ orders' = <<>> /\ (resting'.qty > 0 => pending' \/ mem'.entered)
      BY <1>2
    <3>1. orders' = <<>>
      BY <2>4
    <3>2. Len(orders') <= 1
      BY <3>1
    <3> QED BY <2>5, <3>1, <3>2
  <2> QED BY <2>1, <2>2, <2>3, <2>6 DEF OrdersInv
<1>21. EntriesInv'
  <2> SUFFICES ASSUME Once(kind) \/ Counting(kind) PROVE EntriesInv'
    BY <1>2 DEF EntriesInv, Once, Counting
  <2>0. kind # "fair_value"
    BY DEF Once, Counting
  <2>1. \A i \in DOMAIN orders' : orders'[i].do = "exit"
    BY <1>5 DEF Inv, EntriesInv
  <2>2. ~EntryWaits'
    <3> SUFFICES ASSUME orders' # <<>> PROVE Head(orders').do = "exit"
      BY DEF EntryWaits
    <3>1. 1 \in DOMAIN orders' /\ Head(orders') = orders'[1]
      BY <1>5
    <3> QED BY <2>1, <3>1
  <2>3. Allowed(kind) \in Nat /\ (~stopped => Counted(kind, mem) \in Nat /\ Counted(kind, mem') \in Nat)
    BY <1>3, <1>15, StartsEmpty, CountedNat
  <2>4. bought + (IF order.do # "exit" THEN 1 ELSE 0) <= Allowed(kind)
    <3>1. EntryWaits <=> order.do # "exit"
      BY <1>2 DEF EntryWaits, order
    <3>2. bought + (IF EntryWaits THEN 1 ELSE 0) + 0 <= Allowed(kind)
      BY <1>6 DEF Inv, EntriesInv
    <3> QED BY <1>3, <2>3, <3>1, <3>2
  <2>5. bought' + (IF resting'.qty > 0 /\ ~resting'.filled THEN 1 ELSE 0) <= Allowed(kind)
    <3>1. CASE resting'.qty > 0 /\ ~resting'.filled
      <4>1. n = 0 /\ order.do # "exit"
        BY <1>3, <1>17, <1>18, <3>1
      <4> QED BY <1>3, <1>9, <2>3, <2>4, <3>1, <4>1
    <3>2. CASE ~(resting'.qty > 0 /\ ~resting'.filled)
      BY <1>3, <1>9, <2>3, <2>4, <3>2
    <3> QED BY <3>1, <3>2
  <2>6. ASSUME ~stopped PROVE bought' <= Counted(kind, mem')
    <3>1. MemRan(f, side, n) /\ mem' = f.mem /\ bought <= Counted(kind, mem)
      BY <1>11, <1>14, <2>6 DEF Inv, EntriesInv
    <3>2. kind = "q4_totals" => order.do = "buy" /\ side = "buy"
      BY <1>5, <1>8, <2>6 DEF Inv, EntriesInv
    <3>3. Counted(kind, mem') >= Counted(kind, mem)
      BY <3>1, <3>2 DEF MemRan
    <3>4. CASE order.do = "exit" \/ ~(n > 0)
      <4>1. bought' = bought
        BY <1>9, <3>4
      <4> QED BY <1>3, <2>3, <2>6, <3>1, <3>3, <4>1
    <3>5. CASE order.do # "exit" /\ n > 0
      <4>1. bought' = bought + 1 /\ bought + 1 <= Allowed(kind)
        BY <1>9, <2>4, <3>5
      <4>2. kind = "mispricing" => ~mem.inPos
        <5>1. EntryWaits
          BY <1>2, <3>5 DEF EntryWaits, order
        <5> QED BY <2>6, <5>1 DEF Inv, EntriesInv
      <4>3. kind \notin {"mispricing", "ncaab_totals", "q4_totals"} => Core
        BY DEF Once, Counting, Core, CoreKinds
      <4>4. kind \notin {"mispricing", "ncaab_totals"} => side = "buy"
        BY <1>7, <1>8, <2>6, <3>2, <3>5, <4>3 DEF CoreOrder
      <4>5. Counted(kind, mem') >= (IF Counting(kind) THEN Counted(kind, mem) + 1 ELSE 1)
        <5>1. CASE kind = "mispricing"
          <6>1. Counting(kind)
            BY <5>1 DEF Counting
          <6> QED BY <3>1, <3>5, <4>2, <5>1, <6>1 DEF MemRan
        <5>2. CASE kind = "ncaab_totals"
          <6>1. ~Counting(kind)
            BY <5>2 DEF Counting
          <6> QED BY <3>1, <3>5, <5>2, <6>1 DEF MemRan
        <5>3. CASE kind \notin {"mispricing", "ncaab_totals"}
          BY <3>1, <3>5, <4>4, <5>3 DEF MemRan
        <5> QED BY <5>1, <5>2, <5>3
      <4>6. ~Counting(kind) => Allowed(kind) = 1
        BY DEF Allowed
      <4>7. Counted(kind, mem) \in Nat /\ Counted(kind, mem') \in Nat
        BY <2>3, <2>6
      <4>8. CASE Counting(kind)
        BY <1>3, <3>1, <4>1, <4>5, <4>7, <4>8
      <4>9. CASE ~Counting(kind)
        BY <1>3, <4>1, <4>5, <4>6, <4>7, <4>9
      <4> QED BY <4>8, <4>9
    <3> QED BY <3>4, <3>5
  <2>7. ~stopped => orders' = <<>>
    BY <1>7, <2>0
  <2>8. resting'.qty > 0 /\ resting'.filled => bought' > 0
    <3> HAVE resting'.qty > 0 /\ resting'.filled
    <3>1. n > 0 /\ order.do # "exit"
      BY <1>17, <1>18
    <3> QED BY <1>3, <1>9, <3>1
  <2>9. Once(kind)' = Once(kind) /\ Counting(kind)' = Counting(kind) /\ Allowed(kind)' = Allowed(kind) /\ kind' = kind /\ stopped' = stopped
    BY <1>2 DEF Once, Counting, Allowed
  <2>10. bought' + (IF EntryWaits' THEN 1 ELSE 0) + (IF resting'.qty > 0 /\ ~resting'.filled THEN 1 ELSE 0) <= Allowed(kind)'
    <3>1. bought' \in Nat
      BY <1>3, <1>9
    <3> QED BY <2>2, <2>5, <2>9, <3>1
  <2>11. (~stopped => /\ bought <= Counted(kind, mem)
                      /\ kind = "q4_totals" => \A i \in DOMAIN orders : orders[i].do = "buy"
                      /\ kind = "mispricing" /\ EntryWaits => ~mem.inPos
                      /\ resting.qty > 0 /\ resting.filled => bought > 0)'
    <3> SUFFICES ASSUME ~stopped'
                 PROVE  /\ bought' <= Counted(kind, mem)'
                        /\ \A i \in DOMAIN orders' : orders'[i].do = "buy"
                        /\ ~EntryWaits'
                        /\ resting'.qty > 0 /\ resting'.filled => bought' > 0
      OBVIOUS
    <3>1. ~stopped
      BY <1>2
    <3>2. bought' <= Counted(kind, mem)'
      <4>1. bought' <= Counted(kind, mem')
        BY <2>6, <3>1
      <4> QED BY <2>9, <4>1
    <3>3. \A i \in DOMAIN orders' : orders'[i].do = "buy"
      BY <2>7, <3>1
    <3> QED BY <2>2, <2>8, <3>2, <3>3
  <2>12. (\A i \in DOMAIN orders : i > 1 => orders[i].do = "exit")'
    BY <2>1
  <2> QED BY <2>10, <2>11, <2>12 DEF EntriesInv
<1>22. SumsInv'
  <2> SUFFICES ASSUME Core, ~stopped PROVE SumsInv'
    BY <1>2 DEF SumsInv, Core
  <2>1. SumsOK(f)
    BY <1>16
  <2>2. SumsOK(State)'
    BY <1>2, <1>14, <2>1 DEF SumsOK, State
  <2>3. orders' = <<>>
    BY <1>7 DEF Core, CoreKinds
  <2>4. resting'.qty \in Nat
    BY <1>9, <1>17, <1>18 DEF Inv, SumsInv
  <2> QED BY <1>18, <2>2, <2>3, <2>4 DEF SumsInv
<1> QED BY <1>19, <1>20, <1>21, <1>22 DEF Inv
-----------------------------------------------------------------------------
(* The order in the book, and the end                                      *)

\* So does a fill of the order in the book, which is of late_favorite_limit_hold.py.
LEMMA RestingFillsKeeps == Inv /\ RestingFills => Inv'
<1> SUFFICES ASSUME Inv, RestingFills PROVE Inv'
  OBVIOUS
<1>1. PICK q \in 1 .. resting.qty :
        /\ Become(Fill(State, "buy", resting.price, q))
        /\ resting' = IF q = resting.qty THEN NoLimit ELSE [resting EXCEPT !.qty = @ - q, !.filled = TRUE]
        /\ bought' = IF resting.filled THEN bought ELSE bought + 1
  BY DEF RestingFills
<1>2. resting.qty > 0 /\ UNCHANGED <<kind, orders, now, stopped, denied>>
  BY DEF RestingFills
<1>3. kind = "late_favorite" /\ ~stopped /\ kind \in Kinds /\ Once(kind) /\ ~Counting(kind) /\ Core
  BY <1>2 DEF Inv, TypesOK, OrdersInv, Once, Counting, Core, CoreKinds
<1>4. orders = <<>>
  BY <1>2, <1>3 DEF Inv, OrdersInv
<1>5. /\ MemOK(kind, mem) /\ bought \in Nat /\ resting.qty \in Nat /\ resting.price \in 1 .. 99
      /\ resting.filled \in BOOLEAN /\ DOMAIN resting = {"qty", "price", "filled"} /\ q \in Nat /\ q > 0
      /\ SumsOK(State)
  BY <1>2, <1>3 DEF Inv, TypesOK, SumsInv
<1> DEFINE f == Fill(State, "buy", resting.price, q)
           price == resting.price
<1>6. /\ DOMAIN State = Fields /\ State.mem = mem
  BY DEF State, Fields
<1>7. /\ f.mem = MemOnFill(kind, Configs[kind], mem, "buy", price) /\ f.pending = FALSE
  <2>1. f.mem = MemOnFill(kind, Config, State.mem, "buy", price) /\ f.pending = FALSE
    <3> HIDE DEF price
    <3>1. Fill(State, "buy", price, q).mem = MemOnFill(kind, Config, State.mem, "buy", price)
      BY <1>3, <1>6, FillHeard
    <3>2. Fill(State, "buy", price, q).pending = FALSE
      BY <1>3, <1>6, FillHeard
    <3> QED BY <3>1, <3>2 DEF price
  <2> HIDE DEF f, price
  <2> QED BY <1>6, <2>1 DEF Config
<1>8. SumsOK(f)
  BY <1>3, <1>5, <1>6, BuyKeeps
<1> HIDE DEF f
<1>9. /\ mem' = f.mem /\ qty' = f.qty /\ cost' = f.cost /\ position' = f.position /\ cash' = f.cash
      /\ pending' = f.pending
  BY <1>1 DEF Become, f
<1>10. MemOK(kind, mem') /\ mem'.entered
  <2>1. price \in Nat
    BY <1>5
  <2> HIDE DEF price
  <2>2. Remembers(kind, mem, "buy", f.mem)
    BY <1>3, <1>5, <1>7, <2>1, FillRemembered
  <2> QED BY <1>3, <1>9, <2>2 DEF Remembers
<1>11. Counted(kind, mem') = 1 /\ Allowed(kind) = 1
  BY <1>3, <1>10 DEF Counted, Allowed
<1>12. /\ resting' = NoLimit \/ (resting'.qty = resting.qty - q /\ resting'.filled = TRUE /\ resting'.price = resting.price)
       /\ DOMAIN resting' = {"qty", "price", "filled"} /\ resting'.qty \in Nat /\ resting'.filled \in BOOLEAN
       /\ resting'.qty > 0 => resting'.filled = TRUE /\ resting'.price \in 1 .. 99
  <2>1. CASE q = resting.qty
    BY <1>1, <2>1 DEF NoLimit
  <2>2. CASE q # resting.qty
    <3>1. resting' = [resting EXCEPT !.qty = @ - q, !.filled = TRUE]
      BY <1>1, <2>2
    <3>2. /\ resting'.qty = resting.qty - q /\ resting'.filled = TRUE /\ resting'.price = resting.price
          /\ DOMAIN resting' = {"qty", "price", "filled"}
      BY <1>5, <3>1
    <3>3. resting.qty - q \in Nat
      BY <1>5
    <3> QED BY <1>5, <3>2, <3>3
  <2> QED BY <2>1, <2>2
<1>13. bought' \in Nat /\ bought' <= 1 /\ bought' > 0
  <2>1. bought + 0 + (IF resting.qty > 0 /\ ~resting.filled THEN 1 ELSE 0) <= 1
    BY <1>3, <1>4, <1>11 DEF Inv, EntriesInv, EntryWaits
  <2>2. CASE resting.filled
    <3>1. bought' = bought /\ bought > 0
      BY <1>1, <1>2, <1>3, <2>2 DEF Inv, EntriesInv
    <3> QED BY <1>5, <2>1, <2>2, <3>1
  <2>3. CASE ~resting.filled
    BY <1>1, <1>2, <1>5, <2>1, <2>3
  <2> QED BY <1>5, <2>2, <2>3
<1>14. TypesOK'
  <2>1. (\E S : orders \in Seq(S))'
    BY <1>2 DEF Inv, TypesOK
  <2>2. pending' \in BOOLEAN /\ stopped' \in BOOLEAN
    BY <1>2, <1>7, <1>9 DEF Inv, TypesOK
  <2> QED BY <1>2, <1>3, <1>10, <1>12, <1>13, <2>1, <2>2 DEF TypesOK
<1>15. OrdersInv'
  BY <1>2, <1>3, <1>4, <1>10 DEF OrdersInv
<1>16. EntriesInv'
  <2>1. ~EntryWaits' /\ orders' = <<>> /\ kind' = kind
    BY <1>2, <1>4 DEF EntryWaits
  <2>2. ~(resting'.qty > 0 /\ ~resting'.filled)
    BY <1>12
  <2>3. Allowed(kind)' = 1 /\ Counted(kind, mem)' = 1
    BY <1>2, <1>11 DEF Allowed, Counting
  <2> QED BY <1>3, <1>13, <2>1, <2>2, <2>3 DEF EntriesInv
<1>17. SumsInv'
  <2>1. SumsOK(State)'
    BY <1>2, <1>8, <1>9 DEF SumsOK, State
  <2>2. orders' = <<>>
    BY <1>2, <1>4
  <2> QED BY <1>12, <2>1, <2>2 DEF SumsInv
<1> QED BY <1>14, <1>15, <1>16, <1>17 DEF Inv

\* Its end leaves no order.
LEMMA RestingEndsKeeps == Inv /\ RestingEnds => Inv'
<1> SUFFICES ASSUME Inv, RestingEnds PROVE Inv'
  OBVIOUS
<1>1. resting.qty > 0 /\ Become(Refused(State)) /\ resting' = NoLimit
      /\ UNCHANGED <<kind, orders, stopped, bought>>
  BY DEF RestingEnds, historyVars
<1>2. kind = "late_favorite" /\ ~stopped /\ orders = <<>>
  BY <1>1 DEF Inv, OrdersInv
<1>3. pending' = FALSE /\ UNCHANGED <<mem, qty, cost, position, cash>>
  BY <1>1, <1>2 DEF Become, Refused, State
<1>4. resting'.qty = 0 /\ resting'.filled \in BOOLEAN /\ DOMAIN resting' = {"qty", "price", "filled"}
  BY <1>1 DEF NoLimit
<1>5. TypesOK'
  <2>1. (\E S : orders \in Seq(S))'
    BY <1>1 DEF Inv, TypesOK
  <2>2. pending' \in BOOLEAN /\ stopped' \in BOOLEAN /\ resting'.filled \in BOOLEAN /\ resting'.qty \in Int
    <3>1. pending' \in BOOLEAN
      BY <1>3
    <3>2. stopped' \in BOOLEAN
      BY <1>1 DEF Inv, TypesOK
    <3> QED BY <1>4, <3>1, <3>2
  <2>3. kind' \in Kinds /\ bought' \in Nat /\ MemOK(kind, mem)'
    BY <1>1, <1>3 DEF Inv, TypesOK
  <2> QED BY <1>4, <2>1, <2>2, <2>3 DEF TypesOK
<1>6. OrdersInv'
  BY <1>1, <1>2, <1>4 DEF OrdersInv
<1>7. EntriesInv'
  <2>1. orders' = <<>> /\ ~EntryWaits /\ ~EntryWaits' /\ kind' = kind /\ bought' = bought
    BY <1>1, <1>2 DEF EntryWaits
  <2>2. bought \in Nat /\ Allowed(kind) = 1 /\ Allowed(kind)' = 1 /\ Once(kind)
    BY <1>1, <1>2 DEF Inv, TypesOK, Allowed, Counting, Once
  <2>3. bought <= Counted(kind, mem) /\ bought + 0 + (IF resting.qty > 0 /\ ~resting.filled THEN 1 ELSE 0) <= 1
    BY <1>2, <2>1, <2>2 DEF Inv, EntriesInv
  <2>4. bought + 0 + 0 <= 1
    BY <2>2, <2>3
  <2>5. bought' <= Counted(kind, mem)'
    BY <1>3, <2>1, <2>3
  <2>6. kind' # "q4_totals" /\ ~(resting'.qty > 0)
    BY <1>1, <1>2, <1>4
  <2> QED BY <2>1, <2>2, <2>4, <2>5, <2>6 DEF EntriesInv
<1>8. SumsInv'
  <2> SUFFICES ASSUME Core PROVE SumsInv'
    BY <1>1 DEF SumsInv, Core
  <2>1. SumsOK(State)'
    BY <1>1, <1>2, <1>3 DEF Inv, SumsInv, SumsOK, State
  <2> QED BY <1>1, <1>2, <1>4, <2>1 DEF SumsInv
<1> QED BY <1>5, <1>6, <1>7, <1>8 DEF Inv

\* on_stop sends closing orders at most.
LEMMA StopKeeps == Inv /\ Stop => Inv'
<1> SUFFICES ASSUME Inv, Stop PROVE Inv'
  OBVIOUS
<1> DEFINE order == [do |-> "exit", qty |-> IF position > 0 THEN position ELSE -position, price |-> 0]
<1>1. /\ ~stopped /\ stopped' = TRUE /\ resting' = NoLimit
      /\ UNCHANGED <<kind, mem, pending, bought>>
      /\ orders' = orders \/ orders' = orders \o ClosingOrder
  BY DEF Stop, strategyVars, historyVars
<1>2. PICK S : orders \in Seq(S)
  BY DEF Inv, TypesOK
<1>3. orders' = orders \/ orders' = Append(orders, order)
  <2>1. ClosingOrder = <<>> \/ ClosingOrder = <<order>>
    BY DEF ClosingOrder
  <2> HIDE DEF order
  <2>2. orders \o <<>> = orders /\ orders \o <<order>> = Append(orders, order)
    BY <1>2
  <2> QED BY <1>1, <2>1, <2>2
<1>4. order.do = "exit"
  OBVIOUS
<1> HIDE DEF order
<1>5. /\ orders' \in Seq(S \union {order})
      /\ \A i \in DOMAIN orders' : (i \in DOMAIN orders /\ orders'[i] = orders[i]) \/ orders'[i].do = "exit"
  BY <1>2, <1>3, <1>4
<1>6. resting'.qty = 0 /\ resting'.filled \in BOOLEAN /\ DOMAIN resting' = {"qty", "price", "filled"}
  BY <1>1 DEF NoLimit
<1>7. TypesOK'
  <2>1. (\E T : orders \in Seq(T))'
    BY <1>5
  <2>2. pending' \in BOOLEAN /\ stopped' \in BOOLEAN /\ resting'.filled \in BOOLEAN /\ resting'.qty \in Int
    BY <1>1, <1>6 DEF Inv, TypesOK
  <2>3. kind' \in Kinds /\ bought' \in Nat /\ MemOK(kind, mem)'
    BY <1>1 DEF Inv, TypesOK
  <2> QED BY <1>6, <2>1, <2>2, <2>3 DEF TypesOK
<1>8. OrdersInv'
  BY <1>1, <1>5, <1>6 DEF Inv, OrdersInv
<1>9. EntriesInv'
  <2> SUFFICES ASSUME Once(kind) \/ Counting(kind) PROVE EntriesInv'
    BY <1>1 DEF EntriesInv, Once, Counting
  <2>1. (\A i \in DOMAIN orders : i > 1 => orders[i].do = "exit")'
    BY <1>5 DEF Inv, EntriesInv
  <2>2. EntryWaits' => EntryWaits
    <3> SUFFICES ASSUME EntryWaits' PROVE EntryWaits
      OBVIOUS
    <3>1. orders' # <<>> /\ Head(orders').do # "exit"
      BY DEF EntryWaits
    <3>2. 1 \in DOMAIN orders' /\ Head(orders') = orders'[1]
      BY <1>5, <3>1
    <3>3. 1 \in DOMAIN orders /\ orders'[1] = orders[1]
      BY <1>5, <3>1, <3>2
    <3>4. orders # <<>> /\ Head(orders) = orders[1]
      BY <1>2, <3>3
    <3> QED BY <3>1, <3>2, <3>3, <3>4 DEF EntryWaits
  <2>3. bought \in Nat /\ Allowed(kind) \in Nat /\ Allowed(kind)' = Allowed(kind) /\ bought' = bought
    BY <1>1, StartsEmpty DEF Inv, TypesOK, Allowed, Counting
  <2>4. bought + (IF EntryWaits THEN 1 ELSE 0) <= Allowed(kind)
    <3>1. bought + (IF EntryWaits THEN 1 ELSE 0) + (IF resting.qty > 0 /\ ~resting.filled THEN 1 ELSE 0) <= Allowed(kind)
      BY DEF Inv, EntriesInv
    <3> QED BY <2>3, <3>1
  <2>5. (bought + (IF EntryWaits THEN 1 ELSE 0) + (IF resting.qty > 0 /\ ~resting.filled THEN 1 ELSE 0) <= Allowed(kind))'
    <3>1. ~(resting'.qty > 0)
      BY <1>6
    <3>2. CASE EntryWaits'
      BY <2>2, <2>3, <2>4, <3>1, <3>2
    <3>3. CASE ~EntryWaits'
      BY <2>3, <2>4, <3>1, <3>3
    <3> QED BY <3>2, <3>3
  <2> QED BY <1>1, <2>1, <2>5 DEF EntriesInv
<1>10. SumsInv'
  BY <1>1 DEF SumsInv
<1> QED BY <1>7, <1>8, <1>9, <1>10 DEF Inv
-----------------------------------------------------------------------------
(* The theorems                                                            *)

\* A strategy starts without orders and flat.
LEMMA InvInit == Init => Inv
<1> SUFFICES ASSUME Init PROVE Inv
  OBVIOUS
<1>1. /\ kind \in Kinds /\ mem = StartMem(kind, Configs[kind]) /\ pending = FALSE /\ qty = 0 /\ cost = 0
      /\ orders = <<>> /\ resting = NoLimit /\ position = 0 /\ cash = StartCash /\ stopped = FALSE /\ bought = 0
  BY DEF Init
<1>2. /\ MemOK(kind, mem) /\ Allowed(kind) \in Nat
      /\ Once(kind) \/ Counting(kind) => Counted(kind, mem) = 0
  BY <1>1, StartsEmpty
<1>3. resting.qty = 0 /\ resting.filled \in BOOLEAN /\ DOMAIN resting = {"qty", "price", "filled"}
  BY <1>1 DEF NoLimit
<1>4. orders \in Seq({}) /\ Len(orders) = 0 /\ DOMAIN orders = {}
  BY <1>1
<1>5. TypesOK
  <2>1. \E S : orders \in Seq(S)
    BY <1>4
  <2>2. pending \in BOOLEAN /\ stopped \in BOOLEAN /\ resting.filled \in BOOLEAN /\ resting.qty \in Int /\ bought \in Nat
    <3>1. pending \in BOOLEAN
      BY <1>1
    <3>2. stopped \in BOOLEAN
      BY <1>1
    <3>3. resting.qty \in Int /\ bought \in Nat
      BY <1>1, <1>3
    <3> QED BY <1>3, <3>1, <3>2, <3>3
  <2> QED BY <1>1, <1>2, <1>3, <2>1, <2>2 DEF TypesOK
<1>6. OrdersInv
  BY <1>1, <1>3, <1>4 DEF OrdersInv
<1>7. EntriesInv
  BY <1>1, <1>2, <1>3, <1>4 DEF EntriesInv, EntryWaits
<1>8. SumsInv
  <2>1. StartCash \in Int
    BY StrategyAssumption
  <2>2. Min(FillPrices) * 0 = 0 /\ Max(FillPrices) * 0 = 0
    BY PricesBounded
  <2>3. SumsOK(State)
    BY <1>1, <2>1, <2>2 DEF SumsOK, State
  <2> QED BY <1>3, <1>4, <2>3 DEF SumsInv
<1> QED BY <1>5, <1>6, <1>7, <1>8 DEF Inv

\* Every step keeps the invariant.
LEMMA InvStep == Inv /\ [Next]_vars => Inv'
<1> SUFFICES ASSUME Inv, [Next]_vars PROVE Inv'
  OBVIOUS
<1>1. CASE Tick
  BY <1>1, TickSends, SendsKeep DEF Inv
<1>2. CASE Data
  BY <1>2, DataSends, SendsKeep DEF Inv
<1>3. CASE Arrive
  BY <1>3, ArriveKeeps
<1>4. CASE RestingFills
  BY <1>4, RestingFillsKeeps
<1>5. CASE RestingEnds
  BY <1>5, RestingEndsKeeps
<1>6. CASE Stop
  BY <1>6, StopKeeps
<1>7. CASE UNCHANGED vars
  <2>1. UNCHANGED <<kind, mem, pending, qty, cost, orders, resting, position, cash, stopped, bought>>
    BY <1>7 DEF vars, strategyVars, engineVars, historyVars
  <2> QED BY <2>1 DEF Inv, TypesOK, OrdersInv, EntriesInv, SumsInv, EntryWaits, Once, Counting, Allowed, Counted,
             MemOK, Core, SumsOK, State, CoreOrder
<1> QED BY <1>1, <1>2, <1>3, <1>4, <1>5, <1>6, <1>7 DEF Next

\* A running strategy of the package, nba_fair_value.py excepted, has one order at a time, and
\* never enters more often than its configuration allows: whatever the ticks, the pieces fills
\* come in, the delay of orders and the refusals.
THEOREM OneAtATime == Spec => []OrdersBounded
<1>1. Inv => OrdersBounded
  <2> SUFFICES ASSUME Inv PROVE OrdersBounded
    OBVIOUS
  <2>1. OneOrderAtATime
    <3> SUFFICES ASSUME ~stopped, kind # "fair_value"
                 PROVE  Len(orders) + (IF resting.qty > 0 THEN 1 ELSE 0) <= 1
      BY DEF OneOrderAtATime
    <3>1. Len(orders) <= 1 /\ (resting.qty > 0 => orders = <<>>)
      BY DEF Inv, OrdersInv
    <3>2. Len(orders) \in Nat
      BY DEF Inv, TypesOK
    <3>3. orders = <<>> => Len(orders) = 0
      OBVIOUS
    <3> QED BY <3>1, <3>2, <3>3
  <2>2. EntriesBounded
    <3>1. bought \in Nat /\ kind \in Kinds /\ Allowed(kind) \in Nat
      BY StartsEmpty DEF Inv, TypesOK
    <3>2. Once(kind) \/ Counting(kind) => bought <= Allowed(kind)
      <4> HAVE Once(kind) \/ Counting(kind)
      <4>1. bought + (IF EntryWaits THEN 1 ELSE 0) + (IF resting.qty > 0 /\ ~resting.filled THEN 1 ELSE 0) <= Allowed(kind)
        BY DEF Inv, EntriesInv
      <4> QED BY <3>1, <4>1
    <3>3. Counting(kind) => bought <= Config.maxPositions
      BY <3>2 DEF Allowed, Config
    <3>4. Once(kind) => bought <= 1
      BY <3>2 DEF Allowed, Once, Counting
    <3> QED BY <3>3, <3>4 DEF EntriesBounded, Once, Counting, Config
  <2> QED BY <2>1, <2>2 DEF OrdersBounded
<1> QED BY InvInit, InvStep, <1>1, PTL DEF Spec

\* _entry_qty_sum is the position and _entry_cost_sum / _entry_qty_sum a price, through partial
\* fills of entries and exits: the average that core.py rounds down stays between the lowest
\* and the highest price of the venue.
THEOREM SumsFollow == Spec => []SumsFollowPosition
<1>1. Inv => SumsFollowPosition
  <2> SUFFICES ASSUME Inv, Core, ~stopped
               PROVE  /\ qty = position /\ (qty = 0 => cost = 0)
                      /\ qty > 0 /\ kind # "late_favorite" =>
                           Min(FillPrices) * qty <= cost /\ cost <= Max(FillPrices) * qty
    BY DEF SumsFollowPosition
  <2> QED BY DEF Inv, SumsInv, SumsOK, State
<1> QED BY InvInit, InvStep, <1>1, PTL DEF Spec
=============================================================================
