----------------------------- MODULE Strategies -----------------------------
(***************************************************************************)
(* One strategy of the strategies package in a backtest: its tick and      *)
(* order handlers, the order plumbing of strategies/core.py, and what the  *)
(* engine and the simulated venue do with its orders.                      *)
(*                                                                         *)
(* With a latency model ticks come while an order is on its way.  The      *)
(* fills of an order that has arrived come in one go, each with a call of  *)
(* on_order_filled; a market order's rest is canceled, a limit order's     *)
(* rest stays in the book.                                                 *)
(***************************************************************************)
EXTENDS StrategyFlags

CONSTANTS
  Kinds,        (* the strategies to run                                            *)
  Configs,      (* kind -> its configuration                                        *)
  Ticks,        (* kind -> the ticks there may be                                   *)
  FillPrices,   (* the prices the venue fills market orders at, in cents            *)
  StartCash,    (* the account's balance, in ten-thousandths of a cent              *)
  Levels,       (* in how many pieces an order is filled at most                    *)
  Faults,       (* a subset of {"deny"}: the risk engine denies orders              *)
  MaxTicks      (* bound on the ticks of a run                                      *)

CoreKinds == {"mean_reversion", "ema_crossover", "breakout", "panic_fade", "rsi_reversion",
              "vwap_reversion", "threshold_momentum", "final_period", "deep_value",
              "late_favorite", "blowout", "legacy", "demo"}
FlagKinds == {"ofi", "ofi_ma", "mispricing", "q4_totals", "ncaab_totals", "fair_value"}

ConfigOK(k, c) ==
  CASE k = "mean_reversion" -> MeanReversionConfig(c)
    [] k = "ema_crossover"  -> EMACrossoverConfig(c)
    [] k = "breakout"       -> BreakoutConfig(c)
    [] k = "vwap_reversion" -> VWAPReversionConfig(c)
    [] k = "late_favorite"  -> LateFavoriteConfig(c)
    [] OTHER                -> TRUE

\* Sizes and fees are numbers, prices lie between 0 and a dollar.
ASSUME StrategyAssumption ==
  /\ Kinds \subseteq CoreKinds \union FlagKinds
  /\ \A k \in Kinds : ConfigOK(k, Configs[k])
  /\ \A k \in Kinds \intersect CoreKinds :
       /\ Configs[k].size \in Nat /\ Configs[k].fee \in Nat
       /\ \A tick \in Ticks[k] :
            tick.bid \in 1 .. 99 /\ tick.ask \in 1 .. 99 /\ tick.size \in Nat /\ tick.quote \in BOOLEAN
  /\ \A k \in Kinds \intersect {"blowout", "mispricing", "q4_totals"} : Configs[k].maxPositions \in Nat
  /\ FillPrices \subseteq 1 .. 99 /\ FillPrices # {}
  /\ StartCash \in Nat /\ MaxTicks \in Nat /\ Faults \subseteq {"deny"} /\ Levels \in Nat

VARIABLES
  (* the strategy *)
  kind,         (* which one it is                                                  *)
  mem,          (* the state of its own                                             *)
  pending,      (* _pending                                                         *)
  qty, cost,    (* _entry_qty_sum, _entry_cost_sum; of core strategies only         *)
  (* the engine *)
  orders,       (* on their way: a sequence of orders                               *)
  resting,      (* the limit order in the book                                      *)
  position,     (* the net position; negative when sold short                       *)
  cash,         (* the free balance                                                 *)
  now,          (* ticks so far                                                     *)
  stopped,      (* on_stop has run                                                  *)
  (* history *)
  denied,       (* an order was denied                                              *)
  bought        (* entry orders that were filled, at least in part                  *)

strategyVars == <<kind, mem, pending, qty, cost>>
engineVars   == <<orders, resting, position, cash, now, stopped>>
historyVars  == <<denied, bought>>
vars == <<strategyVars, engineVars, historyVars>>

Config == Configs[kind]
Core == kind \in CoreKinds
NoLimit == [qty |-> 0, price |-> 0, filled |-> FALSE]

StartMem(k, c) ==
  CASE k = "mean_reversion" -> MeanReversionStart(c)
    [] k = "ema_crossover"  -> EMACrossoverStart(c)
    [] k = "breakout"       -> BreakoutStart(c)
    [] k = "panic_fade"     -> PanicFadeStart(c)
    [] k = "rsi_reversion"  -> RSIReversionStart(c)
    [] k = "vwap_reversion" -> VWAPReversionStart(c)
    [] k \in {"threshold_momentum", "final_period"} -> MomentumStart(c)
    [] k \in {"deep_value", "late_favorite", "legacy"} -> HoldStart(c)
    [] k = "blowout"        -> LateGameBlowoutStart(c)
    [] k = "demo"           -> DemoStart(c)
    [] k = "ofi"            -> OfiStart(c)
    [] k = "ofi_ma"         -> OfiMaStart(c)
    [] k = "mispricing"     -> MispricingStart(c)
    [] k = "q4_totals"      -> Q4TotalsStart(c)
    [] OTHER                -> FlagStart(c)

Init ==
  /\ kind \in Kinds /\ mem = StartMem(kind, Configs[kind])
  /\ pending = FALSE /\ qty = 0 /\ cost = 0
  /\ orders = <<>> /\ resting = NoLimit /\ position = 0 /\ cash = StartCash
  /\ now = 0 /\ stopped = FALSE
  /\ denied = FALSE /\ bought = 0
-----------------------------------------------------------------------------
(* Orders of core.py                                                       *)

\* _estimate_entry_unit_cost, in ten-thousandths of a cent: price + fee * price * (1 - price).
UnitCost(price, fee) == 10000 * price + fee * price * (100 - price)

\* _effective_entry_reference_price: without a visible ask the worst price there is.
ReferencePrice(s) == IF s.visible > 0 THEN s.entry ELSE 100

\* _entry_quantity: the size wanted, within what is on offer and what can be paid with
\* three hundredths to spare; in whole lots.
EntryQuantity(s, c, free) ==
  LET offered    == IF s.visible = None THEN c.size ELSE Min({c.size, Positive(s.visible)})
      affordable == (97 * (free \div 100)) \div UnitCost(ReferencePrice(s), c.fee)
  IN  Min({offered, affordable})

\* Mutant of Submit: the flag is not set.
SubmitForgetful(order) ==
  /\ orders' = Append(orders, order)
  /\ UNCHANGED <<pending, denied>>

\* submit_order, then _pending = True.  A denied order comes back inside submit_order, where
\* no handler waits for it.
Submit(order) ==
  /\ pending' = TRUE
  /\ \/ orders' = Append(orders, order) /\ UNCHANGED denied
     \/ "deny" \in Faults /\ denied' = TRUE /\ UNCHANGED orders

\* close_all_positions (external): a reduce-only order for what is held, none when flat.
ClosingOrder ==
  IF position = 0 THEN <<>>
  ELSE <<[do |-> "exit", qty |-> IF position > 0 THEN position ELSE -position, price |-> 0]>>

\* _submit_exit
SubmitExit ==
  /\ pending' = TRUE
  /\ orders' = orders \o ClosingOrder
  /\ UNCHANGED denied

\* _submit_entry, and the limit order of late_favorite_limit_hold.py
SubmitEntry(do, s) ==
  LET q == EntryQuantity(s, Config, cash)
  IN  \/ q > 0 /\ Submit([do |-> do, qty |-> q, price |-> s.entry])
      \/ q <= 0 /\ UNCHANGED <<pending, orders, denied>>
-----------------------------------------------------------------------------
(* Ticks                                                                   *)

View == [pending |-> pending, held |-> position # 0, qty |-> qty, cost |-> cost]

\* The tick handler of the strategy.
OnTick(k, c, m, tick, v, signal) ==
  CASE k = "mean_reversion"     -> MeanReversion(c, m, tick, v)
    [] k = "ema_crossover"      -> EMACrossover(c, m, tick, v)
    [] k = "breakout"           -> Breakout(c, m, tick, v)
    [] k = "panic_fade"         -> PanicFade(c, m, tick, v)
    [] k = "rsi_reversion"      -> RSIReversion(c, m, tick, v)
    [] k = "vwap_reversion"     -> VWAPReversion(c, m, tick, v)
    [] k = "threshold_momentum" -> ThresholdMomentum(c, m, tick, v, now)
    [] k = "final_period"       -> FinalPeriodMomentum(c, m, tick, v, now)
    [] k = "deep_value"         -> DeepValueHold(c, m, tick, v)
    [] k = "late_favorite"      -> LateFavoriteLimitHold(c, m, tick, v, now)
    [] k = "blowout"            -> LateGameBlowout(c, m, tick, v)
    [] k = "legacy"             -> LegacySignal(c, m, tick, v, signal)
    [] k = "demo"               -> BasketballDemo(c, m, tick, v)
    [] k = "ofi"                -> BTCOfi15m(c, m, tick, v)
    [] k = "ofi_ma"             -> BTCOfiMa(c, m, tick, v)
    [] k = "mispricing"         -> NBAMispricing(c, m, tick, v)
    [] k = "q4_totals"          -> NBAQ4Totals(c, m, tick, v)
    [] k = "ncaab_totals"       -> NCAABTotals(c, m, tick, v)
    [] k = "fair_value"         -> NBAFairValue(c, m, tick, v)

\* A tick of the instrument and what the strategy does about it.
Tick ==
  /\ ~stopped /\ now < MaxTicks
  /\ \E tick \in Ticks[kind], signal \in IF kind = "legacy" THEN {"enter", "exit", "none"} ELSE {"none"} :
       LET decision == OnTick(kind, Config, mem, tick, View, signal)
       IN  /\ mem' = decision.mem
           /\ CASE decision.do \in {"enter", "limit"} -> SubmitEntry(decision.do, Seen(tick))
                [] decision.do \in {"buy", "sell"} ->
                     Submit([do |-> decision.do, qty |-> decision.qty, price |-> 0])
                [] decision.do = "exit" -> SubmitExit
                [] OTHER -> UNCHANGED <<pending, orders, denied>>
  /\ now' = now + 1
  /\ UNCHANGED <<kind, qty, cost, resting, position, cash, stopped, bought>>

\* Other data the strategy asked for.
Data ==
  /\ ~stopped /\ now < MaxTicks /\ kind = "demo"
  /\ \E late \in BOOLEAN : mem' = DemoOnData(mem, late)
  /\ UNCHANGED <<kind, pending, qty, cost, engineVars, historyVars>>
-----------------------------------------------------------------------------
(* Fills                                                                   *)

\* What a fill changes in the strategy's own state.
MemOnFill(k, c, m, side, price) ==
  CASE k = "breakout"   -> BreakoutOnFill(c, m, side)
    [] k = "panic_fade" -> PanicFadeOnFill(c, m, side)
    [] k \in {"threshold_momentum", "final_period", "deep_value", "late_favorite"} ->
         EnteredOnFill(c, m, side)
    [] k = "blowout"      -> LateGameBlowoutOnFill(c, m, side)
    [] k = "ofi"          -> OfiOnFill(c, m, side, price)
    [] k = "ofi_ma"       -> OfiMaOnFill(c, m, side, price)
    [] k = "mispricing"   -> MispricingOnFill(c, m, side, price)
    [] k = "q4_totals"    -> Q4TotalsOnFill(c, m, side)
    [] k = "ncaab_totals" -> NCAABOnFill(m)
    [] k = "fair_value"   -> FairValueOnFill(m, side, price)
    [] OTHER -> m

\* Mutant of EntrySums: a sale takes its own price out of the cost.
EntrySumsAtSale(s, side, price, q) ==
  IF side = "buy" THEN [q |-> s.qty + q, c |-> s.cost + price * q]
  ELSE [q |-> Positive(s.qty - q), c |-> IF s.qty > q THEN s.cost - price * q ELSE 0]

\* on_order_filled of core.py: a sale takes the average cost out; flat, the sums are zero.
EntrySums(s, side, price, q) ==
  IF side = "buy" THEN [q |-> s.qty + q, c |-> s.cost + price * q]
  ELSE [q |-> Positive(s.qty - q), c |-> IF s.qty > q THEN s.cost - (s.cost * q) \div s.qty ELSE 0]

\* The account pays and is paid with the taker's fee.
Paid(side, price, q) ==
  IF side = "buy" THEN -(q * UnitCost(price, Config.fee))
  ELSE q * (20000 * price - UnitCost(price, Config.fee))

\* One fill: the engine's books, and the strategy's handler unless it has stopped.
Fill(s, side, price, q) ==
  LET sums == IF Core THEN EntrySums(s, side, price, q) ELSE [q |-> 0, c |-> 0]
      books == [s EXCEPT !.position = IF side = "buy" THEN @ + q ELSE @ - q,
                         !.cash = @ + Paid(side, price, q), !.lots = @ + q]
  IN  IF stopped THEN books
      ELSE [books EXCEPT !.mem = MemOnFill(kind, Config, @, side, price),
                         !.pending = FALSE, !.qty = sums.q, !.cost = sums.c]

\* What fills change, and how many lots they were of.
State == [mem |-> mem, pending |-> pending, qty |-> qty, cost |-> cost,
          position |-> position, cash |-> cash, lots |-> 0]

Become(s) ==
  /\ mem' = s.mem /\ pending' = s.pending /\ qty' = s.qty /\ cost' = s.cost
  /\ position' = s.position /\ cash' = s.cash

\* The ways the book may fill at most q lots in n pieces, each a price and its lots.
Pieces(n, q, prices) == [1 .. n -> prices \X (1 .. q)]

\* One fill after another.
Filled(s, side, fills, n) ==
  LET after[i \in 0 .. n] == IF i = 0 THEN s ELSE Fill(after[i - 1], side, fills[i][1], fills[i][2])
  IN  after[n]

SideOf(order) ==
  IF order.do \in {"enter", "limit", "buy"} THEN "buy"
  ELSE IF order.do = "sell" \/ position > 0 THEN "sell" ELSE "buy"

\* What the venue will do at most: a closing order never opens a position.
Limit(order) ==
  IF order.do # "exit" THEN order.qty
  ELSE Min({order.qty, IF position > 0 THEN position ELSE -position})

\* Mutant of Refused: a refusal goes unheard.
RefusedSilent(s) == s

\* on_order_rejected, on_order_canceled, on_order_expired
Refused(s) == IF stopped THEN s ELSE [s EXCEPT !.pending = FALSE]

\* The oldest order arrives: it is filled at once as far as it can be; the rest is canceled,
\* or rests when it is a limit order that was not refused.
Arrive ==
  /\ orders # <<>>
  /\ LET order == Head(orders)
         side  == SideOf(order)
     IN  \E n \in 0 .. Levels, rests \in IF order.do = "limit" /\ ~stopped THEN BOOLEAN ELSE {FALSE} :
         \E fills \in Pieces(n, Limit(order), IF order.do = "limit" THEN {order.price} ELSE FillPrices) :
           LET filled == Filled(State, side, fills, n)
               rest   == order.qty - filled.lots
           IN  /\ filled.lots <= Limit(order)
               /\ Become(IF rest > 0 /\ ~rests THEN Refused(filled) ELSE filled)
               /\ resting' = IF rests /\ rest > 0
                             THEN [qty |-> rest, price |-> order.price, filled |-> n > 0]
                             ELSE resting
               /\ bought' = IF order.do # "exit" /\ n > 0 THEN bought + 1 ELSE bought
  /\ orders' = Tail(orders)
  /\ UNCHANGED <<kind, now, stopped, denied>>

\* The order in the book is filled, in part or whole.
RestingFills ==
  /\ resting.qty > 0
  /\ \E q \in 1 .. resting.qty :
       /\ Become(Fill(State, "buy", resting.price, q))
       /\ resting' = IF q = resting.qty THEN NoLimit ELSE [resting EXCEPT !.qty = @ - q, !.filled = TRUE]
       /\ bought' = IF resting.filled THEN bought ELSE bought + 1
  /\ UNCHANGED <<kind, orders, now, stopped, denied>>

\* It is canceled or expires.
RestingEnds ==
  /\ resting.qty > 0
  /\ Become(Refused(State))
  /\ resting' = NoLimit
  /\ UNCHANGED <<kind, orders, now, stopped, historyVars>>

\* on_stop: what rests is canceled and, but for the strategies that wait for the
\* settlement, what is held is closed.
Stop ==
  /\ ~stopped /\ stopped' = TRUE
  /\ resting' = NoLimit
  /\ orders' = IF kind \in {"late_favorite", "blowout"} THEN orders ELSE orders \o ClosingOrder
  /\ UNCHANGED <<strategyVars, position, cash, now, historyVars>>

Next == Tick \/ Data \/ Arrive \/ RestingFills \/ RestingEnds \/ Stop

\* Orders on their way arrive.
Spec == Init /\ [][Next]_vars /\ WF_vars(Arrive)
-----------------------------------------------------------------------------
(* Properties                                                              *)

\* A running strategy has one order at a time, on its way or in the book, however late the
\* venue is: nba_fair_value.py excepted, which asks for its exit again and again.
OneOrderAtATime ==
  ~stopped /\ kind # "fair_value" => Len(orders) + (IF resting.qty > 0 THEN 1 ELSE 0) <= 1

\* "Buy once": a strategy that enters once has one entry order filled at most, one that counts
\* its entries max_positions, though it is fills that are counted.
EntriesBounded ==
  LET once == \/ kind \in {"threshold_momentum", "final_period", "late_favorite", "ncaab_totals"}
              \/ kind = "deep_value" /\ Config.single
  IN  /\ once => bought <= 1
      /\ kind \in {"blowout", "mispricing", "q4_totals"} => bought <= Config.maxPositions

\* Orders do not overlap and entries do not add up beyond what is configured, however their
\* fills are cut and delayed and whatever was refused before.
OrdersBounded == OneOrderAtATime /\ EntriesBounded

\* The entry sums of core.py follow the position through partial fills of entries and
\* exits: the average entry price is there exactly while something is held, and is a price.
SumsFollowPosition ==
  Core /\ ~stopped =>
    /\ qty = position /\ (qty = 0 => cost = 0)
    /\ qty > 0 /\ kind # "late_favorite" =>
         Min(FillPrices) * qty <= cost /\ cost <= Max(FillPrices) * qty

\* _pending does not outlive its order: it is cleared unless the order was denied, where
\* no handler clears it, or rests in the book.
PendingClears == pending ~> ~pending \/ stopped \/ denied \/ resting.qty > 0
=============================================================================
