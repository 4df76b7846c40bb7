--------------------------- MODULE MarketSelection --------------------------
(***************************************************************************)
(* Which markets are looked at (adapters/polymarket/market_selection.py,   *)
(* adapters/kalshi/market_selection.py and the pure parts of the two       *)
(* research modules): what a payload says of volume, price and times, the  *)
(* filters, the analysis of a market's trades and the choice among the     *)
(* sides of a game.                                                        *)
(*                                                                         *)
(* A field a market has under several names is the tuple of their values   *)
(* in the order the code tries them, None where there is none.  What the   *)
(* code reads from texts by patterns is the set m.marks: "prefix" (the     *)
(* slug is a game's), "derivative" (a spread, a total, a prop), "versus"   *)
(* (two sides are named), "dated", "sport", "match" (the ticker says so).  *)
(* Times are in hours, prices in cents.                                    *)
(***************************************************************************)
EXTENDS Integers, Sequences, SequencesExt, FiniteSets, FiniteSetsExt, Lists, TradeTicks

FirstSuch(fields, Test(_)) ==
  LET kept == Keep(fields, Test) IN IF kept = <<>> THEN None ELSE kept[1]

Known(x) == x # None
OrZero(x) == IF x = None THEN 0 ELSE x
-----------------------------------------------------------------------------
(* What a payload says                                                      *)

\* volume_24h: Polymarket's first field that is not blank, Kalshi's first that is not 0.
Volume24h(m) ==
  OrZero(FirstSuch(m.volumes, LAMBDA v : IF m.venue = "KALSHI" THEN v > 0 ELSE Known(v)))

\* yes_price: Polymarket's first outcome price; Kalshi's first field strictly between 0 and
\* 1, a number of at least 1 being cents.
Cents(v) == IF v >= 100 THEN v \div 100 ELSE v
MarketYesPrice(m) ==
  IF m.venue = "POLYMARKET" THEN m.prices[1]
  ELSE LET fit == FirstSuch(m.prices, LAMBDA v : Cents(v) \in 1 .. 99)
       IN  IF fit = None THEN None ELSE Cents(fit)

\* end_date_utc, closed_time_utc, event_start_utc
EndDate(m)    == FirstSuch(m.ends, Known)
ClosedTime(m) == FirstSuch(m.closes, Known)
EventStart(m) == FirstSuch(m.starts, Known)

\* is_game_market
IsGameMarket(m) ==
  IF m.venue = "KALSHI" THEN "derivative" \notin m.marks /\ m.marks \cap {"match", "versus"} # {}
  ELSE /\ "prefix" \in m.marks
       /\ "derivative" \notin m.marks
       /\ m.marks \cap {"versus", "dated"} # {}

IsSportSlug(m) == m.marks \cap {"prefix", "sport"} # {}

\* market_duration_days against max_market_duration_days (None: not asked)
ShortEnough(m, maxDuration) ==
  \/ maxDuration = None
  \/ m.opens # None /\ EndDate(m) # None /\ EndDate(m) - m.opens <= maxDuration

\* is_sports_market: what closes within the hours to come.
IsSportsMarket(m, now, maxHours, maxDuration) ==
  IF m.venue = "KALSHI"
  THEN /\ m.category = "sports"
       /\ ShortEnough(m, maxDuration)
       /\ EndDate(m) # None /\ EndDate(m) - now \in 0 .. maxHours
  ELSE /\ ClosedTime(m) # None /\ ClosedTime(m) - now \in 0 .. maxHours
       /\ IsSportSlug(m)

\* is_resolved_sports_market: what closed within the hours gone by.
IsResolvedSportsMarket(m, now, maxHours, maxDuration) ==
  IF m.venue = "KALSHI"
  THEN /\ m.category = "sports"
       /\ ShortEnough(m, maxDuration)
       /\ m.status \in {"settled", "finalized"}
       /\ m.ends[1] # None /\ now - m.ends[1] \in 0 .. maxHours
  ELSE /\ ClosedTime(m) # None /\ now - ClosedTime(m) \in 0 .. maxHours
       /\ IsSportSlug(m)

\* _passes_filters, but for the predicate of its caller.
PassesFilters(m, f) ==
  /\ Volume24h(m) >= f.minVolume
  /\ \/ f.priceMin = None /\ f.priceMax = None
     \/ /\ MarketYesPrice(m) # None
        /\ f.priceMin = None \/ MarketYesPrice(m) >= f.priceMin
        /\ f.priceMax = None \/ MarketYesPrice(m) <= f.priceMax
  /\ f.minExpiry = None \/ EndDate(m) = None \/ EndDate(m) >= f.minExpiry

\* The rest of discover_markets: the candidates by volume, the largest first.
Candidates(markets, f) ==
  FirstOf(StableSort(Keep(markets, LAMBDA m : PassesFilters(m, f)),
                     LAMBDA m, n : Volume24h(m) > Volume24h(n)), f.limit)

\* _main_market_from_event: the market of the event's own slug, completed from the event.
\* <<>> when there is none.
MainMarket(event) ==
  LET own == Keep(event.markets, LAMBDA m : m.slug = event.slug)
  IN  IF event.slug = "" \/ own = <<>> THEN <<>>
      ELSE <<[own[1] EXCEPT !.starts = <<IF @[1] = None THEN event.startTime ELSE @[1]>> \o Tail(@),
                            !.closes = <<IF @[1] = None THEN event.closedTime ELSE @[1]>> \o Tail(@),
                            !.event_total_volume = event.volume]>>

\* _event_volume
EventVolume(m) == IF m.event_total_volume > 0 THEN m.event_total_volume ELSE Volume24h(m)

\* _extend_with_event_markets: markets of the excluded series are left out.
EventMarketsOf(event) ==
  LET kept == Keep(event.markets, LAMBDA m : "excluded" \notin m.marks)
  IN  [i \in DOMAIN kept |-> [kept[i] EXCEPT !.category = event.category]]
-----------------------------------------------------------------------------
(* The analysis of a market's trades                                        *)

\* market_trade_window_bounds
TradeWindow(m, activeHours, now) ==
  LET to    == IF ClosedTime(m) = None THEN now ELSE ClosedTime(m)
      since == {t \in {IF activeHours > 0 THEN to - activeHours ELSE None, EventStart(m)} : t # None}
      from  == IF since = {} THEN None ELSE Max(since)
  IN  [from |-> IF from > to THEN to ELSE from, to |-> to]

\* The first trade that takes the price from below the entry price to it or above it, no
\* earlier than the activation; None when there is none.
EntryCross(trades, entryPrice, activation) ==
  FirstSuch([i \in DOMAIN trades |->
               IF /\ i > 1
                  /\ activation <= 0 \/ trades[i].ts >= activation
                  /\ trades[i - 1].price < entryPrice /\ entryPrice <= trades[i].price
               THEN trades[i].ts ELSE None], Known)

\* analyze_market_trade_window for one side of a market
SideSnapshot(m, side, trades, entryPrice, activation) ==
  LET active == Keep(trades, LAMBDA t : activation <= 0 \/ t.ts >= activation)
      prices == {active[i].price : i \in DOMAIN active}
  IN  [market |-> m, side |-> side, trades |-> Len(trades), active |-> Len(active),
       first  |-> trades[1].price, highest |-> IF prices = {} THEN 0 ELSE Max(prices),
       cross  |-> EntryCross(trades, entryPrice, activation)]

Crossed(snapshots) == Keep(snapshots, LAMBDA s : s.cross # None)

\* The side of a Polymarket market that broke out first, else the one that came highest.
PickSide(snapshots) ==
  IF Crossed(snapshots) # <<>>
  THEN FirstLeast(Crossed(snapshots), LAMBDA s, u : KeyLess(<<s.cross, -s.active>>, <<u.cross, -u.active>>))
  ELSE FirstLeast(snapshots, LAMBDA s, u : KeyLess(<<u.highest, u.active>>, <<s.highest, s.active>>))

TotalVolume(m) == OrZero(Last(m.volumes))

\* select_breakout_markets_per_game: of the markets of one Kalshi event, which have at least
\* two sides with trades, the first to break out, else the cheapest at the start; beside it
\* the opponent, the dearest at the start.
PickOfGame(snapshots) ==
  [chosen |->
     IF Crossed(snapshots) # <<>>
     THEN FirstLeast(Crossed(snapshots),
            LAMBDA s, u : KeyLess(<<s.cross, -TotalVolume(s.market)>>, <<u.cross, -TotalVolume(u.market)>>))
     ELSE FirstLeast(snapshots,
            LAMBDA s, u : KeyLess(<<s.first, -TotalVolume(s.market)>>, <<u.first, -TotalVolume(u.market)>>)),
   opponent |-> FirstLeast(snapshots, LAMBDA s, u : s.first > u.first),
   volume   |-> MapThenSumSet(LAMBDA i : TotalVolume(snapshots[i].market), DOMAIN snapshots)]

BreakoutsPerGame(games, max) ==
  LET two == Keep(games, LAMBDA snapshots : Len(snapshots) >= 2)
      picks == [i \in DOMAIN two |-> PickOfGame(two[i])]
  IN  FirstOf(StableSort(picks, LAMBDA p, q : p.volume > q.volume), max)

\* load_market_trades, load_market_bars: too few, or too little movement, is no history.
WorthReplaying(prices, minCount, minRange) ==
  /\ Len(prices) >= minCount
  /\ prices = <<>> \/ Max(Range(prices)) - Min(Range(prices)) >= minRange
=============================================================================
