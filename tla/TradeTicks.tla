----------------------------- MODULE TradeTicks -----------------------------
(***************************************************************************)
(* What the trade loaders make of the rows two venues answer               *)
(* (adapters/polymarket/loaders.py, adapters/kalshi/loaders.py): the order *)
(* of the rows, the prices, the times and the identifiers of the ticks,    *)
(* and the bars of candlesticks.                                           *)
(*                                                                         *)
(* Prices are in cents, an absent field is None.  A row's texts (hash,     *)
(* identifier, side) are numbers in the order of the texts.  A Polymarket  *)
(* hash and asset stand for the suffixes a trade identifier keeps of them. *)
(***************************************************************************)
EXTENDS Integers, Sequences, SequencesExt, FiniteSets, Lists

None == -1

\* dict.get(key, 0) of a counter: how many earlier rows have the key of the i-th.
Occurrence(keys, i) == Cardinality({j \in 1 .. i - 1 : keys[j] = keys[i]})

AtMost(n, bound) == IF n > bound THEN bound ELSE n
-----------------------------------------------------------------------------
(* Polymarket: [ts, hash, asset, side, price, size], ts in seconds          *)

TradeSortKey(t) == <<t.ts, t.hash, t.asset, t.side, t.price, t.size>>

BUY  == 1
SELL == 2
AggressorSide(side, buy, sell) ==
  CASE side = buy  -> "BUYER"
    [] side = sell -> "SELLER"
    [] OTHER       -> "NO_AGGRESSOR"

PricesValid(rows) == \A i \in DOMAIN rows : rows[i].price \in 0 .. 100

\* Mutant of ParseTrades: the trades of one second have one time.
ParseTradesUntied(rows, token, second) ==
  LET of  == Keep(rows, LAMBDA t : t.asset = token)
      ids == [i \in DOMAIN of |-> <<of[i].hash, of[i].asset>>]
  IN  [i \in DOMAIN of |->
         [ts    |-> of[i].ts * second,
          id    |-> ids[i] \o <<Occurrence(ids, i)>>,
          side  |-> AggressorSide(of[i].side, BUY, SELL),
          price |-> of[i].price, size |-> of[i].size]]

\* parse_trades: the n-th trade of a second is n nanoseconds late; the fills of one
\* transaction are numbered.  A second has `second` nanoseconds.
ParseTrades(rows, token, second) ==
  LET of  == Keep(rows, LAMBDA t : t.asset = token)
      ids == [i \in DOMAIN of |-> <<of[i].hash, of[i].asset>>]
  IN  [i \in DOMAIN of |->
         [ts    |-> of[i].ts * second + AtMost(Occurrence([j \in DOMAIN of |-> of[j].ts], i), second - 1),
          id    |-> ids[i] \o <<Occurrence(ids, i)>>,
          side  |-> AggressorSide(of[i].side, BUY, SELL),
          price |-> of[i].price, size |-> of[i].size]]

InWindow(t, start, end) == (start = None \/ start <= t) /\ (end = None \/ t <= end)

\* load_trades, once the pages have been fetched.
TokenTrades(rows, token, start, end) ==
  StableSort(Keep(rows, LAMBDA t : t.asset = token /\ InWindow(t.ts, start, end)),
             LAMBDA t, u : KeyLess(TradeSortKey(t), TradeSortKey(u)))
-----------------------------------------------------------------------------
(* Kalshi: [created, ts, trade_id, yes_price_dollars, yes_price, price,     *)
(* count, taker_side]; created in nanoseconds, a price field a record       *)
(* [hundredths, decimal]: a hundred times the number sent, and whether it   *)
(* was written as a decimal.                                                *)

NoPrice == [hundredths |-> None, decimal |-> FALSE]
Given(field) == field.hundredths # None

\* _normalize_price: what is no dollar price is taken for cents.
NormalizePrice(raw) ==
  IF raw.hundredths \in 0 .. 99 \/ (raw.hundredths = 100 /\ raw.decimal)
  THEN raw.hundredths ELSE raw.hundredths \div 100

TradeTimestamp(t, second) == IF t.created # None THEN t.created ELSE t.ts * second

\* _extract_yes_price; None stands for the exception.
YesPrice(t) ==
  CASE Given(t.yes_price_dollars) -> t.yes_price_dollars.hundredths
    [] ~Given(t.yes_price_dollars) /\ Given(t.yes_price) -> NormalizePrice(t.yes_price)
    [] ~Given(t.yes_price_dollars) /\ ~Given(t.yes_price) /\ Given(t.price) -> NormalizePrice(t.price)
    [] OTHER -> None

KalshiRowsValid(rows) == \A i \in DOMAIN rows : YesPrice(rows[i]) \in 0 .. 100

KalshiTradeSortKey(t, second) ==
  <<TradeTimestamp(t, second), t.trade_id, t.created, YesPrice(t), t.count, t.taker_side>>

\* What an identifier is made of when the venue sends none (_fallback_trade_id).
TradeKey(t) == <<IF t.created # None THEN t.created ELSE t.ts, YesPrice(t), t.count, t.taker_side>>

TAKER_YES == 2
TAKER_NO  == 1

ParseKalshiTrades(rows, second) ==
  LET times == [i \in DOMAIN rows |-> TradeTimestamp(rows[i], second)]
      keys  == [i \in DOMAIN rows |-> TradeKey(rows[i])]
  IN  [i \in DOMAIN rows |->
         [ts    |-> times[i] + AtMost(Occurrence(times, i), second - 1 - (times[i] % second)),
          id    |-> IF rows[i].trade_id # None THEN <<rows[i].trade_id>>
                    ELSE keys[i] \o <<Occurrence(keys, i)>>,
          side  |-> AggressorSide(rows[i].taker_side, TAKER_YES, TAKER_NO),
          price |-> YesPrice(rows[i]), size |-> rows[i].count]]

KalshiTrades(rows, start, end, second) ==
  StableSort(Keep(rows, LAMBDA t : InWindow(TradeTimestamp(t, second), start, end)),
             LAMBDA t, u : KeyLess(KalshiTradeSortKey(t, second), KalshiTradeSortKey(u, second)))
-----------------------------------------------------------------------------
(* Candlesticks: [end, open, high, low, close, volume], each price a pair   *)
(* of the dollar field and the plain field                                  *)

CandlePrice(pair) ==
  IF Given(pair[1]) THEN pair[1].hundredths ELSE IF Given(pair[2]) THEN NormalizePrice(pair[2]) ELSE None

\* Periods without trades have no prices and make no bar.
Traded(c) == \A pair \in {c.open, c.high, c.low, c.close} : CandlePrice(pair) # None

ParseCandlesticks(candles) ==
  LET traded == Keep(candles, Traded)
  IN  [i \in DOMAIN traded |->
         [ts    |-> traded[i].end, open |-> CandlePrice(traded[i].open),
          high  |-> CandlePrice(traded[i].high), low |-> CandlePrice(traded[i].low),
          close |-> CandlePrice(traded[i].close), volume |-> traded[i].volume]]

LoadBars(answer) == ParseCandlesticks(StableSort(answer, LAMBDA c, d : c.end < d.end))
=============================================================================
