----------------------------- MODULE TradeLoads -----------------------------
(***************************************************************************)
(* The load of one market while it trades and is resolved                  *)
(* (adapters/polymarket/loaders.py, adapters/kalshi/loaders.py): metadata  *)
(* in several requests, then the trades page by page, newest first, then   *)
(* the ticks.  Polymarket's pages are places in the list as it is when     *)
(* they are asked for; a cursor of Kalshi names the last trade answered.   *)
(* At the end, the load of candlesticks (adapters/kalshi/research.py).     *)
(*                                                                         *)
(* A market has two sides, "yes" and "no"; on Polymarket they are the      *)
(* tokens 1 and 2 of one market, on Kalshi two tickers of one event.       *)
(***************************************************************************)
EXTENDS MarketMetadata, MarketSelection

CONSTANTS Tape,       \* the trades of the market in the order in which they happen, of different sizes
          Printed,    \* how many of them have happened when the load begins
          Start, End, \* the window, in seconds
          PageSize,   \* rows of a page (1,000)
          Ceiling,    \* the last offset the venue answers
          Second,     \* nanoseconds of a second
          Venues,     \* the venues considered
          FeeRates,   \* what may be answered for the fee rate, None included
          Quotes      \* the prices of "yes" that Gamma may show before a market is resolved

IsTrade(t) ==
  /\ t.ts \in Nat /\ t.within \in 0 .. Second - 1 /\ t.named \in BOOLEAN
  /\ {t.hash, t.asset, t.side, t.price, t.size} \subseteq Int

ASSUME LoadsAssumption ==
  /\ Tape \in Seq(Range(Tape)) /\ \A t \in Range(Tape) : IsTrade(t)
  /\ \A n, m \in DOMAIN Tape : n < m => Tape[n].ts <= Tape[m].ts
  /\ Printed \in 0 .. Len(Tape) /\ Start \in Nat /\ End \in Nat
  /\ PageSize \in Nat \ {0} /\ Ceiling \in Nat /\ Second \in Nat /\ Ceiling + PageSize <= Second
  /\ Venues \subseteq {"POLYMARKET", "KALSHI"} /\ Quotes \subseteq 0 .. 100

\* When a trade happens, in nanoseconds
Time(n) == Tape[n].ts * Second + Tape[n].within

\* Kalshi tells times in microseconds, and fewer trades than nanoseconds share one: the next
\* time, and the next second, are further away than that.
ASSUME SpacedAssumption ==
  \A n \in DOMAIN Tape :
    LET together == Cardinality({k \in DOMAIN Tape : Time(k) = Time(n)})
    IN  /\ Tape[n].within + together <= Second
        /\ \A k \in DOMAIN Tape : Time(n) < Time(k) => Time(n) + together <= Time(k)

VARIABLES market,   \* the market at the venue
          load      \* the load of one of its sides

loadVars == <<market, load>>

Sides == <<"yes", "no">>
NoInstrument == [venue |-> "none"]

Load(index) ==
  [pc |-> "market", index |-> index, gamma |-> "none", quote |-> None, details |-> "none", clob |-> <<>>, instrument |-> NoInstrument,
   before |-> None, offset |-> 0, cursor |-> None, rows |-> <<>>, partial |-> FALSE, ticks |-> <<>>]

MarketInit ==
  \E venue \in Venues, route \in {"slug", "event"}, phase \in {"open", "resolved"},
     winner \in {"yes", "no"}, reversed \in BOOLEAN :
    /\ venue = "KALSHI" => route = "slug"
    /\ market = [venue |-> venue, route |-> route, phase |-> phase, winner |-> winner, reversed |-> reversed,
                 printed |-> Printed]

Loading == load.pc \notin {"loaded", "failed"}
To(fields) == load' = [k \in DOMAIN load |-> Get(fields, k, load[k])]
-----------------------------------------------------------------------------
(* The venue (external)                                                     *)

\* A trade happens while the market is open.
TradeHappens ==
  /\ Loading /\ market.phase = "open"
  /\ market.printed < Len(Tape)
  /\ market' = [market EXCEPT !.printed = @ + 1]
  /\ UNCHANGED load

\* The market closes, an outcome is proposed, and in the end it is resolved or split.
Resolve ==
  /\ Loading
  /\ \/ /\ market.phase = "open"
        /\ market' = [market EXCEPT !.phase = "proposed"]
     \/ /\ market.phase = "proposed"
        /\ \E phase \in {"resolved", "split"} : market' = [market EXCEPT !.phase = phase]
  /\ UNCHANGED load

\* What Gamma says of the market in a phase: its prices are those of the last trades, or of
\* the proposed outcome, until it is resolved.
GammaMarket(phase, quote) ==
  [closed |-> IF phase = "open" THEN "false" ELSE "true", archived |-> "none",
   closedTime |-> IF phase = "open" THEN None ELSE 0,
   umaResolutionStatus |-> CASE phase = "open"     -> ""
                             [] phase = "proposed" -> "proposed"
                             [] OTHER              -> "resolved",
   outcomes |-> Sides, clobTokenIds |-> <<1, 2>>,
   outcomePrices |-> CASE phase \in {"open", "proposed"} -> <<quote, 100 - quote>>
                       [] phase = "split"              -> <<50, 50>>
                       [] OTHER                        -> IF market.winner = "yes" THEN <<100, 0>> ELSE <<0, 100>>]

\* What the CLOB says of it: no token is a winner before the market is resolved.
ClobDetails(phase) ==
  LET token(i) == [token_id |-> i, outcome |-> Sides[i], winner |-> phase = "resolved" /\ market.winner = Sides[i]]
  IN  [tokens |-> IF market.reversed THEN <<token(2), token(1)>> ELSE <<token(1), token(2)>>,
       maker_base_fee |-> 0, taker_base_fee |-> 0, is_50_50_outcome |-> phase = "split"]

\* What Kalshi says of the ticker of a side
KalshiMarket(phase, side) ==
  [ticker |-> side, fee_waiver_expiration_time |-> None,
   result |-> IF phase # "resolved" THEN "" ELSE IF market.winner = Sides[side] THEN "yes" ELSE "no",
   settlement_value |-> None]
-----------------------------------------------------------------------------
(* from_market_slug, from_event_slug, from_market_ticker                    *)

FetchMarket ==
  /\ load.pc = "market"
  /\ IF market.venue = "KALSHI"
     THEN To([pc |-> "event", details |-> market.phase,
              instrument |-> KalshiInstrument(KalshiMarket(market.phase, load.index), 0)])
     ELSE IF market.route = "event" THEN To([pc |-> "members"])
     ELSE \E quote \in Quotes : To([pc |-> "details", gamma |-> market.phase, quote |-> quote])
  /\ UNCHANGED market

FetchDetails ==
  /\ load.pc = "details"
  /\ LET details == MarketDetails(ClobDetails(market.phase), GammaMarket(load.gamma, load.quote))
     IN  IF ~TokenIndexValid(details.tokens, load.index) THEN To([pc |-> "failed"])
         ELSE To([pc |-> "fee", details |-> market.phase, clob |-> <<details>>])
  /\ UNCHANGED market

\* No answer leaves the fees as they were.
FetchFeeRate ==
  /\ load.pc = "fee"
  /\ \E bps \in FeeRates :
       To([pc |-> "pages", clob |-> <<>>,
           instrument |-> Instrument(WithFeeRate(load.clob[1], bps), load.index)])
  /\ UNCHANGED market

\* What else an event may hold: a market without identifier, without tokens, with one token.
Siblings ==
  {[conditionId |-> id, fee_rate_bps |-> None,
    details |-> [tokens |-> SubSeq(ClobDetails("open").tokens, 1, n), maker_base_fee |-> 0, taker_base_fee |-> 0,
                 is_50_50_outcome |-> FALSE]] : id \in {None, 2}, n \in 0 .. 2}

\* The details and the fee rates of an event's markets, one market after another; only the
\* market of the model changes meanwhile.  Its loader is the last one.
FetchEventMarkets ==
  /\ load.pc = "members"
  /\ \E sibling \in Siblings, bps \in FeeRates :
       LET this    == [conditionId |-> 1, fee_rate_bps |-> bps, details |-> ClobDetails(market.phase)]
           loaders == FromEventSlug(<<sibling, this>>, load.index)
       IN  To(IF loaders = <<>> THEN [pc |-> "failed"]
              ELSE [pc |-> "pages", details |-> market.phase, instrument |-> Last(loaders)])
  /\ UNCHANGED market

\* Kalshi: the event names the series of the market.
FetchEvent ==
  /\ load.pc = "event"
  /\ To([pc |-> "pages"])
  /\ UNCHANGED market

\* Any other answer to one of these, or to a page, raises.
RequestFails ==
  /\ load.pc \in {"market", "members", "details", "event", "pages"}
  /\ To([pc |-> "failed"])
  /\ UNCHANGED market
-----------------------------------------------------------------------------
(* fetch_trades                                                             *)

Newest == [i \in 1 .. market.printed |-> market.printed + 1 - i]
Before == IF load.before = None THEN market.printed ELSE load.before

\* Mutant of MorePages: a page counts by what it had for the window.
MorePagesOfKept(page, kept, start) == Len(kept) = PageSize /\ \E i \in DOMAIN page : Tape[page[i]].ts >= start

\* A full page is followed by another one unless all of it is older than the window.
MorePages(page, kept, start) == Len(page) = PageSize /\ \E i \in DOMAIN page : Tape[page[i]].ts >= start

FetchPage ==
  /\ load.pc = "pages" /\ market.venue = "POLYMARKET"
  /\ load.offset <= Ceiling
  /\ LET page == SubSeq(Newest, load.offset + 1, Min({market.printed, load.offset + PageSize}))
         kept == Keep(page, LAMBDA n : InWindow(Tape[n].ts, Start, End))
     IN  To([before |-> Before, rows |-> load.rows \o kept, offset |-> load.offset + Len(page),
             pc |-> IF MorePages(page, kept, Start) THEN "pages" ELSE "ticks"])
  /\ UNCHANGED market

\* The venue answers no further back: what there is counts, with a warning.
CeilingHit ==
  /\ load.pc = "pages" /\ market.venue = "POLYMARKET"
  /\ load.offset > Ceiling
  /\ To([pc |-> "ticks", partial |-> TRUE])
  /\ UNCHANGED market

\* The venue filters by the seconds of the window.
FetchCursorPage ==
  /\ load.pc = "pages" /\ market.venue = "KALSHI"
  /\ LET left == Keep(Newest, LAMBDA n : /\ load.cursor = None \/ n < load.cursor
                                         /\ InWindow(Tape[n].ts, Start, End))
         page == FirstOf(left, PageSize)
     IN  To([before |-> Before, rows |-> load.rows \o page,
             cursor |-> IF page = <<>> THEN load.cursor ELSE Last(page),
             pc |-> IF page = left \/ page = <<>> THEN "ticks" ELSE "pages"])
  /\ UNCHANGED market
-----------------------------------------------------------------------------
(* load_trades, parse_trades                                                *)

\* The row the venue sends of a trade, of a Kalshi ticker from its own side.
PolymarketRow(n) ==
  [ts |-> Tape[n].ts, hash |-> Tape[n].hash, asset |-> Tape[n].asset, side |-> Tape[n].side,
   price |-> Tape[n].price, size |-> Tape[n].size]

KalshiRow(n, index) ==
  [created |-> Time(n), ts |-> Tape[n].ts,
   trade_id |-> IF Tape[n].named THEN n ELSE None,
   yes_price_dollars |-> NoPrice,
   yes_price |-> [hundredths |-> 100 * (IF index = 1 THEN Tape[n].price ELSE 100 - Tape[n].price),
                  decimal |-> FALSE],
   price |-> NoPrice, count |-> Tape[n].size,
   taker_side |-> IF (Tape[n].side = BUY) = (index = 1) THEN TAKER_YES ELSE TAKER_NO]

ParsePolymarket ==
  /\ load.pc = "ticks" /\ market.venue = "POLYMARKET"
  /\ LET rows == TokenTrades([i \in DOMAIN load.rows |-> PolymarketRow(load.rows[i])],
                             load.instrument.token, Start, End)
     IN  To(IF PricesValid(rows)
            THEN [pc |-> "loaded", ticks |-> ParseTrades(rows, load.instrument.token, Second)]
            ELSE [pc |-> "failed", ticks |-> <<>>])
  /\ UNCHANGED market

ParseKalshi ==
  /\ load.pc = "ticks" /\ market.venue = "KALSHI"
  /\ LET rows == KalshiTrades([i \in DOMAIN load.rows |-> KalshiRow(load.rows[i], load.index)],
                              Start * Second, End * Second, Second)
     IN  To(IF KalshiRowsValid(rows)
            THEN [pc |-> "loaded", ticks |-> ParseKalshiTrades(rows, Second)]
            ELSE [pc |-> "failed", ticks |-> <<>>])
  /\ UNCHANGED market

LoadsNext ==
  \/ TradeHappens \/ Resolve
  \/ FetchMarket \/ FetchDetails \/ FetchFeeRate \/ FetchEventMarkets \/ FetchEvent \/ RequestFails
  \/ FetchPage \/ CeilingHit \/ FetchCursorPage
  \/ ParsePolymarket \/ ParseKalshi
-----------------------------------------------------------------------------
\* The trades of the side and the window that had happened when the first page was asked for
Due ==
  LET to == IF market.venue = "KALSHI" THEN End * Second ELSE End * Second + Second - 1
  IN  {n \in 1 .. load.before :
         /\ Tape[n].ts >= Start /\ Time(n) <= to
         /\ market.venue = "KALSHI" \/ Tape[n].asset = load.instrument.token}

\* A finished load without the warning has a tick for every trade that was due, however the
\* list moved between the pages: trades that happen meanwhile push older ones onto the next
\* page, and a page may hold next to nothing of the window or of the token.
TradesComplete ==
  load.pc = "loaded" /\ ~load.partial =>
    \A n \in Due : \E i \in DOMAIN load.ticks :
      load.ticks[i].size = Tape[n].size /\ load.ticks[i].ts \div Second = Tape[n].ts

\* The engine takes ticks by their times and drops one whose identifier it has seen: no two
\* ticks of a load have one time or one identifier, and they come in the order of their times.
TicksOrdered ==
  \A i, j \in DOMAIN load.ticks :
    i < j => load.ticks[i].ts < load.ticks[j].ts /\ load.ticks[i].id # load.ticks[j].id
-----------------------------------------------------------------------------
(* load_market_bars (adapters/kalshi/research.py): the candlesticks of a    *)
(* window, chunk by chunk, each asked for again while the venue says that   *)
(* it is asked too often.                                                   *)

CONSTANTS Candles,          \* the candlesticks the venue has, in no order
          BarStart, BarEnd, \* the window
          Chunk,            \* chunk_minutes
          MaxRetries,       \* max_retries
          MinBars, MinBarRange

ASSUME BarsAssumption ==
  /\ Chunk \in Nat \ {0} /\ MaxRetries \in Nat
  /\ Candles \in Seq(Range(Candles)) /\ \A c \in Range(Candles) : c.end \in Int
  /\ BarStart \in Int /\ BarEnd \in Int /\ BarStart < BarEnd

VARIABLES bars   \* the chunk, how often it was asked for, what there is so far

NoBars == [pc |-> "chunks", start |-> BarStart, attempt |-> 0, bars |-> <<>>]
BarsInit == bars = NoBars

ChunkEnd == IF bars.start + Chunk < BarEnd THEN bars.start + Chunk ELSE BarEnd

\* What the venue answers for a chunk, both ends included (external)
Answer(start, end) == Keep(Candles, LAMBDA c : start <= c.end /\ c.end <= end)

Closes(loaded) == [i \in DOMAIN loaded |-> loaded[i].close]

NextChunk(loaded) == bars' = [bars EXCEPT !.bars = @ \o loaded, !.start = ChunkEnd, !.attempt = 0]

ChunkAnswered ==
  /\ bars.pc = "chunks" /\ bars.start < BarEnd
  /\ NextChunk(LoadBars(Answer(bars.start, ChunkEnd)))

\* HTTP 429: wait and ask again, up to MaxRetries times.
RateLimited ==
  /\ bars.pc = "chunks" /\ bars.start < BarEnd
  /\ bars' = IF bars.attempt < MaxRetries THEN [bars EXCEPT !.attempt = @ + 1] ELSE [bars EXCEPT !.pc = "skipped"]

\* Any other error gives the market up.
ChunkFails ==
  /\ bars.pc = "chunks" /\ bars.start < BarEnd
  /\ bars' = [bars EXCEPT !.pc = "skipped"]

BarsLoaded ==
  /\ bars.pc = "chunks" /\ bars.start >= BarEnd
  /\ bars' = [bars EXCEPT !.pc = IF WorthReplaying(Closes(bars.bars), MinBars, MinBarRange) THEN "loaded" ELSE "skipped"]

BarsNext == ChunkAnswered \/ RateLimited \/ ChunkFails \/ BarsLoaded
-----------------------------------------------------------------------------
\* A history of bars that is not given up has every period of the window that had trades,
\* in order, whatever the venue refused on the way; where two chunks meet a bar may come
\* twice, next to itself.
BarsWhole ==
  /\ bars.pc = "loaded" =>
       \A c \in Range(Candles) : Traded(c) /\ BarStart <= c.end /\ c.end <= BarEnd =>
         \E i \in DOMAIN bars.bars : bars.bars[i].ts = c.end
  /\ \A i, j \in DOMAIN bars.bars : i < j => bars.bars[i].ts <= bars.bars[j].ts
=============================================================================
