-------------------------- MODULE PolymarketReports -------------------------
(***************************************************************************)
(* The reports the live Polymarket client gives the engine for its         *)
(* reconciliation (adapters/polymarket/execution.py): the status of        *)
(* orders, the history made up from trades, fills and positions, each read *)
(* in several requests while the venue goes on trading.                    *)
(*                                                                         *)
(* An order is named by its venue order id.  Fills are of one share.  The  *)
(* answers the client's library puts together of pages are read at one     *)
(* moment, except that pages of trades may overlap.                        *)
(***************************************************************************)
EXTENDS Integers, Sequences, SequencesExt, FiniteSets, FiniteSetsExt, Functions

CONSTANTS VenueOrders,   \* the orders the user may have at the venue
          Own,           \* those this client posts
          InstrumentOf,  \* the instrument of an order
          ConditionOf,   \* the market of an instrument
          Cached,        \* the instruments the engine's cache holds
          MaxTrades,     \* bound of the model: trades
          OrderSize,     \* the size of an order
          History,       \* the values of generate_order_history_from_trades considered
          Jobs,          \* the reports asked for, of those below
          PageSize,      \* positions of a page (100)
          MaxOffset,     \* the offset after which no page is asked for (10,000)
          MaxHeld,       \* bound of the model: shares held of an instrument
          MaxMoves       \* bound of the model: changes of the positions

Instruments == DOMAIN ConditionOf   \* numbers

ASSUME ReportsAssumption ==
  /\ InstrumentOf \in [VenueOrders -> Instruments] /\ Own \subseteq VenueOrders /\ Cached \subseteq Instruments
  /\ Jobs \subseteq {"orders", "fills", "data positions", "clob positions"}
  /\ IsFiniteSet(VenueOrders) /\ IsFiniteSet(Instruments) /\ Instruments \subseteq Nat
  /\ PageSize \in Nat \ {0} /\ MaxOffset \in Nat /\ PageSize <= MaxOffset
  /\ MaxHeld \in Nat /\ OrderSize \in Nat \ {0} /\ History \subseteq BOOLEAN

VARIABLES book,    \* the venue: the state of each order, its trades, what is held
          cache,   \* the engine's cache: the orders in its venue id index, those that the engine
                   \* was told of by the venue, and those of them it takes for open
          call     \* the report being made

reportVars == <<book, cache, call>>

All == -1   \* a command without instrument

ReportsInit ==
  /\ book = [order |-> [o \in VenueOrders |-> "none"], trades |-> <<>>, held |-> [i \in Instruments |-> 1], moves |-> 0]
  /\ cache = [indexed |-> {}, accepted |-> {}, open |-> {}]
  /\ \E job \in Jobs, asked \in Cached \union {All}, history \in History :
       /\ job # "orders" => ~history
       /\ call = [job |-> job, asked |-> asked, history |-> history, pc |-> "idle", answer |-> {},
                  indexed |-> {}, accepted |-> {}, todo |-> {}, later |-> asked, reports |-> <<>>, trades |-> <<>>, fills |-> <<>>, offset |-> 0,
                  sizes |-> <<>>, quantities |-> <<>>, seen |-> [i \in Instruments |-> {}], rose |-> {}]

Go(fields) == call' = [k \in DOMAIN call |-> IF k \in DOMAIN fields THEN fields[k] ELSE call[k]]
Ended == call.pc \in {"done", "failed"}
OfOrders == call.job \in {"orders", "fills"}
-----------------------------------------------------------------------------
(* The venue (external)                                                     *)

Filled(o) == Cardinality({i \in DOMAIN book.trades : o \in book.trades[i].orders})

\* An order is posted; the client indexes the id of its own when the answer arrives ...
Post(o) ==
  /\ OfOrders /\ ~Ended
  /\ book.order[o] = "none"
  /\ book' = [book EXCEPT !.order[o] = "open"]
  /\ UNCHANGED <<cache, call>>

Indexed(o) ==
  /\ OfOrders /\ ~Ended
  /\ o \in Own \ cache.indexed /\ book.order[o] # "none"
  /\ cache' = [cache EXCEPT !.indexed = @ \union {o}]
  /\ UNCHANGED <<book, call>>

\* ... and the engine's order gets it, and is open, with the first websocket event that it
\* applies, which waits for the index.
Accepted(o) ==
  /\ OfOrders /\ ~Ended
  /\ o \in cache.indexed \ cache.accepted
  /\ cache' = [cache EXCEPT !.accepted = @ \union {o}, !.open = @ \union {o}]
  /\ UNCHANGED <<book, call>>

\* The websocket tells the engine of the end of an order.
Closed(o) ==
  /\ OfOrders /\ ~Ended
  /\ o \in cache.open /\ book.order[o] = "done"
  /\ cache' = [cache EXCEPT !.open = @ \ {o}]
  /\ UNCHANGED <<book, call>>

\* One trade fills one share of an order, or of two resting orders of one market that lie on
\* both of its sides.
Trade(orders) ==
  /\ OfOrders /\ ~Ended
  /\ Len(book.trades) < MaxTrades
  /\ \A o \in orders : book.order[o] = "open"
  /\ Cardinality({ConditionOf[InstrumentOf[o]] : o \in orders}) = 1
  /\ book' = [book EXCEPT !.trades = Append(@, [id |-> Len(@) + 1, orders |-> orders]),
                          !.order = [o \in VenueOrders |-> IF o \in orders /\ Filled(o) + 1 = OrderSize THEN "done" ELSE @[o]]]
  /\ UNCHANGED <<cache, call>>

Cancel(o) ==
  /\ OfOrders /\ ~Ended
  /\ book.order[o] = "open"
  /\ book' = [book EXCEPT !.order[o] = "done"]
  /\ UNCHANGED <<cache, call>>

\* The positions the Data API lists, the largest first, and where one is in the list
Listed == {i \in Instruments : book.held[i] > 0}

Precedes(i, j) == book.held[i] > book.held[j] \/ (book.held[i] = book.held[j] /\ i < j)
Larger(i) == {j \in Listed : Precedes(j, i)}
Place(i) == Cardinality(Larger(i))

\* Shares are bought and sold.  `seen` remembers what was held since the report was begun, `rose`
\* which of the positions went up in the list, since it was bought or one before it was sold.
Move(i, held) ==
  /\ ~OfOrders /\ ~Ended
  /\ book.moves < MaxMoves /\ book.held[i] # held
  /\ book' = [book EXCEPT !.held[i] = held, !.moves = @ + 1]
  /\ Go([seen |-> [call.seen EXCEPT ![i] = @ \union {held}],
         rose |-> call.rose \union {j \in Instruments : ~(Larger(j) \subseteq Larger(j)')}])
  /\ UNCHANGED cache
-----------------------------------------------------------------------------
(* generate_order_status_reports                                            *)

Asked(i) == call.asked \in {All, i}

Begin ==
  /\ call.pc = "idle"
  /\ Go([pc |-> CASE call.job = "orders" -> "orders" [] call.job = "fills" -> "trades"
                  [] call.job = "data positions" -> "page" [] OTHER -> "balances",
         indexed |-> cache.indexed, accepted |-> cache.accepted, seen |-> [i \in Instruments |-> {book.held[i]}], rose |-> {},
         todo |-> {i \in Cached : Asked(i)}])
  /\ UNCHANGED <<book, cache>>

\* Reports about an order: where it comes from, the client order id it bears, what was filled.
Report(o, source, client, filled) == [order |-> o, source |-> source, client |-> client, filled |-> filled]

\* The order's own client id if the index has it, one made up otherwise.
ClientId(o) == IF o \in cache.indexed THEN "own" ELSE "made up"

\* The venue reads its open orders ...
OrdersRead ==
  /\ call.pc = "orders"
  /\ Go([pc |-> "orders read",
         answer |-> {[order |-> o, filled |-> Filled(o)] :
                       o \in {p \in VenueOrders : book.order[p] = "open" /\ Asked(InstrumentOf[p])}}])
  /\ UNCHANGED <<book, cache>>

\* ... and the client makes a report of each whose instrument it has; once the retries are
\* used up there is no answer.
OrdersAnswered ==
  /\ call.pc = "orders read"
  /\ \E answer \in {call.answer, {}} :
       LET told == SetToSeq({a \in answer : InstrumentOf[a.order] \in Cached})
       IN  Go([reports |-> [k \in DOMAIN told |->
                              Report(told[k].order, "open", ClientId(told[k].order), told[k].filled)],
               pc |-> IF call.history THEN "list" ELSE "done", answer |-> {}])
  /\ UNCHANGED <<book, cache>>

\* orders_open of the cache, without those whose client id was reported
OpenListed ==
  /\ call.pc = "list"
  /\ Go([todo |-> cache.open \ {call.reports[k].order : k \in {n \in DOMAIN call.reports : call.reports[n].client = "own"}},
         pc |-> "single"])
  /\ UNCHANGED <<book, cache>>

\* generate_order_status_report for one of them.  The command it is asked with takes the
\* place of the outer one, so that the fills are asked for its instrument.
OrderAnswered(o) ==
  /\ call.pc = "single" /\ o \in call.todo
  /\ \E reports \in {call.reports, Append(call.reports, Report(o, "single", "own", Filled(o)))} :
       Go([todo |-> call.todo \ {o}, later |-> InstrumentOf[o],
           reports |-> IF InstrumentOf[o] \in Cached THEN reports ELSE call.reports])
  /\ UNCHANGED <<book, cache>>

\* Mutant of KnownIds: only the ids of the reports.
ReportedIds == {call.reports[k].order : k \in DOMAIN call.reports}

\* known_venue_order_ids: the venue_order_id of the cache's orders, which an order that is only
\* in the index does not have yet, and the reported ones
KnownIds == cache.accepted \union {call.reports[k].order : k \in DOMAIN call.reports}

HistoryBegun ==
  /\ call.pc = "single" /\ call.todo = {}
  /\ Go([todo |-> KnownIds, pc |-> "trades"])
  /\ UNCHANGED <<book, cache>>
-----------------------------------------------------------------------------
(* generate_fill_reports, alone or for the history                          *)

FillsAsked == IF call.job = "fills" THEN call.asked ELSE call.later

\* The venue reads the trades of the market asked for; one may come twice.
TradesRead ==
  /\ call.pc = "trades"
  /\ LET told == SetToSeq({t \in Range(book.trades) : \A o \in t.orders :
                   FillsAsked = All \/ ConditionOf[InstrumentOf[o]] = ConditionOf[FillsAsked]})
     IN  \E answer \in {told} \union {Append(told, told[k]) : k \in DOMAIN told} :
           Go([pc |-> "trades read", trades |-> answer])
  /\ UNCHANGED <<book, cache>>

\* The fills of a trade that are asked for, those of unknown instruments left out
FillsOf(t, asked) ==
  {[trade |-> t.id, order |-> o] : o \in {p \in t.orders : InstrumentOf[p] \in Cached /\ asked \in {All, InstrumentOf[p]}}}

\* Mutant of ParseTrades: one fill of each trade.
ParseFirstFills(trades, asked) ==
  FoldLeft(LAMBDA fills, t :
             IF \E k \in DOMAIN fills : fills[k].trade = t.id THEN fills
             ELSE fills \o SetToSeq(IF FillsOf(t, asked) = {} THEN {} ELSE {CHOOSE f \in FillsOf(t, asked) : TRUE}),
           <<>>, trades)

\* _parse_trades_response_object: each pair of a trade and an order once
ParseTrades(trades, asked) ==
  LET upTo[n \in 0 .. Len(trades)] ==
        IF n = 0 THEN <<>> ELSE upTo[n - 1] \o SetToSeq(FillsOf(trades[n], asked) \ Range(upTo[n - 1]))
  IN  upTo[Len(trades)]

\* The reports made up of the fills of orders that are not known
MadeUp(fills) ==
  LET unknown == {fills[k].order : k \in DOMAIN fills} \ call.todo
      of(o) == {k \in DOMAIN fills : fills[k].order = o}
  IN  SetToSeq({Report(o, "fills", "made up", Cardinality(of(o))) : o \in unknown})

TradesAnswered ==
  /\ call.pc = "trades read"
  /\ \E trades \in {call.trades, <<>>} :
       LET fills == ParseTrades(trades, FillsAsked)
       IN  IF call.job = "fills" THEN Go([fills |-> fills, trades |-> trades, pc |-> "done"])
           ELSE Go([reports |-> call.reports \o MadeUp(fills), fills |-> fills, trades |-> trades, pc |-> "done"])
  /\ UNCHANGED <<book, cache>>
-----------------------------------------------------------------------------
(* generate_position_status_reports                                         *)

\* The positions of the page asked for
Page == {i \in Listed : call.offset <= Place(i) /\ Place(i) < call.offset + PageSize}

\* size_by_asset, once a page is added
SizesWith(sizes, page) == [i \in DOMAIN sizes \union page |-> IF i \in page THEN book.held[i] ELSE sizes[i]]

\* Mutant of LastPage: it may be full.
LastPageAtMost == Cardinality(Page) <= PageSize \/ call.offset + PageSize > MaxOffset

\* A page that is not full, or the one at the ceiling of the offset
LastPage == Cardinality(Page) < PageSize \/ call.offset + PageSize > MaxOffset

\* _fetch_user_positions, one page; after the last a quantity for each instrument asked for
PositionsPage ==
  /\ call.pc = "page"
  /\ LET sizes == SizesWith(call.sizes, Page)
     IN  Go([sizes |-> sizes, offset |-> call.offset + PageSize,
             quantities |-> [i \in call.todo |-> IF i \in DOMAIN sizes THEN sizes[i] ELSE 0],
             pc |-> IF LastPage THEN "done" ELSE "page"])
  /\ UNCHANGED <<book, cache>>

\* _fetch_quantities_from_clob_api, one instrument
BalanceAnswered(i) ==
  /\ call.pc = "balances" /\ i \in call.todo
  /\ LET quantities == [j \in DOMAIN call.quantities \union {i} |-> IF j = i THEN book.held[i] ELSE call.quantities[j]]
     IN  Go([quantities |-> quantities, todo |-> call.todo \ {i}, pc |-> IF call.todo = {i} THEN "done" ELSE "balances"])
  /\ UNCHANGED <<book, cache>>

\* An answer that is an error raises.
PositionsFail ==
  /\ call.pc \in {"page", "balances"}
  /\ Go([pc |-> "failed"])
  /\ UNCHANGED <<book, cache>>

ReportsNext ==
  \/ \E o \in VenueOrders : Post(o) \/ Indexed(o) \/ Accepted(o) \/ Closed(o) \/ Cancel(o) \/ OrderAnswered(o)
  \/ \E orders \in SUBSET VenueOrders : orders # {} /\ Trade(orders)
  \/ \E i \in Instruments : BalanceAnswered(i) \/ \E held \in 0 .. MaxHeld : Move(i, held)
  \/ Begin \/ OrdersRead \/ OrdersAnswered \/ OpenListed \/ HistoryBegun
  \/ TradesRead \/ TradesAnswered \/ PositionsPage \/ PositionsFail

ReportsSpec == ReportsInit /\ [][ReportsNext]_reportVars
-----------------------------------------------------------------------------
Done(job) == call.job = job /\ call.pc = "done"

\* The fills reported are the fills of the trades the venue answered, each once, whether a
\* trade filled one order or two and came once or twice; a status made up of fills says all
\* that the answer had of its order.
FillsCountedOnce ==
  Done("orders") \/ Done("fills") =>
    LET due == UNION {FillsOf(t, FillsAsked) : t \in Range(call.trades)}
    IN  /\ Range(call.fills) = due /\ Len(call.fills) = Cardinality(due)
        /\ \A report \in Range(call.reports) :
             report.source = "fills" => report.filled = Cardinality({f \in due : f.order = report.order})

\* The engine takes an order under a client id it does not know for somebody else's and
\* tracks it a second time.  An order whose venue id was indexed when the report was begun is
\* reported once at most, and one that the engine had been told of by then only under its own
\* client id, however it is filled, canceled or closed meanwhile.
KnownOnceReported ==
  Done("orders") =>
    LET of(o) == {k \in DOMAIN call.reports : call.reports[k].order = o}
    IN  /\ \A o \in call.indexed : Cardinality(of(o)) <= 1
        /\ \A o \in call.accepted : \A k \in of(o) : call.reports[k].client = "own"

\* Positions are listed by size and asked for by offset, page after page, while they change.  One
\* that is held all the while, and does not go up in the list meanwhile, is reported with a
\* quantity that it had, also when others are bought and come before it, unless it lies beyond the
\* ceiling of the offset.  One that goes up may be on no page and reported as flat.
PositionsFetched ==
  Done("data positions") =>
    \A i \in DOMAIN call.quantities \ call.rose :
      0 \notin call.seen[i] /\ Place(i) <= MaxOffset => call.quantities[i] \in call.seen[i]
=============================================================================
