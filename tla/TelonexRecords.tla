--------------------------- MODULE TelonexRecords ---------------------------
(***************************************************************************)
(* What the Telonex data source makes of a day's frame                     *)
(* (backtesting/data_sources/telonex.py): the days of a window, the quotes *)
(* of a quotes frame, and the book deltas and quotes of a frame of full    *)
(* book snapshots.                                                         *)
(*                                                                         *)
(* A row is a time and the levels of its two sides as the vendor lists     *)
(* them; a level is a price and a size.  A side of a book is a function    *)
(* from prices to sizes.  Prices are compared as the numbers they are: the *)
(* code compares the strings the vendor wrote.                             *)
(***************************************************************************)
EXTENDS Integers, Sequences, SequencesExt, Lists

-----------------------------------------------------------------------------
(* The window                                                              *)

DayOf(t, dayLength) == t \div dayLength

\* _date_range: the days of the window, the first and the last included.
DateRange(start, end, dayLength) ==
  [i \in 1 .. DayOf(end, dayLength) - DayOf(start, dayLength) + 1 |->
     DayOf(start, dayLength) + i - 1]

\* _day_window: the part of the window on a day; from > to when there is none.
DayWindow(date, start, end, dayLength) ==
  LET first == date * dayLength
      last  == first + dayLength - 1
  IN  [from |-> IF start > first THEN start ELSE first, to |-> IF end < last THEN end ELSE last]
-----------------------------------------------------------------------------
(* Quotes                                                                  *)

RowEarlier(r, s) == r.ts < s.ts
-----------------------------------------------------------------------------
(* Books                                                                   *)

\* _book_levels_from_value: levels without size are dropped, the touch comes last.
BookLevels(raw, side) ==
  StableSort(Keep(raw, LAMBDA l : l.size > 0),
             LAMBDA l, m : IF side = "bid" THEN l.price < m.price ELSE l.price > m.price)

\* _book_side_map
SideMap(levels) ==
  DictOf([i \in DOMAIN levels |-> levels[i].price], [i \in DOMAIN levels |-> levels[i].size])

\* Mutant of Changes: levels that are gone are not mentioned.
ChangesKept(previous, current) ==
  [p \in {q \in DOMAIN current : current[q] # Get(previous, q, 0)} |-> current[p]]

\* _diff_to_deltas for one side: a level that is gone has size 0.
Changes(previous, current) ==
  [p \in {q \in DOMAIN previous \union DOMAIN current : Get(previous, q, 0) # Get(current, q, 0)} |->
     Get(current, p, 0)]

Deltas(ts, clear, bids, asks) == [type |-> "deltas", ts |-> ts, clear |-> clear, bids |-> bids, asks |-> asks]
Quote(ts, bid, ask) == [type |-> "quote", ts |-> ts, bid |-> bid, ask |-> ask]

\* parse_to_snapshot (external) has nothing to say of a book without levels.
Snapshot(ts, bids, asks) ==
  IF bids = <<>> /\ asks = <<>> THEN <<>> ELSE <<Deltas(ts, TRUE, SideMap(bids), SideMap(asks))>>

Diff(ts, previous, bids, asks) ==
  LET b == Changes(previous.bids, bids)
      a == Changes(previous.asks, asks)
  IN  IF DOMAIN b = {} /\ DOMAIN a = {} THEN <<>> ELSE <<Deltas(ts, FALSE, b, a)>>

\* parse_to_quote (external): the touch of both sides.
QuoteOf(ts, bids, asks) ==
  IF bids = <<>> \/ asks = <<>> THEN <<>> ELSE <<Quote(ts, Last(bids).price, Last(asks).price)>>

\* The records of one time: deltas before quotes.
EventLess(e, f) == e.ts < f.ts \/ (e.ts = f.ts /\ e.type = "deltas" /\ f.type = "quote")

NoBook == [bids |-> DictOf(<<>>, <<>>), asks |-> DictOf(<<>>, <<>>)]

\* One row of _book_events_from_frame: rows before the window are remembered only; the
\* first book of the window is a snapshot, the later ones differences to the row before.
RowEvents(state, row, start) ==
  LET bids == BookLevels(row.bids, "bid")
      asks == BookLevels(row.asks, "ask")
      book == [bids |-> SideMap(bids), asks |-> SideMap(asks)]
      deltas == IF state.emitted THEN Diff(row.ts, state.previous, book.bids, book.asks)
                ELSE Snapshot(row.ts, bids, asks)
  IN  IF row.ts < start THEN [state EXCEPT !.previous = book]
      ELSE [previous |-> book, emitted |-> state.emitted \/ deltas # <<>>,
            events |-> state.events \o deltas \o QuoteOf(row.ts, bids, asks)]

\* _book_events_from_frame
BookEvents(frame, start, end) ==
  LET rows == StableSort(Keep(frame, LAMBDA r : r.ts <= end), RowEarlier)
      state[n \in 0 .. Len(rows)] ==
        IF n = 0 THEN [previous |-> NoBook, emitted |-> FALSE, events |-> <<>>]
        ELSE RowEvents(state[n - 1], rows[n], start)
  IN  StableSort(state[Len(rows)].events, EventLess)

\* load_order_book_and_quotes, once each day of the window has a frame: frames[i] is the
\* frame found for the i-th day, which may hold other days as well.
LoadRecords(frames, start, end, dayLength) ==
  LET dates == DateRange(start, end, dayLength)
      window(i) == DayWindow(dates[i], start, end, dayLength)
      records[i \in 0 .. Len(dates)] ==
        IF i = 0 THEN <<>>
        ELSE IF window(i).from > window(i).to THEN records[i - 1]
        ELSE records[i - 1] \o BookEvents(frames[i], window(i).from, window(i).to)
  IN  StableSort(records[Len(dates)], EventLess)
-----------------------------------------------------------------------------
(* The engine's book (external)                                            *)

Patched(side, changes) ==
  [p \in {q \in DOMAIN side \union DOMAIN changes : Get(changes, q, Get(side, q, 0)) > 0} |->
     Get(changes, p, Get(side, p, 0))]

Applied(book, event) ==
  IF event.type = "quote" THEN book
  ELSE IF event.clear THEN [bids |-> event.bids, asks |-> event.asks]
  ELSE [bids |-> Patched(book.bids, event.bids), asks |-> Patched(book.asks, event.asks)]
-----------------------------------------------------------------------------
(* A replay: the engine (external) applies the records one by one to its    *)
(* book.                                                                   *)

CONSTANTS Books,              \* the frames a replay may find: one per day of the window
          FeedStart, FeedEnd, \* the window
          DayLength

\* A row is made of numbers, and every day of the window has a frame.
Levels == [price : Int, size : Int]
BookRows == [ts : Int, bids : Seq(Levels), asks : Seq(Levels)]

ASSUME FeedAssumption ==
  /\ FeedStart \in Int /\ FeedEnd \in Int /\ DayLength \in Nat \ {0}
  /\ Books \subseteq [DOMAIN DateRange(FeedStart, FeedEnd, DayLength) -> Seq(BookRows)]

NotLoaded == -1

VARIABLES feed   \* the frames, the records made of them, how many the engine has applied, its book

FeedInit == \E frames \in Books : feed = [frames |-> frames, records |-> <<>>, applied |-> NotLoaded, book |-> NoBook]

\* load_order_book_and_quotes
LoadBook ==
  /\ feed.applied = NotLoaded
  /\ feed' = [feed EXCEPT !.records = LoadRecords(feed.frames, FeedStart, FeedEnd, DayLength), !.applied = 0]

Feed ==
  /\ feed.applied # NotLoaded /\ feed.applied < Len(feed.records)
  /\ feed' = [feed EXCEPT !.applied = @ + 1, !.book = Applied(@, feed.records[feed.applied + 1])]

FeedNext == LoadBook \/ Feed
-----------------------------------------------------------------------------
\* The rows of the frames up to a time, from the day of that time
RowsUntil(t) ==
  StableSort(Keep(feed.frames[DayOf(t, DayLength) - DayOf(FeedStart, DayLength) + 1], LAMBDA r : r.ts <= t), RowEarlier)

Shown(book) == [bids |-> {<<p, book.bids[p]>> : p \in DOMAIN book.bids},
                asks |-> {<<p, book.asks[p]>> : p \in DOMAIN book.asks}]

\* Whenever the engine is about to go on to a later time its book is the vendor's of the last
\* row up to then, although after the first snapshot it is given differences only, rows before
\* the window are never sent, and each day begins anew; and a quote it was given last shows the
\* touch of the last row of its time that had two sides.
BookRebuilt ==
  feed.applied > 0 =>
    LET now  == feed.records[feed.applied]
        next == feed.applied + 1
        rows == RowsUntil(now.ts)
        bids(row) == BookLevels(row.bids, "bid")
        asks(row) == BookLevels(row.asks, "ask")
        quoted == Last(Keep(rows, LAMBDA r : bids(r) # <<>> /\ asks(r) # <<>>))
    IN  feed.applied = Len(feed.records) \/ feed.records[next].ts > now.ts =>
          /\ Shown(feed.book) = Shown([bids |-> SideMap(bids(Last(rows))), asks |-> SideMap(asks(Last(rows)))])
          /\ now.type = "quote" =>
               /\ quoted.ts = now.ts
               /\ now.bid = Last(bids(quoted)).price
               /\ now.ask = Last(asks(quoted)).price
=============================================================================
