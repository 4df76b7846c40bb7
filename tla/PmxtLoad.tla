------------------------------ MODULE PmxtLoad ------------------------------
(***************************************************************************)
(* A PMXT load: what load_order_book_and_quotes of                         *)
(* adapters/polymarket/pmxt.py makes of the hours PmxtPrefetch delivers,   *)
(* the records the backtest engine replays.  Every source that has an hour *)
(* has the same rows of it.                                                *)
(*                                                                         *)
(* A payload is a book snapshot or a price change with its time.  A book   *)
(* is the sequence of the payloads since its snapshot, empty before one.   *)
(***************************************************************************)
EXTENDS PmxtPrefetch, Lists

CONSTANTS
  WindowStart, WindowEnd,   (* start_ns and end_ns                                             *)
  Tapes                     (* what the vendor may have recorded: the payloads of each hour    *)

ASSUME WindowAssumption == WindowStart \in Int /\ WindowEnd \in Int /\ WindowStart < WindowEnd

Payload == [kind : {"snapshot", "change"}, ts : Int]

\* The vendor's file of an hour has nothing that is later than what is in the next one.
ASSUME TapesAssumption ==
  /\ Tapes \subseteq [Hours -> Seq(Payload)]
  /\ \A tape \in Tapes : \A g, h \in Hours : g < h =>
       \A i \in DOMAIN tape[g], j \in DOMAIN tape[h] : tape[g][i].ts <= tape[h][j].ts

InWindow(p) == WindowStart <= p.ts /\ p.ts <= WindowEnd

\* _payload_sort_key: by time, snapshots first.
Before(p, q) == p.ts < q.ts \/ (p.ts = q.ts /\ p.kind = "snapshot" /\ q.kind = "change")

\* apply_deltas: the deltas of a snapshot begin by clearing the book.
Apply(book, p) == IF p.kind = "snapshot" THEN <<p>> ELSE Append(book, p)

Deltas(p) == [type |-> "deltas", payload |-> p, book |-> <<>>]
Quote(p, book) == [type |-> "quote", payload |-> p, book |-> book]

Emit(state, p, book) ==
  [book |-> book,
   events |-> IF InWindow(p) THEN state.events \o <<Deltas(p), Quote(p, book)>> ELSE state.events]

\* _process_book_snapshot and _process_price_change, which ignores the changes before the
\* first snapshot.  Both emit the deltas and the quote of the book after them.
Process(state, p) ==
  IF p.kind = "change" /\ state.book = <<>> THEN state ELSE Emit(state, p, Apply(state.book, p))

ReplayHour(state, rows) ==
  LET sorted == StableSort(rows, Before)
      after[n \in 0 .. Len(sorted)] == IF n = 0 THEN state ELSE Process(after[n - 1], sorted[n])
  IN  after[Len(sorted)]

\* Mutant of EventBefore: quotes before deltas.
EventBeforeQuotesFirst(e, f) ==
  e.payload.ts < f.payload.ts \/ (e.payload.ts = f.payload.ts /\ e.type = "quote" /\ f.type = "deltas")

\* _event_sort_key: by time, deltas before quotes; among equals the order of emission stays.
EventBefore(e, f) ==
  e.payload.ts < f.payload.ts \/ (e.payload.ts = f.payload.ts /\ e.type = "deltas" /\ f.type = "quote")

\* The records of the hours, each a sequence of payloads in the order of its file.
LoadOrderBookAndQuotes(hours) ==
  LET after[h \in 0 .. Len(hours)] ==
        IF h = 0 THEN [book |-> <<>>, events |-> <<>>] ELSE ReplayHour(after[h - 1], hours[h])
  IN  StableSort(after[Len(hours)].events, EventBefore)
-----------------------------------------------------------------------------
(* The engine keeps a book of its own from the deltas it is given.          *)

EngineBook(events, k) ==
  LET book[n \in 0 .. k] ==
        IF n = 0 THEN <<>>
        ELSE IF events[n].type = "deltas" THEN Apply(book[n - 1], events[n].payload) ELSE book[n - 1]
  IN  book[k]

\* The quotes that no later quote of the same time replaces.
LastQuotes(events) ==
  {k \in DOMAIN events :
     /\ events[k].type = "quote"
     /\ ~\E l \in (k + 1)..Len(events) :
           events[l].type = "quote" /\ events[l].payload.ts = events[k].payload.ts}

EngineHasSnapshot(events, k) ==
  \E i \in 1..k : events[i].type = "deltas" /\ events[i].payload.kind = "snapshot"
-----------------------------------------------------------------------------
(* The load                                                                *)

\* Hours without rows and hours found nowhere are both skipped.
Records(tape) ==
  LoadOrderBookAndQuotes([h \in Hours |-> IF delivered[h] = None THEN <<>> ELSE tape[h]])

\* P holds of every quote, at its place in the records that a load has returned.
OfQuotes(P(_, _, _)) ==
  consumer = "returned" => \A tape \in Tapes :
    LET events == Records(tape) IN \A k \in LastQuotes(events) : P(tape, events, k)

Matches(tape, events, k) == EngineBook(events, k) = events[k].book

\* From the first snapshot of the window on, the engine's book is the book of the quotes.
MatchesOnceSnapshot ==
  OfQuotes(LAMBDA tape, events, k : EngineHasSnapshot(events, k) => Matches(tape, events, k))
=============================================================================
