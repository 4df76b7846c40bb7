# prediction-market-backtesting: a TLA+ model

This directory holds TLA+ specifications of this repository's own logic: the parts whose correctness
depends on the order of events, on failures or on restarts, and the pure algorithms they are made of;
the TLC configurations that check them; and theorems about them checked by TLAPS.

## The system

The repository backtests prediction-market strategies on Kalshi and Polymarket data with
`nautilus_trader`, and extends it with adapters. Its parts:

| Part | State it keeps | Operations | What is hard | What makes it correct |
|---|---|---|---|---|
| Polymarket live execution client (`adapters/polymarket/execution.py`) | venue-order-id index, ack events, three dedup caches | submit, submit list, cancel, websocket order and trade messages, reconciliation reports | websocket events before the HTTP answer, ack timeouts, repeated trade messages, partial answers to a batch, a venue that trades on between two requests of a report | each fill reaches the engine once; the engine agrees with the venue once nothing is in flight; a report counts each fill once |
| Telonex day store (`scripts/_telonex_data_download.py`, `_TelonexParquetStore`) | open Parquet parts, DuckDB manifest | open, ingest a batch, close | kills between closing a part and committing it, operations that raise half way, orphan sweeps, part numbers used again | the manifest never promises rows that are not there; each completed day is found once |
| Telonex downloader (same file, `_run_jobs`) | tasks in flight, bounded queue, writer batch, counters | dispatch, fetch, parse, hand off, write, stop | signals, a failing or slow writer, cancelled tasks | every run ends; its summary agrees with the manifest; a rerun resumes |
| Telonex data source (`backtesting/data_sources/telonex.py`) | caches of readable parts, cache of payloads | load a day from the first source that has it; make book records of rows | parts rolled, swept or numbered again under the cache; days and rows out of order | a day is never read twice or in part; the engine's book is the vendor's |
| PMXT loader and data source (`adapters/polymarket/pmxt.py`, `backtesting/data_sources/pmxt.py`) | hour cache, active source, prefetch threads | load an hour from the first source, prefetch | threads rebind the shared source fields | hours in order, each from the source evaluated |
| PMXT raw downloader (`scripts/_pmxt_raw_download.py`) | files and temporary files | mirror hours from the archive with the largest object | several processes in one directory, broken connections, kills, the last error alone names an hour | no half file under its final name; the summary tells every hour that is missing |
| Market discovery and metadata (`adapters/*/research.py`, `market_selection.py`, `polymarket/gamma_markets.py`) | what is collected so far | page, filter, rank, analyse | lists that change between two pages | a game is found once |
| Trade loaders (`adapters/{kalshi,polymarket}/loaders.py`) | none beyond a load | metadata in several requests, trades page by page, ticks | a market that trades and is resolved meanwhile, equal timestamps | no trade of the window is missing, in time order; winners go to their outcome |
| Fee and fill models, settlement (`adapters/*/fee_model.py`, `fill_model.py`, `prediction_market/backtest_utils.py`) | none | commission, simulated book, settle fills at the outcome | an outcome told by three kinds of field | the PnL is the cash flow plus what the position is worth |
| Strategies (`strategies/`) | pending flag, entry sums, windows, flags of their own | on quote, trade or bar, on order events | partial fills, refusals, a denied order, latency | one working order; the sums follow the position; a pending flag clears |
| Replay and runners (`backtesting/`) | one result per replay | load or skip, run, in a child process or not, collect | a child that dies at any step, results in replay order | a whole result or an error per replay; every experiment ends |
| Parameter search (`backtesting/_optimizer.py`) | trials, finalists, leaderboard | train, holdout, rank, write | failing windows, ties | the selected trial is the best of those compared |
| Reports, plots, menu, notebooks, timing | little or none | formatting, I/O | | |

How they interact: runners ask a data source for records through a replay adapter; a data source reads
what a downloader wrote to disk (the only shared state is files) or asks a venue; strategies run inside
the `nautilus_trader` engine and reach a venue only through an execution client, which answers with
events on the engine's queue; a child process talks to its parent by one file, one pipe and its exit code.

## How the modules are laid out

| Module | What it is |
|---|---|
| `PolymarketExec` | the execution client, its event loop, the engine's event queue and the venue |
| `FillLedger` | abstract: what the client promises about fills |
| `PolymarketReports` | the reports the same client gives at a reconciliation |
| `TelonexStore` | the day store, one action per step an operation takes under the lock |
| `DayLedger` | abstract: what the store promises about days |
| `TelonexDownload` | the downloader, which EXTENDS `TelonexStore` and drives it |
| `TelonexLoad` | the data source's loader, which EXTENDS `TelonexStore` and reads beside its writer |
| `TelonexRecords` | the records made of a day's rows, and a replay that feeds them to a book |
| `PmxtPrefetch`, `PmxtLoad` | the hours of a PMXT window: sources, cache, threads, consumer; then the same with the rows of the hours |
| `RawDownload` | processes that mirror PMXT hours into one directory |
| `StrategySignals`, `StrategyFlags` | operators: what each strategy remembers and decides on a tick |
| `Strategies` | any one strategy in an engine with latency, partial fills and refusals |
| `ReplayWorker` | the protocol of a parent and a child process |
| `ReplayAdapters` | operators: a replay's window, load, run state and result |
| `ParameterSearch` | the search, which EXTENDS `ReplayWorker` |
| `Experiments` | searches, independent and joint replays, composed of the three |
| `MarketSelection`, `MarketMetadata`, `TradeTicks`, `Fills`, `Settlement` | operators: filters and ranking; a payload's tokens, winners and instrument; ticks and bars; fees and fill books; outcome and PnL |
| `Discovery`, `TradeLoads`, `MarketReplay` | a search, a load of trades, of bars, and an analysis or a replay of what was loaded |
| `MarketData` | the four together with the replay of `TelonexRecords`, one activity at a time |
| `Lists` | what the operators use of Python's lists and dicts |
| `MC…` | instances for TLC |
| `ListProofs` | lemmas about the operators of `Lists`, numbers and finite sets |
| `…Proofs` | theorems; each module EXTENDS those it is about |

A `Mutant of …` operator is a plausible mistake in the definition after it: replacing the one by the
other makes a property fail, which shows that the property says something about that code.

### PolymarketExec

| Model | Code (`adapters/polymarket/execution.py`) |
|---|---|
| `acked` | the cache's venue-order-id index |
| `batched` | which orders went out by `_post_signed_orders_batch` (more than one signed), the others by `_post_signed_order` |
| `waiting` | tasks in `asyncio.wait_for(event.wait(), ack_timeout)`; `attached` when their event is still the one in `_ack_events_order` / `_ack_events_trade` |
| `processedFills`, `processedTrades`, `finalizedTrades` | the three ordered dicts, with their eviction |
| `ready` | the loop's FIFO of callbacks; every `Run…` action runs its head |
| `evtq`, `status`, `tradeIds` | the engine's event queue and its orders (external) |
| `venue`, `tradeStatus`, `wire` | the CLOB and its user websocket (external) |
| `SubmitOrder`, `SubmitOrderList`, `CancelOrder` | `_submit_order`, `_submit_order_list`, `_cancel_order` up to their first await on the network |
| `Respond`, `RunAnswer` | the HTTP answer, then `_post_signed_order` or `_process_batch_response`, one order at a time |
| `CancelAnswered`, `FireAndForgetCancel` | `_generate_cancel_event`; `_cancel_all_global`, `_cancel_market_orders` |
| `Deliver`, `RunMessage` | `_handle_ws_message` and the synchronous part of its handlers |
| `RunStart`, `RunResume`, `AckTimeout` | `_wait_for_ack_order` / `_wait_for_ack_trade` before and after their await, and its timeout |
| `RunEngine` | the engine applies the next queued event |
| `VenueAccepts`, `VenueMatches`, `VenueSettles`, `VenueResends` | the venue |

Abstractions. Orders stand for their venue order ids. Instruments are always in the cache. An order
UPDATE and a TRADE message of the order channel generate nothing in the code and are not sent. Signing
awaits but shares no state, so a submit is one step; in a list the denied and the unsigned orders are
taken to come first. Retries of a post collapse to one post. Fills are of one unit. A
malformed result (`"raise"`) raises when it is read, in any answer and whatever the venue did: in a batch the
exception is caught and all orders are rejected, those the venue accepted too; `_post_signed_order` has no
`except`, so an order posted alone hears nothing. `told` remembers, for the properties, what an answer said
of each order. All tasks wait equally long, so the
one that waits longest times out first. `_update_account_state` is recorded (`refreshed`) and not
modelled further. Environment steps may fall between the orders of one answer, although the code does
not await there: this only adds behaviours.

### PolymarketReports

`book` is the venue (orders, trades, shares held), `cache` the engine's cache: the orders in its venue id
index, those whose `venue_order_id` is set since the engine was told of their acceptance, and those of
them that are open. `Indexed` is the HTTP answer, `Accepted` the first websocket event, a step of its own
that may come much later, `Closed` the last. `call` is the report being made: its command, where it is and what
it has read. `Begin`, `OrdersRead`, `OrdersAnswered`,
`OpenListed`, `OrderAnswered`, `HistoryBegun` are `generate_order_status_reports` with the history made
up from trades; `FillsAsked`, `TradesRead`, `TradesAnswered` are `generate_fill_reports`;
`PositionsPage`, `BalanceAnswered`, `PositionsFail` the two ways of reading positions. The venue moves
between any two of them. Abstractions: an order is its venue order id, fills are of one share, an answer
the client library puts together of several pages is read at one moment except that pages of trades may
overlap. The instance has three orders (one of another client, one of an instrument the cache does not
hold), two trades, four instruments and two moves of positions. `Larger` and `Place` are the Data API's order, `Page` the
positions at the offset; `LastPage` is the code's end of the loop, a page that is not full or the ceiling of
the offset. The instance has pages of one position and the ceiling at 2, so four positions take three pages, a fourth lies beyond
the ceiling, and every position may change between two pages. `rose` remembers which went up in the list. `ClientId` asks the index, `KnownIds` the
orders that were accepted. So an order that is indexed but not accepted while the history is made, and is
filled at once, is told under a client id made up; `KnownOnceReported` promises of it one report only.

### TelonexStore

| Model | Code (`scripts/_telonex_data_download.py`, `_TelonexParquetStore`) |
|---|---|
| `files` | the part files; `closed` once the Parquet footer is written |
| `completedDays`, `emptyDays` | the two DuckDB tables |
| `writers` | `_writers`: the open part of each partition and its `pending_days` |
| `call`, `steps`, `committing` | the lock and the program counter of the operation that holds it |
| `Open` | `__init__`: schema, then `_remove_orphan_parts` |
| `BeginIngest`, `AppendGroup`, `SplitGroup`, `RollForSchema`, `RecordEmpty`, `RecordMissing`, `Return` | `ingest_batch` and `_append_to_partition` |
| `ClosePart`, `CommitPart` | `_flush_open_part_locked`: close the writer, then the transaction |
| `BeginClose`, `FlushNext`, `SweepAndClose` | `close` |
| `AppendFails`, `ClosePartFails`, `CommitFails`, `RecordFails` | the same calls raising |
| `Exit` | the process ends, at any step when `"kill"` is a fault |

Abstractions. A write that fails adds no rows; unlinking never fails; what a power loss does to files
that were not synced is not modelled. Byte thresholds become a choice to roll, the day threshold is
`RollDays`. `close` flushes the partitions in any order. Part numbers are bounded by `MaxPart` in the
guards. Two results of one batch are never about the same day (the planner makes the jobs distinct).

### TelonexDownload

`main`, `joined` are the main thread (`download_telonex_days`, `_run_jobs` after `asyncio.run`);
`disp`, `jobs`, `tasks`, `handing`, `quota` the dispatcher on the event loop; `queue` the
`result_queue`; `writer`, `pending`, `writerFailed` the writer thread; `stop` both stop events;
`counted` the numbers of the summary as sets of days. `BeginTask`, `RequestDay`, `FetchEnds`, `ParseEnds` are
`_do_one_async`: a task looks at the stop request (L1476, L1155) and sends its first request (L1158) in two
steps, between which the loop runs nothing else (`InTask`) but the writer thread may ask for the stop; `late`
remembers the days whose first request came after it; `Prime`, `LoopHead`, `WaitReturns`, `HandOff`, `HandOffNext`, `HandedOff`,
`LaunchMore`, `CancelAndDrain` the dispatcher; `WriterTakes` to `WriterStopsRun` the writer;
`Interrupt` the first signals; `Join`, `JoinGivenUp`, `MainCloses`, `CloseReturns` the end. The steps
of the store are those of `TelonexStore`, interleaved with all of them.

Abstractions. A download with its retries and its total timeout is one step, `FetchEnds`; each retry looks at
the stop request again just before it sends, so it adds no window of its own. The thresholds on rows and seconds
that make the writer flush are a choice. The order of
jobs is fixed. `asyncio.wait` returning with nothing after its 1 s is modelled when the run is stopping
only. Cancelling the tasks and draining them is one step; with the fault `"drain"` the 15 s are not
enough and the results are dropped. A join of the writer that times out (60 s) or is broken by a
KeyboardInterrupt is `JoinGivenUp`. A SIGTERM after the dispatcher has removed its handler, and the
fifth signal, kill the process (`Exit`). A failed ingest sets `writerFailed` and asks for the stop in two
steps, as in the code. The path where `KeyboardInterrupt` leaves `asyncio.run` itself is not modelled.

### TelonexLoad, TelonexRecords

`at`, `n`, `e` are the place of the day-by-day loop of `load_order_book_and_quotes`; `scanned` is
`_telonex_readable_blob_parts`, which a loader fills once per partition and keeps; `apiCache` the cached
payloads, `daily` and `range` the local files beside the store. `ScanParts` is two steps, the glob and
the opening of the parts it found, so that the store may roll, sweep or renumber between them.
`QueryBlob`, `ReadDaily`, `ReadRange`, `Fetch`, `WriteCache`, `Parse` are the sources in their order;
`Kill` ends the reading process, and excuses the day whose payload it had not written yet. The store's own actions run beside them unchanged. A frame is what
matters of it: how many copies of the day it has. The loader reads one market and outcome.

`TelonexRecords` makes deltas and quotes of rows of full books: the first row of a window is a
snapshot, later ones are differences. Its replay feeds them to a book, one record at a time, and compares
the book with the row the vendor gave. Prices are compared as numbers, the code compares the strings the vendor wrote.

### PmxtPrefetch, PmxtLoad

`fields` are `_pmxt_raw_root` and `_pmxt_remote_base_urls` of the one loader object; `task[h]` is the
thread that loads hour `h`, with what `_scoped_source_entry` saved; `consumer`, `submitted`, `yielded`
are `_iter_market_batches`; `cache` is the filtered cache on disk. `ReadCache`, `NextAttempt`,
`BindFields`, `LoadLocal`, `BeginRemote`, `Fetch`, `WriteCache`, `LeaveAttempt` are the steps of
`_load_market_batches` between which another thread may run. `PmxtLoad` adds
`load_order_book_and_quotes` with a book represented by the payloads since its snapshot, so that two
books are equal when they were made from the same payloads.

Abstractions. URLs are always built from `_pmxt_remote_base_urls[0]`, so `_pmxt_remote_base_url` is left
out; a disabled archive is a configuration without URLs; `PMXT_LOCAL_ARCHIVE_DIR` is not set. The reads
that save the attributes are one step, and so are the assignments that restore them; building a URL and
downloading it are one step. A cached file appears by `os.replace`, so a kill leaves at most a temporary
file. With one worker the code loads inline; that equals a pool of one, because the consumer shares
nothing with the thread while it processes an hour. All sources have the same rows of an hour, and a vendor's
file has nothing later than what is in the next hour's (`TapesAssumption`): the code sorts the rows of each
hour alone and the records of all hours at the end, and relies on it. With an hour that runs into the next,
quotes would show books the engine does not have. Quotes of
a book with an empty side, and the filtering of rows by token, are left out. `_load_market_table` and
`_iter_market_tables` are the same protocol for tables and not modelled a second time.

### RawDownload

A file and an object are their lengths; a temporary file is named by its hour and process. `Start`
and `Clean` are the clean-up before each hour, `Look` the HEAD requests and the decision whether the hour is there
already, `Rank` the archives by their object's length, `Request`, `Read`, `Broken`, `Replace` one
archive's try, `GiveUp` the report of an hour no archive gave, `Validate` the check of all files at the end.
Archives publish larger objects
meanwhile (`Publish`), answer with an error, close the connection early or say no length
(`"error"`, `"broken"`, `"short"`, `"silent"`), and a process may be killed at each step.

### Strategies, StrategySignals, StrategyFlags

`OnTick` chooses the strategy's handler; a handler gets the configuration, its memory, the tick and what
the strategy sees of itself (pending, held, its entry sums) and gives back its memory and what to do.
`SubmitEntry`, `EntryQuantity`, `SubmitExit`, `Submit` are the order plumbing of `core.py`;
`Arrive` is an order at the venue: filled in up to two pieces, the rest canceled or resting. What a
strategy does with each event is `Fill` and `Refused`. Prices are in cents, averages are compared after
multiplying by the length, exponential averages are whole numbers of a small unit. Each of the nineteen
runs with a configuration small enough that it enters and exits within five ticks.

### ReplayWorker, ReplayAdapters, ParameterSearch, Experiments

`ReplayWorker` is `_isolated_replay_runner.py` and the same protocol in `_optimizer.py`: `Spawn`,
`ParentCloses`, `Receive`, `Join`, `Load` of the parent, `ChildRuns`, `ChildWrites`, `ChildSends`,
`ChildCloses`, `ChildExits`, `ChildDies` of the child; the pipe is at its end when nobody holds its
writing end. `ReplayAdapters!Backtest` is what either side runs: it loads each replay or skips it, binds
strategies, and describes the run. The engine is external: it ends when it likes, forced or not, and its
money is a constant. `ParameterSearch` adds the trials: `BeginTrial`, `EvaluateTrain`, `EndTrial` (its
row), `EndTrain` (the best go on), `EvaluateHoldout`, `EndFinalist` (a new row), `EndHoldout`, `Rank`,
`WriteLeaderboard`, `WriteSummary`. What the TPE sampler proposes is any candidate. `Experiments` adds the
runs of several replays, one child each (`BeginReplay`, `TakeReplay`) or together (`RunTogether`), and
`Finalize`.

### MarketData and its parts

`Discovery` is a search: `GammaPage`, `GamesPage`, `KalshiPage` fetch the next page while the lists
change (`ListChanges`), `Filtered` and `GamesSorted` rank what was collected. `TradeLoads` is the load
of one market, the metadata in several requests (`FetchMarket`, `FetchDetails`, `FetchFeeRate`, or an
event with its siblings), then the pages of trades, while the market trades and is resolved
(`TradeHappens`, `Resolve`). `MarketReplay` analyses both sides or replays one: orders at ticks through
the fill models and the fees, then `Settle`. `BarsNext` of `TradeLoads` loads candlesticks in chunks,
with retries.

Abstractions. Prices are in cents, texts are numbers in their order, patterns that are matched in
titles and slugs are marks of a market, trades are told apart by their sizes, and a second has twenty
units. A Gamma offset is a place in the list at the time of the request; a Kalshi cursor names the last
row answered. The strategy of a replay buys and sells one contract at a time. Before a market is resolved
Gamma shows any of the prices `Quotes` (50 and 99 in the run): even prices count as a split whatever the
market's phase (`gamma_markets.py:233`). `adapters/polymarket/research.py` imports its loader from
`nautilus_trader`; the model composes it with the repository's own loader of that name.

## What the runs show

Faults, bounds and instances are constants of the cfg files. "States" are distinct states.

| Run | Question | Instance | States |
|---|---|---|---|
| `exec_order` | does the engine end with the venue's view, in every order of answers, messages and events? | one order, two trades under all their statuses, cancel at any time, no faults | 2.70M |
| `exec_batch` | is an order resolved otherwise than its answer says, a fill handed over twice, a cancel without its event? | two orders in a list or one alone, one trade for both, announced twice; short, lost and malformed answers, timeouts | 905k |
| `exec_reports` | what do the reports of a reconciliation say while the venue moves on? | three orders, two trades, four instruments, two moves, pages of one position | 4.44M |
| `store_resume` | does the manifest ever promise rows that are not there? | three days, two partitions, all kinds of result, each kind of failure, kills and restarts | 157k |
| `download_run` | is a result lost or counted twice; does every run end? | three days (one with rows, one missing or failing, one empty), two tasks, a queue of one, over the store, with signals, failing writes, kills, a late writer | 535k |
| `pmxt_load` | is each hour taken from the first source that has it, and what do the records show? | three hours, two loads, two threads with one source of each kind, or one thread with three; missing and damaged files, failing downloads, kills; three feeds | 479k |
| `pmxt_race` (violation expected) | the same with the runners' own three sources and two threads | two hours, each in one of two archives, no faults | stops at the violation |
| `telonex_load` | is a day read in part, twice, or not at all; is a payload bought twice? | two days of one partition, each local file good, damaged or absent, two loads beside a writer that is killed and rerun; failing fetches, payloads and cache writes, kills | 1.38M |
| `strategies` | do orders overlap, do sums drift from the position, does a strategy fall silent? | nineteen strategies, five ticks, fills at two prices in at most two pieces (`Levels`), denied orders | 71k |
| `raw_download` | is a file under its final name ever broken, a temporary file stolen, a missing hour not told? | two processes, two hours, two archives that grow, all faults | 2.40M |
| `experiments` | is half a result taken, the wrong trial selected, a replay given another's result; does everything end? | three trials on one train and one holdout window; four portfolios of up to two replays; all child faults | 638k |
| `market_data` | is a trade or a bar of the window missing, a tick out of order, a winner on the wrong side, a game found twice, a book wrong? | six trades in pages of two, markets resolved meanwhile; four listings in two series; five bars in chunks; books of six rows on two days | 372k |

`pmxt_race`, which ends in a violation, is the finding in `PROJECT.json`: an hour is reported as found
nowhere although the archive that has it was never asked, because the threads share the attributes that name
the source.

Why the bounds are enough. The execution client's hazards relate one order, its answer, at most two
trades and the statuses of one trade: every pair of them meets in a run, and more orders share nothing
but the dedup caches (whose bound the theorem `FillOnce` has as its hypothesis). `exec_order` has no
faults because a lost answer or a timeout leaves the engine behind the venue by design; those are in
`exec_batch`. The store's hazards relate two batches, two partitions and two processes; three days and
four part numbers give each, and the part numbers bound only how often a run may restart. The downloader
needs one task more than its queue holds and one job more than its tasks. The PMXT races need two
threads; a third hour makes the consumer submit while threads work; two loads show what the first leaves
in the cache. A Telonex loader is confused by one part that changes between its glob, its scan and its
query, which one partition with a number used again shows, and by what an earlier load left. A report is
confused by one change between two of its requests. Strategies need a window of two, an entry, an exit
and one tick each before, between and after. The raw downloader's races are between two processes, its
fallbacks between two archives, and a repeated run is the second hour's. A page of two rows and six
trades gives pages that are full, that hold only rows of the other token, and that are shifted by a new
trade.

Runs without `CHECK_DEADLOCK FALSE` (the store, the downloader) never stop, since a process may always
be started again. The others really stop: a client without commands, a load, a report, an experiment or
a mirror that has ended.

## Fairness

- `PolymarketExec`: the loop runs its callbacks, the websocket delivers what was sent, a post and a
  cancel are answered (each HTTP call returns or raises), a waiting task times out
  (`asyncio.wait_for`). Nothing is assumed of the venue or the strategy.
- `TelonexDownload`: threads are scheduled; a download ends (its total timeout is three times the
  request timeout); the calls of the store return. Signals and kills are not fair.
- `PmxtPrefetch`: threads are scheduled; a download ends (`urlopen` has a timeout of 30 s per read; a server that
  trickles bytes for ever is excluded). Nothing is assumed of kills.
- `Strategies`: an order on its way arrives (the engine's latency is finite). Ticks are not fair.
- `Experiments`: parent and child go on running, a child that was killed or ended is reaped, and the
  engine's run ends. A backtest that never ends is excluded, since the parent waits without a timeout.
- `TelonexStore`, `TelonexLoad`, `RawDownload`, `PolymarketReports` and `MarketData` have no liveness
  property and no fairness.

## What is proved

| Theorem | Statement | Hypotheses |
|---|---|---|
| `PolymarketProofs!TypeCorrect` | `Spec => []TypeOK` | |
| `PolymarketProofs!FillOnce` | a fill reaches the engine at most once | the fills fit in the dedup cache (`FillsFit`) |
| `PolymarketProofs!LedgerKept` | the client implements `FillLedger` | `FillsFit` |
| `PolymarketProofs!NoneStranded` | `Spec => []NoWaiterStranded` | no ack wait runs out |
| `PolymarketProofs!PostsResolved` | `Spec => []PostedOrdersResolved` | |
| `PolymarketProofs!SettledAgrees` | `Spec => []SettledAgreement` | one order, submitted by itself, and no ack wait runs out (`OneOrder`) |
| `PolymarketProofs!ReportTypesCorrect`, `CountedOnce`, `KnownReportedOnce` | `[]ReportTypesOK`, `[]FillsCountedOnce`, `[]KnownOnceReported` | |
| `PolymarketProofs!PagesComplete` | `[]PositionsFetched` | |
| `TelonexStoreProofs!TypeCorrect`, `Backed`, `OnlyOpenUnreadable` | `[]TypeOK`, `[]ManifestBacked`, `[]UnreadableOnlyOpen`, also with `--overwrite` | |
| `TelonexStoreProofs!Refinement` | the store implements `DayLedger` | |
| `TelonexStoreProofs!PartsAgree` | `Spec => []PartsAgreeWithManifest` | no `--overwrite`, no batch after `close()`, a batch has a day once |
| `TelonexProofs!SummaryTrue`, `UsedAsAllowed`, `StopHolds` | `SummaryAgrees`, `StoreUsedAsAllowed`, `OneFetchAfterStop` | |
| `TelonexProofs!RunBacked`, `RunRefines` | `ManifestBacked` and `DayLedger` of the store inside a run | |
| `TelonexProofs!RunPartsAgree` | `PartsAgreeWithManifest` of it | no `--overwrite`, no join given up |
| `TelonexProofs!DaysPaidOnce`, `MissesExplained` | `[]PaidOnce`, `[]MissExplained` | |
| `TelonexProofs!DaysReadWhole` | `[]StoredDayWhole` | no `--overwrite`, a batch has a day once and in its partition's group |
| `PmxtProofs!TypeCorrect`, `Bounded` | `[]TypeOK`, `[]PrefetchBounded` | |
| `PmxtProofs!LeftToRight`, `NoHourLost` | `[]FirstSourceWins`, `[]MissConfirmed` | one thread, or at most one directory and one archive (`Undisturbed`) |
| `PmxtProofs!EngineBookFollows` | `[]MatchesOnceSnapshot` | |
| `PmxtProofs!RawTypeCorrect`, `TmpKept`, `FilesWhole`, `SummaryTells` | `[]RawTypeOK`, `[]OwnTmpKept`, `[]StoredWhole`, `[]ReportTells` | |
| `ExperimentsProofs!WholeAnswers`, `ParentSeesEnd` | `[]AnswersWhole`, `[]PipeEnds` | |
| `ExperimentsProofs!BestSelected`, `ResultsRight` | `[]BestIsBest`, `[]ResultsOwn` | |
| `StrategiesProofs!OneAtATime`, `SumsFollow` | `[]OrdersBounded`, `[]SumsFollowPosition` | |
| `MarketDataProofs!GamesFoundOnce` | `[]FoundOnce` | |
| `MarketDataProofs!TradesWhole`, `HistoryComplete` | `[]TradesComplete`, `[]HistoryWhole` | |
| `MarketDataProofs!TicksInOrder` | `[]TicksOrdered` | |
| `MarketDataProofs!SettlesRight` | `[]SettlementRight` | |
| `MarketDataProofs!BookFollows` | `[]BookRebuilt` | |

All of them hold for any values of the constants that the assumptions `ConstantsAssumption`,
`ReportsAssumption`, `StoreAssumption`, `DownloadAssumption`, `LoadAssumption`, `PmxtAssumption`, `RawAssumption`,
`SearchAssumption`, `ExperimentsAssumption`, `StrategyAssumption`, `DiscoveryAssumption`, `LoadsAssumption`,
`SpacedAssumption`, `BarsAssumption`, `ReplayAssumption`, `FeedAssumption`, `WindowAssumption` and
`TapesAssumption` allow. These say what types the constants have, of the trades of a market what the *Market
data* paragraph names, and of the hours of a PMXT window that they follow each other; TLC evaluates them in every run. The type invariants are proved for every instance and not checked again by a run.

*Execution client.* `TypeOK` is not inductive: the engine's callback takes the head of `evtq`, so that
it must be in `ready` only when `evtq` is not empty (`EngineOnce`). `FillOnce` adds `FillsRemembered`:
what was handed over is remembered in the dedup cache or by the order. A cache that evicts would break
it, hence `FillsFit`: a sequence without repetition over the fills is no longer than their number
(`DistinctLength`), so nothing is evicted. The ledger also needs that nothing in flight is about a trade
nobody announced (`Origins`). `NoneStranded` rests on `Wakeable`: every waiter is attached to the event
in the dictionary, one whose order is acknowledged waits for the answer at the head of the loop, and
whoever was woken resumes for an acknowledged order. It needs that no wait times out, since a timeout
pops the event of every other waiter of the same order: those wait in vain, until they time out
themselves. `PostsResolved` rests on `PostInv`: the orders of one post are in no other post or answer and
are posted the same way (`Posting`, `Answering`), what an answer does next agrees with what it told (`DoesAsTold`),
and what was told was done or will be (`Telling`): an accepted order is indexed, or in an answer that is not used
up, and no rejection of it is queued; of one turned down the engine has a rejection, or will get one, before any event
that outlives it (`WillReject`, `Doomed`). Queued events always have a callback that takes them (`Consumed`).

`SettledAgrees` is proved for one order and any trades, any cache limit, any settlements and repetitions, answers
that are lost or raise, and any number of fire-and-forget cancels. The difficulty is order: the venue
announces a fill before the cancellation that ends the order, but the messages become tasks, wait in a list,
are woken one by one through the loop's queue and reach the engine through another. `Ahead(t)` says that
a fill by `t` is on its way before every cancellation is, through those four places (`wire`, messages and tasks in
`ready`, `waiting`), and `Ordered` that this holds of each fill that is owed; `DeliverMoves`, `MessageMoves`,
`AwaitMoves` and `TaskMoves` carry it from one place to the next. `Placing` says how far the order is: before the answer
is worked through the engine gets its submission and nothing else, and the engine's consumer stands in the queue
behind whoever was woken and before the answer. So an engine told of a cancellation does not come to it before
the last fill, woken later, was handed over. `Counting` relates what the engine holds, is about to be
handed, and the dedup caches to the venue's matches; `Cancelling`, the venue's book to the cancellations on their way.
No fit of the caches is needed here, unlike in `FillOnce`: a fill handed over twice is refused by the engine, which
knows the trade. All parts are one invariant (`AgreeInv`).

*Reports.* `KnownOnce` follows an order known at the beginning through the requests: while it may be asked
for it was not reported (`todo`), what was reported of it bears its own id, and once the history begins an order
that was accepted, or that was reported, is among the ids no status is made up for. One that is only
indexed has none of this: a status may be made up for it, but then nothing else was reported of it. `CountedOnce` is about the data: `ParseTrades` is a
recursion over the trades, and the lemma `OneMoreTrade` says what one step adds; a least number of trades
for which `ParsedOnce` failed would contradict it. `PagesComplete` rests on `PagesInv`: a position that did not go up and lies
before the offset was read, with a quantity it had. The places of the listed positions are the numbers below
their count (`RanksRun` of `ListProofs`), so a page behind which a position lies is full (`FullPage`), and the loop goes on.

*Store.* `ManifestBacked` says nothing of the rows between the close of a part and the commit of its
days, of part numbers, or of what a sweep may delete. The invariant `Inv` adds: part numbers are bounded (so
`NextPart` is a new one), each open part exists, is unreadable, holds its pending days and is not in the
manifest (`WritersOK`), a part being committed is readable and holds what will be committed
(`CommittingOK`), and an operation sweeps last (`SweepsLast`), so that no open part can be swept. The
refinement maps `stored` to the days a reader finds, `absent` to `emptyDays`, and the ledger's groups to what
awaits recording: `parts` to the pending days of each open or committing part (`Gathered`), `empty` and
`missing` to the days of the transactions the batch has still to do (`StepDays`). In the ledger a group is
recorded whole or lost whole, so a commit that left out one of a part's days would be no step of it. The proof uses
`Inv` on both sides of a step: by `ManifestBacked`, `StoredDays` is the manifest's domain.

`PartsAgree` needs to know where each day is. `AgreeInv` says that a day is to be written, to be
recorded, or waits in one part, once, and not in the manifest (`PlacedOnce`), that an uncommitted part
holds what waits in it (`RowsAwait`), and that a named part holds the days it is named for, once each
(`NamedWhole`); `ClosedDone`, that a closed store has no part but named ones. The hypotheses are needed:
`--overwrite` leaves the old copy of a day beside the new one by design, and a batch after `close()` leaves
an open part. That a batch of distinct results has each day once, in the group of its partition, is
the lemma `ResultsOnce` about `BatchOf`; it uses that `Picked` keeps the order and no place twice.

*Downloader.* `StopInv` says that the event loop is inside one task at a time, and that after a first request
that came too late it is inside none: every later check sees the stop, whichever thread asked for it. That
is `StopHolds`, one late download at most. `RunInv` follows every job through the three threads: a launched day is at one place of
tasks, hand-over, queue and pending list (`OnePlace`); it is counted when it leaves that way and not
before (`Tally`); where the threads are tells what they hold (`Threads`); what the store was given is
on no other way (`Tracked`); without a signal, a failed ingest or a join given up nothing leaves the way
uncounted (`NoLoss`), and what is counted is in the manifest or in a part that will be committed
(`Kept`). Preparing the proof showed that `SummaryAgrees` had been too strong: with `--overwrite` a day
whose download fails may be in the manifest from an earlier run, and is told so now. `UsesStore` says that a
step of the downloader is a step of the store's own specification or leaves it alone. So what is proved of
the store carries over: `RunBacked`, `RunRefines` and `RunPartsAgree` are not proved a second time.

*Telonex loader.* `PaidInv` relates the payload in memory to the cache and to the numbers of downloads and
excuses; `MissInv` says what each source, once asked, had answered. `DaysReadWhole` is about a reader that holds
names of parts while the writer changes them. On the store's side it uses `AgreeInv` and `DiskOnce`: a
part has each of its days once and of its own partition only, no two parts share one, readable or not,
and no day on disk is still to be written. A batch after `close()` is allowed here. On the reader's side `SeenInv`: a day that was stored when its
month was scanned is still in a part of that name, and a month with a part that could not be read is not
queried.

*PMXT.* `Inv` adds to the types where the threads are and that an archive URL never disappears under a
thread (`UrlsKept`), which `Fetch` needs to build its URL. `LookInv` is for configurations in which no
thread finds another one's entry in the shared attributes: a thread that tries a source finds its own entry
there, and what it writes back is what the loader was made with (`Steady`); what each thread has
asked covers the attempts it is done with (`Looked`), and the consumer takes what the threads left
(`Taken`). That there is only one thread at work is told by the window of submitted hours (`Queued`). The
hypothesis is needed: `pmxt_race` is a counterexample without it.

*Raw downloader.* `Inv` adds that the temporary file of a process that downloads is there and as long as
what was read (`TmpHolds`), that only a cut connection leaves one that is not whole before the rename
(`ReadWhole`), and that each hour a process is done with has a report which the files bear out
(`ReportsSoFar`, `Validated`). Files are only ever replaced by files, so that a report stays true.

*Experiments.* `WorkerInv` lists what the steps of parent and child leave in the file, the pipe and the
exit code: a message "ok", in the pipe or received, comes after the whole result was written
(`MadeWhole`), a child that has not sent has told nothing (`SilentBefore`), and of a pipe that the
parent waits on the child or nobody holds the writing end (`WritersOK`). `ParentSeesEnd` states the last for the parent,
and is the reason why `Receive` cannot block for ever.

`BestSelected` is about the search over those children. `SearchInv` says that the row at each place tells of
the trial of that number and of all its train windows (`RowsTell`), that no trial left out of the holdout
windows had a better train score than one that saw them or will (`ChosenBest`), and that the board is
the rows in the order of the final key (`Written`). Two things had to be shown for that. Sorting sorts: of a
finite set under a total order the ranks are the numbers below its size, each of one member (`RanksRun`),
and the places of a list are ordered totally by any weak order of its members and by themselves
(`StableOrders`). And scores are numbers: whatever adapters, engine and children do, `Evaluate` gives an
integer for each outcome of a window (`WindowScore`, through the coverage, the drawdown and the sums of its
results), which `ScoredInv` carries from the child to the answer.

`ResultsRight` is about the replays. `OwnInv` says that the results so far are of replays before the one whose
turn is, at increasing places, and that what a child has made is of the replay whose turn is. The steps
only append (`OwnAdded`) and settle (`OwnSettled`, which changes the PnL alone); "whole" is told when there
are as many results as replays, which then are one each. That a backtest gives results of that form
(`BacktestOwn`) composes what `Picked` keeps of the loads and the order it keeps them in (`PickedInOrder`)
with the artifacts found under the market's key (`ArtifactsOwn`: the replay's own, when no other has the
market) and with the coverage of a run that reached the end of its records (`WentThrough`).

*Strategies.* `OrdersBounded` is not inductive, since it says nothing of what a strategy remembers. The
invariant has three parts. `OrdersInv`: `_pending` covers the order on its way or in the book, and every
handler of a tick is quiet while it is set (`Decides`, a lemma for each of the nineteen strategies).
`EntriesInv`: what a strategy remembers of its entries is not less than the entry orders that were filled,
and an entry under way was sent while less than the allowed number was remembered. `SumsInv`: the sums
are of the position, and only what is held is sold. An order is filled in any number of pieces
(`Levels`), which are gone through one by one (`FilledStages`, `SumsRun`). The proof made
`SumsFollowPosition` sharper: a sale's share of the cost is rounded down, so what remains is never less
than the lowest price times what is left.

*Market data.* The trades are the constant `Tape`, in the order in which they happen; the window, the pages
and the ceiling are any. Three things are assumed of them: times do not fall along the tape; an offset never
exceeds the nanoseconds of a second (the venue's offset has a ceiling, and it is assumed far below that, `LoadsAssumption`); and the
trades that share a time of Kalshi, which are microseconds apart, are fewer than the nanoseconds to the next
time and to the next second (`SpacedAssumption`). Without the last two the loaders, which tell trades of
one time apart by nanoseconds, give two of them one time.
`TradesInv` says at every request what has been seen of a list that grows at its head: on Polymarket every
trade of the window within the offset of the list as it is now, which stays true when a trade happens, since
what is at a place moves back (`PlacesSeen`); on Kalshi what is not older than the cursor, each trade once
(`CursorSeen`). A page adds what is between (`PageSeen`, `CursorPageSeen`), and the last one reaches the first
trade or one before the window. Then the rows are sorted and numbered: by `TokenRows` and `WindowRows` none is
lost, by `TokenTicks` and `KalshiTicks` their times and identifiers differ. The bars (`BarsInv`) are the traded
candlesticks up to the end of the last chunk, the games (`GamesInv`) are different after every page. Sorting is
one argument for all (`ListProofs`): a stable order by keys has ranks that are a permutation (`RanksRun`,
`SortedBySorts`), which `CHOOSE` in `StableSort` picks.

*Settlement.* `SettlesRight` is proved for any trades, any moments at which the market is proposed and resolved,
any prices Gamma shows before (`Quotes`), either winner, either order of the outcomes in the CLOB's answer, any fee rates and fill models (their numbers
are integers, `ReplayAssumption`) and any number of orders. Two invariants meet in it. `ToldInv` says what was told: a
market's phase only moves on, so what Gamma knew may become what the CLOB knew and not the other way
(`AskedInv`); the details after the CLOB's answer name the winner of the outcome, not of the place, if either
service knew it (`DetailsTell`), and the instrument settles at that (`InstrumentTells`), unless the market was
known as split or Gamma showed even prices (`KnewEven`): then there is no outcome, also when the CLOB named the winner
(below under differences). The lemmas `GammaTells`,
`ClobTells`, `BothTell`, `InstrumentTold` and `TickerTold` go through the payloads of the services, phase by phase.
`AccountInv` says what was done: at any price, the fills so far settle at the account's cash and that price of
its position, since `compute_binary_settlement_pnl` goes through the fills as the engine did (`OneMoreFill`).
`Settle` puts the price told into the account. `RealizedPnl` and `BinarySettlementPnl` are recursive functions
for this proof's sake; that they have values is `ListProofs!FoldStages`.

*The rebuilt book.* `BookFollows` is proved for any window, any length of a day and any frames of any rows (prices,
sizes and times are integers, `FeedAssumption`): rows in any order, of other days as well, several of one time,
without levels, with one price twice. A record has a source: a day, a row of the day's sorted rows, and
whether it is the row's deltas or its quote. `RecordsListed` says that `load_order_book_and_quotes` gives exactly
the sources, in the order of time, deltas before quotes, and row: by `DayListed` a day's events are those
of its rows, `EventsSorted` (twice) sorts them, and by `WindowsApart` a day's are before the next day's.
`ListProofs` has what that needs of lists (`Lists`, `ListsJoin`, `ListsSorted`). The invariant is `FeedInv`:
the engine's book is that of the row of the last deltas it applied. A row without deltas has the book of
the row before (`RowsSteady`), so between two deltas of a day nothing is missed (`BookTill`); what differences
to a book make of it is the other book (`ChangesApply`), for books without empty levels (`LevelsLeft`, `SideMade`).
Before a later time the last deltas are those of the last row of the time or before (`BookThen`).
`BookEvents` and `LoadRecords` are recursive functions for this proof's sake. The proof found `Applied` wrongly
written: as a `CASE` with two guards that may hold at once, which for TLC means the first and in TLA+ either.

*The replayed PMXT records.* `EngineBookFollows` is proved for any number of hours, any window and any tapes whose
hours follow each other, and whichever of the hours were delivered. What the hours make is an `Emission`: the
payloads of the window in the order of their times, each as deltas and the quote of the book they lead to, made
from the book of the quote before. `Replayed` keeps this through a row (`ProcessReplays`), an hour
(`HourReplays`) and the load (`LoadReplays`): the loader's own book is that of the last quote, or else all that is
to come is behind the window. The final sort gives the i-th deltas and the i-th quote a place each
(`RecordPlaces`): deltas stay in their order, and before a quote there are those of its own time and of earlier
ones. So the engine's book after the i-th deltas is the i-th quote's once a snapshot was among them
(`EngineKeeps`), and the last quote of its time has no other deltas between (`EngineMatches`). The recursions of
`PmxtLoad` are functions and its sorts those of `Lists` for this proof's sake. It found `EventBefore` wrongly
written: it put snapshots before changes of one time also in the final sort, which `_event_sort_key` does not.

Recursive functions are within reach where the recursion is over a length: `Picked`, `ParseTrades`,
`BinarySettlementPnl` and `Total` are proved about with the least place at which a claim fails. What remains only model-checked:

- The liveness properties `RunEnds`, `SuppressedCancelCloses`, `LoadEnds`, `PendingClears` and
  `ExperimentEnds`: they need fairness and ENABLED.
- `SettledAgreement` with more than one order is not claimed, since it is false: the queue to the engine may
  be held up by the other order's event between the start of a CANCELLATION and a fill that is woken later,
  and a list whose second order is rejected lets a CANCELLATION overtake a trade (L1803 below). `SettledAgrees` is
  about one order, and about waits that do not run out.

## Differences between docs and code

`pmxt_race` (below under PMXT) is a finding with a run. The others were met while modelling; the model follows the code.

Execution client (`adapters/polymarket/execution.py`)
- L1803: a fill of a closed order is skipped as "already closed (only status update)". With two orders
  filled by one trade the CANCELLATION of one, which waits for its ack too, may be applied before the
  fill that was announced earlier; that fill is lost. The properties about agreement with the venue are
  checked where messages of one order are applied in their order.
- L416: the loop over open orders rebinds `command`, so the trades of the history are asked for the
  instrument of the last order only.
- L390: an order listed before its id is in the cache is reported under a client order id made up for it; L427: one
  whose id is indexed but that was not accepted yet, and is filled at once, gets one made up by the history.
- L306: "Fetch all current positions"; they are paged by size with offsets (L321), and one that is sold between two
  pages lets another go up across the offset, which is then reported flat. `PositionsFetched` says what is kept:
  those that do not go up in the list meanwhile, also when others come before them.
- L1485: `_post_signed_order` catches nothing, so after a malformed answer to a single post the order stays submitted;
  a batch (L1308) rejects all its orders then, those the venue accepted too.
- L281, L1675, L1710: two account refreshes may overlap and the older answer be applied last; a fill
  announced again after 10,000 others is processed again; a trade that ends FAILED on chain is only
  logged after its fill was applied. A trade whose MATCHED and MINED messages both precede the order's
  answer schedules no account refresh (L1765 returns before L1833).

Telonex downloader and store (`scripts/_telonex_data_download.py`)
- L699: "Raising here means nothing was promoted to the manifest for this batch"; a partition of the same
  batch may have been committed before (L690).
- L1646: "Do not count fetched bytes as durable results until the writer has committed the manifest path";
  a batch is counted when its rows are in an open part (L1678), and lost when the commit of its part
  fails with a later one.
- L2053: "Ctrl-C once to stop gracefully (manifest + parquets stay consistent)"; a writer that outlives
  its join (L1870) leaves an unreadable part in the closed store.
- L816: the days of an orphan part are said not to be in the manifest. With `--overwrite` they may be:
  the old entry stays until the new part is committed.
- `src/docs/setup.md:196` says that in-flight downloads finish after an interrupt; the code cancels them.
- `src/docs/setup.md:199` says that after a batch that fails "the writer logs it and keeps running"; the
  code stops the run (`IngestRaises`, `WriterStopsRun`).

PMXT
- `backtesting/data_sources/pmxt.py:256`, `src/docs/vendor-fetch-sources.md:10`: the sources are asked left to right and an
  hour none of them has is a confirmed miss; with several threads one may never be asked (run `pmxt_race`).
- `src/docs/execution-modeling.md:98`: "full L2 order-book replay"; the book the engine rebuilds lacks the
  levels of a snapshot that came before the window, while the quotes have them.
- `src/docs/data-vendors.md:53` allows several archives in `PMXT_REMOTE_BASE_URL`; only the first is
  asked (`backtesting/data_sources/pmxt.py:213`).
- `src/docs/setup.md:119`: "keeps the larger archive object when both exist"; when the larger one's
  download fails, the smaller one replaces the local file. L122: `archive_missing_hours` are "missing from
  all configured sources"; the last source's error alone decides. `missing_local_hours` leaves out the
  hours that were 404.

Strategies
- `strategies/btc_ofi_15m.py:171`: "in position, just monitor"; the second part of an entry's fill is
  taken for the exit (L252), so that the strategy may enter again while it holds a position. Losses at
  settlement do not count towards its halt.
- `max_positions` (`nba_q4_totals.py:51`: "max concurrent positions") is compared with a count of fills,
  which the pieces of one order raise more than once.
- `strategies/__init__.py:155` and `nba_fair_value.py:28` import `strategies.ncaab_fair_value`, which is
  not in the repository.

Backtests
- `adapters/kalshi/fee_model.py:130` says that the instrument's fee "covers fee waivers"; a fee of 0 is
  taken for "not known" and the model's rate is charged.
- `adapters/prediction_market/backtest_utils.py:251`: a market that is still open has `winner = false` on
  each token and is settled at 0, while the warning of `backtesting/_backtest_runtime.py:267` expects no
  outcome. Kalshi's numeric settlement values are used without regard to the outcome's name.
- Two tokens of one market share the key of their artifacts, so the settlement of the first uses the
  fills of the second (`prediction_market/artifacts.py:110`); `ResultsOwn` excepts such portfolios.
- A failed worker ends an independent run with the results that were finished before dropped; the result
  file of a child that could not be started is never removed (`leaked`).
- Metrics computed outside the `try` end the search (one way, a pandas error over equal timestamps, is not modelled); a median hides failed windows that are a minority;
  the coverage of a joint run is that of the last market's end; the CSV is written before the JSON.

Market data
- `adapters/polymarket/gamma_markets.py:219`: "Infer resolved token winners from Gamma outcome prices when available";
  prices of 0.5 count as a split before it is asked whether the market is closed (L233), and the outcome that
  the CLOB names afterwards is not used. `KnewEven` of `MarketReplay` is this case,
  and `SettlementRight` says that such a replay has no outcome.
- `from_event_slug` infers no winners, and one market without enough tokens fails the event.
- Offsets of Gamma skip or repeat a market when the list changes between two pages; a games search
  removes the repetitions, the others may count a market twice towards `max_results`.
- A bar at a chunk's boundary is loaded twice.

## Plan

1. Done: the execution client and its reports, the day store, the downloader and the loader over the
   store, the PMXT loader, the raw downloader, strategies, experiments, and the data layer from search to
   settlement.
2. Proved: both refinements; the safety invariants of the execution client (agreement with the venue for one order), of its reports, of
   the store, the downloader, the Telonex loader, the raw downloader, the child processes, the parameter
   search, the experiments and the strategies, of the search for games and of the loads of trades and bars; the PMXT loader's for one thread or one source of each kind.
3. Next: what holds of several orders when a trade fills one of them only.
4. Then: the tables path of the PMXT loader; the catalog of jobs of the downloader; Kalshi's `load_all`.

## What is not modelled

Reports, plots, the charts' price points and their downsampling, the inputs of the Brier score, menus,
notebooks, scripts and the timing harness are formatting and I/O: a large part of the lines outside tests are theirs. The custom data types are immutable records. Of the execution client,
the checks that deny a submission, order modification (which the client rejects) and balances are left
out; of the downloader, the catalog of jobs and the progress display; of the data sources, the parsing of
configuration and the twin path of the PMXT loader by tables; of the raw downloader, the listing of the
archives' hours; of the runners, the wiring of the `nautilus_trader` engine, which is external. The Kalshi
live data client only warns that it cannot subscribe. `PROJECT.json` lists every component with its
sources and status.
