--------------------------- MODULE ReplayAdapters ---------------------------
(***************************************************************************)
(* data_sources/replay_adapters.py and what a backtest does around the     *)
(* engine: a replay is loaded or skipped, bound to strategies, run, and    *)
(* described by a result.  Times are hours, prices cents, and a record is  *)
(* [kind, ts, price] with the middle of a quote for its price.             *)
(***************************************************************************)
EXTENDS Integers, SequencesExt, FiniteSetsExt, Lists

None == -1
OrElse(value, default) == IF value # None THEN value ELSE default

(* The four adapters: how the market is named, the unit and the default of the lookback, *)
(* the records that count, the fill model of the venue, and whose outcome is told.       *)
KalshiTradeTickReplayAdapter ==
  [id |-> <<"kalshi", "trade_tick", "native">>, market |-> "ticker", hours |-> 24,
   counts |-> "trade", fills |-> "taker", outcome |-> "replay"]
PolymarketTradeTickReplayAdapter ==
  [id |-> <<"polymarket", "trade_tick", "native">>, market |-> "slug", hours |-> 24,
   counts |-> "trade", fills |-> "taker", outcome |-> "instrument"]
PolymarketPMXTQuoteReplayAdapter ==
  [id |-> <<"polymarket", "quote_tick", "pmxt">>, market |-> "slug", hours |-> 1,
   counts |-> "quote", fills |-> "passive_book", outcome |-> "instrument"]
PolymarketTelonexQuoteReplayAdapter ==
  [id |-> <<"polymarket", "quote_tick", "telonex">>, market |-> "slug", hours |-> 1,
   counts |-> "quote", fills |-> "passive_book", outcome |-> "instrument"]

BUILTIN_REPLAY_ADAPTERS ==
  {KalshiTradeTickReplayAdapter, PolymarketTradeTickReplayAdapter,
   PolymarketPMXTQuoteReplayAdapter, PolymarketTelonexQuoteReplayAdapter}

\* resolve_market_data_support: the adapter of a selection, if there is one.
Resolve(key) == {a \in BUILTIN_REPLAY_ADAPTERS : a.id = key}
-----------------------------------------------------------------------------
(* load_replay                                                             *)

Raised == [status |-> "raised"]
Skipped == [status |-> "skipped"]

\* The window of a replay: what it does not say comes from the request, the end from the
\* clock.  (The request's default start is not looked at.)
Window(adapter, replay, request, now) ==
  LET end == OrElse(OrElse(replay.end, request.end), now)
      lookback == OrElse(replay.lookback, request.lookback)
  IN  [start |-> IF replay.start # None THEN replay.start
                 ELSE IF lookback = None THEN None ELSE end - lookback * adapter.hours,
       end |-> end]

\* _validate_replay_window
Enough(prices, request) ==
  /\ Len(prices) >= request.min_count
  /\ prices # <<>> => Max(Range(prices)) - Min(Range(prices)) >= request.min_range

\* The first and the last moment of the records.
Span(records) ==
  LET times == {r.ts : r \in Range(records)}
  IN  IF times = {} THEN [start |-> None, end |-> None] ELSE [start |-> Min(times), end |-> Max(times)]

\* load_replay: a window that is none is an error; a market that cannot be loaded, that has
\* no records or too few or too quiet ones is left out.
LoadReplay(adapter, replay, request, now, answer) ==
  LET window == Window(adapter, replay, request, now)
      counted == Keep(answer.records, LAMBDA r : r.kind = adapter.counts)
      prices == [i \in DOMAIN counted |-> counted[i].price]
  IN  IF window.start = None \/ window.start >= window.end THEN Raised
      ELSE IF answer.failed \/ answer.records = <<>> \/ ~Enough(prices, request) THEN Skipped
      ELSE [status |-> "loaded", market |-> replay.market, instrument |-> answer.instrument,
            records |-> answer.records, count |-> Len(prices), requested |-> window]
-----------------------------------------------------------------------------
(* What became of the window: _backtest_runtime.py                         *)

\* _coverage_ratio_for_window, as [num, den]; the denominator 0 stands for None.
Coverage(window, through) ==
  IF window.start = None \/ window.end = None THEN [num |-> 0, den |-> 0]
  ELSE IF window.end <= window.start THEN [num |-> IF through # None THEN 1 ELSE 0, den |-> 1]
  ELSE IF through = None THEN [num |-> 0, den |-> 0]
  ELSE [num |-> Min({Max({through, window.start}), window.end}) - window.start,
        den |-> window.end - window.start]

\* build_backtest_run_state
RunState(sim, end, forced) ==
  LET loaded == Span(sim.records)
      planned == [start |-> OrElse(sim.requested.start, loaded.start),
                  end |-> OrElse(sim.requested.end, loaded.end)]
      through == IF end = None /\ forced THEN planned.start ELSE end
      short == loaded.end # None /\ through # None /\ through < loaded.end
  IN  [terminated |-> forced \/ short,
       reason |-> IF forced THEN "account_error" ELSE IF short THEN "incomplete_window" ELSE "none",
       through |-> through,
       coverage |-> Coverage(loaded, through), requested |-> Coverage(planned, through)]
-----------------------------------------------------------------------------
(* The strategies of a backtest                                            *)

\* _build_importable_strategy_configs: a configuration that names a list of instruments of
\* its own, or all of them, is bound once, to the first replay; any other one to each.
Strategies(configs, loaded) ==
  LET all == [i \in DOMAIN loaded |-> loaded[i].instrument]
      Bind(config, sim) ==
        [instrument |-> sim.instrument,
         instruments |-> CASE config = "all" -> Range(all) [] config = "primary" -> {sim.instrument}]
      Targets(config) == IF config = "all" THEN SubSeq(loaded, 1, 1) ELSE loaded
      Of(config) == [i \in DOMAIN Targets(config) |-> Bind(config, Targets(config)[i])]
  IN  FlattenSeq([i \in DOMAIN configs |-> Of(configs[i])])

\* What the strategies may trade.
Traded(configs, loaded) == UNION {s.instruments : s \in Range(Strategies(configs, loaded))}
-----------------------------------------------------------------------------
(* The results                                                             *)

\* build_market_artifacts: a dict by the market: of two replays of one market the last one's
\* artifacts stay.  They hold the fills of the instrument.
MarketArtifacts(loaded) ==
  DictOf([i \in DOMAIN loaded |-> loaded[i].market], [i \in DOMAIN loaded |-> loaded[i].instrument])

\* Mutant of BuildResults: the artifacts of the replay at that place of all.
BuildResultsByPlace(loaded, run, series) ==
  [i \in DOMAIN loaded |->
     [market |-> loaded[i].market, instrument |-> loaded[i].instrument,
      fills |-> run.fills[loaded[i].instrument],
      events |-> IF series THEN loaded[Len(loaded) + 1 - i].instrument ELSE loaded[i].instrument,
      joint |-> series /\ Len(loaded) > 1 /\ i = 1, pnl |-> "exit", exit |-> FALSE,
      state |-> RunState(loaded[i], run.end, run.forced)]]

\* build_result of every replay: its own fills and positions, then the artifacts of its
\* market over them; the joint portfolio goes with the first one.
BuildResults(loaded, run, series) ==
  [i \in DOMAIN loaded |->
     [market |-> loaded[i].market, instrument |-> loaded[i].instrument,
      fills |-> run.fills[loaded[i].instrument],
      events |-> IF series THEN MarketArtifacts(loaded)[loaded[i].market] ELSE loaded[i].instrument,
      joint |-> series /\ Len(loaded) > 1 /\ i = 1, pnl |-> "exit", exit |-> FALSE,
      state |-> RunState(loaded[i], run.end, run.forced)]]

\* BinarySettlementPnlPolicy.apply: the PnL of the settlement, where the outcome is known,
\* and the one at the market's exit under another name.
Settled(results, resolved) ==
  [i \in DOMAIN results |->
     IF results[i].market \in resolved THEN [results[i] EXCEPT !.pnl = "settled", !.exit = TRUE]
     ELSE results[i]]

\* run_async: nothing loaded, nothing run; otherwise the engine runs the strategies over all
\* the records, and may stop early.
Backtest(sims, configs, request, now, series, answers, run) ==
  LET loads == [i \in DOMAIN sims |-> LoadReplay(sims[i].adapter, sims[i], request, now, answers[i])]
      loaded == Keep(loads, LAMBDA l : l.status = "loaded")
      played == [run EXCEPT !.fills = [x \in DOMAIN @ |->
                   IF x \in Traded(configs, loaded) THEN @[x] ELSE 0]]
  IN  IF \E i \in DOMAIN loads : loads[i] = Raised THEN [status |-> "error", results |-> <<>>]
      ELSE IF loaded = <<>> THEN [status |-> "ok", results |-> <<>>]
      ELSE IF run.fails THEN [status |-> "error", results |-> <<>>]
      ELSE [status |-> "ok", results |-> BuildResults(loaded, played, series)]
=============================================================================
