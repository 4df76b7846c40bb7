---------------------------- MODULE Experiments -----------------------------
(***************************************************************************)
(* _experiments.py: an experiment is a parameter search, or a backtest of  *)
(* replays, all in one portfolio or each on its own in a child process     *)
(* (_independent_multi_replay_runner.py).  The search's windows and the    *)
(* independent replays use the same protocol, ReplayWorker; what the child *)
(* or the process itself runs is ReplayAdapters!Backtest.                  *)
(***************************************************************************)
EXTENDS ParameterSearch, ReplayAdapters

CONSTANTS
  Kinds,        (* of "search", "independent", "joint"                            *)
  Portfolios,   (* the replays an experiment may name: sequences of replays       *)
  BaseReplays,  (* those of the parameter search                                  *)
  Periods,      (* the search's windows: [train, holdout] -> [start, end]s        *)
  StrategyConfigs, Request, Now,
  History,      (* instrument -> all its records                                  *)
  EngineRuns,   (* how the engine may run: [fills, end, forced], the end None if   *)
                (* it never began                                                 *)
  Accounts      (* what it may make of the money: [pnl, equity]                   *)

\* Replays and windows come in lists, a market has a list of records; times are hours.
ASSUME ExperimentsAssumption ==
  /\ BaseReplays \in Seq(Range(BaseReplays)) /\ Markets = Len(BaseReplays)
  /\ \A replay \in Range(BaseReplays) : {"start", "end", "lookback"} \subseteq DOMAIN replay
  /\ Periods \in [train : Seq([start : Nat, end : Nat]), holdout : Seq([start : Nat, end : Nat])]
  /\ Len(Periods.train) = TrainWindows /\ Len(Periods.holdout) = HoldoutWindows
  /\ EngineRuns \subseteq [fills : Nat, end : Nat \union {None}, forced : BOOLEAN]
  /\ Accounts \subseteq [pnl : Int, equity : Seq(Int \X Int)]
  /\ \A p \in Portfolios :
       /\ p \in Seq(Range(p))
       /\ \A r \in Range(p) : History[<<r.market, r.token>>] \in Seq([kind : STRING, ts : Nat, price : Nat])

VARIABLES
  kind, sims,   (* what the experiment is, and its replays                        *)
  turn,         (* the replay whose turn it is                                    *)
  results,      (* of the replays so far                                          *)
  outcome       (* "running", or how the experiment ended: "empty", "partial",    *)
                (* "whole", "raised"                                              *)

experimentVars == <<kind, sims, turn, results, outcome>>
vars == <<searchVars, workerVars, experimentVars>>
-----------------------------------------------------------------------------
(* What a backtest may give                                                *)

\* A source has a market's records in the window, or fails.
Answers(replay) ==
  LET instrument == <<replay.market, replay.token>>
      window == Window(replay.adapter, replay, Request, Now)
      records == Keep(History[instrument], LAMBDA r : r.ts >= window.start /\ r.ts <= window.end)
  IN  {[failed |-> f, records |-> IF f THEN <<>> ELSE records, instrument |-> instrument] : f \in BOOLEAN}

\* What the engine may do with the instruments of the replays: it may end well, or fail.
Instruments(replays) == {<<r.market, r.token>> : r \in Range(replays)}
EngineRun(engine, instruments, fails) ==
  [fills |-> [i \in instruments |-> engine.fills], end |-> engine.end,
   forced |-> engine.forced, fails |-> fails]
Runs(replays) == {EngineRun(engine, Instruments(replays), f) : engine \in EngineRuns, f \in BOOLEAN}

\* The outcomes of a backtest of the replays, its series asked for or not.
Outcomes(replays) ==
  {Backtest(replays, StrategyConfigs, Request, Now, series, answers, run) :
     series \in BOOLEAN, run \in Runs(replays),
     answers \in {a \in [DOMAIN replays -> UNION {Answers(r) : r \in Range(replays)}] :
                    \A i \in DOMAIN replays : a[i] \in Answers(replays[i])}}

OutcomesTogether == UNION {{<<replays, b>> : b \in Outcomes(replays)} : replays \in Portfolios}
OutcomesAlone ==
  UNION {{<<replay, b>> : b \in Outcomes(<<replay>>)} : replay \in UNION {Range(p) : p \in Portfolios}}
-----------------------------------------------------------------------------
(* The search's backtests                                                  *)

\* _windowed_replay: the window of the search takes the place of the replay's.
Windowed(replay, period) ==
  [replay EXCEPT !.start = period.start, !.end = period.end, !.lookback = None]

\* What the search reads of a result: the ratio of a window that is not told is 0.
Metrics(result, account) ==
  [pnl |-> account.pnl, equity |-> account.equity, fills |-> result.fills,
   coverage |-> IF result.state.requested.den = 0 THEN 0
                ELSE (100 * result.state.requested.num) \div result.state.requested.den,
   terminated |-> result.state.terminated]

\* A backtest as the search reads it.
Measured(b, accounts) ==
  [status |-> b.status, results |-> [i \in DOMAIN b.results |-> Metrics(b.results[i], accounts[i])]]

WindowOutcomes(period) ==
  {Measured(b, accounts) :
     b \in Outcomes([i \in DOMAIN BaseReplays |-> Windowed(BaseReplays[i], period)]),
     accounts \in [DOMAIN BaseReplays -> Accounts]}

\* The child of the search: the whole backtest, its strategy bound to the trial's parameters.
RunWindow ==
  /\ kind = "search" /\ child = "running"
  /\ \E b \in WindowOutcomes(Periods[job[1]][job[3]]) : ChildRuns(b)
  /\ UNCHANGED <<searchVars, experimentVars>>

Searches == kind = "search" /\ SearchSteps /\ UNCHANGED experimentVars
-----------------------------------------------------------------------------
(* Replays                                                                 *)

ReplaysGo == kind # "search" /\ outcome = "running" /\ UNCHANGED searchVars

\* One replay on its own runs in the process, whatever the mode; so do all of a portfolio.
InProcess == kind = "joint" \/ Len(sims) = 1

RunTogether ==
  /\ ReplaysGo /\ InProcess /\ turn = 1
  /\ \E b \in OutcomesTogether :
       /\ b[1] = sims
       /\ IF b[2].status = "error" THEN outcome' = "raised" /\ UNCHANGED <<turn, results>>
          ELSE results' = b[2].results /\ turn' = Len(sims) + 1 /\ UNCHANGED outcome
  /\ UNCHANGED <<kind, sims, workerVars>>

BeginReplay ==
  /\ ReplaysGo /\ ~InProcess /\ turn <= Len(sims)
  /\ Spawn(<<turn>>) /\ UNCHANGED experimentVars

\* The child has the one replay, and gives its result or None.
RunReplay ==
  /\ ReplaysGo /\ child = "running"
  /\ \E b \in OutcomesAlone : b[1] = sims[turn] /\ ChildRuns(b[2])
  /\ UNCHANGED experimentVars

\* A replay that gave nothing is passed over.  One that failed ends the experiment, and the
\* results of those before it are lost.
TakeReplay ==
  /\ ReplaysGo /\ pc = "answered" /\ Taken
  /\ IF answer.status = "error" THEN outcome' = "raised" /\ UNCHANGED <<turn, results>>
     ELSE results' = results \o answer.results /\ turn' = turn + 1 /\ UNCHANGED outcome
  /\ UNCHANGED <<kind, sims>>

\* _finalize_replay_results: what is told, and the PnL of the settlement where it is known.
Finalize ==
  /\ ReplaysGo /\ turn > Len(sims)
  /\ IF results = <<>> THEN outcome' = "empty" /\ UNCHANGED results
     ELSE /\ outcome' = IF Len(results) < Len(sims) THEN "partial" ELSE "whole"
          /\ \E resolved \in SUBSET {r.market : r \in Range(results)} : results' = Settled(results, resolved)
  /\ UNCHANGED <<kind, sims, turn, workerVars>>
-----------------------------------------------------------------------------
Init ==
  /\ SearchInit /\ WorkerInit
  /\ kind \in Kinds /\ sims \in (IF kind = "search" THEN {<<>>} ELSE Portfolios)
  /\ turn = 1 /\ results = <<>> /\ outcome = "running"

\* The steps of the process of the experiment, and of its children.
Parent == ParentSteps /\ UNCHANGED <<searchVars, experimentVars>>
Child == ChildSteps /\ UNCHANGED <<searchVars, experimentVars>>
Dies == ChildDies /\ UNCHANGED <<searchVars, experimentVars>>

Ended == outcome # "running" \/ phase = "done"

Next ==
  \/ Searches \/ RunWindow \/ RunTogether \/ BeginReplay \/ RunReplay \/ TakeReplay \/ Finalize
  \/ Parent \/ Child \/ Dies

\* A backtest ends: the steps RunWindow, RunReplay and RunTogether, whatever their outcome.
ChildEnds == child = "running" /\ child' \in {"made", "raised"}
EngineEndsHere ==
  /\ kind # "search" /\ InProcess /\ outcome = "running" /\ turn = 1
  /\ \/ turn' = Len(sims) + 1 /\ outcome' = outcome
     \/ turn' = turn /\ outcome' = "raised"

\* The process and its child go on running, and every backtest ends.
Fairness ==
  /\ WF_vars(Searches \/ BeginReplay \/ TakeReplay \/ Finalize \/ Parent)
  /\ WF_vars(Child)
  /\ WF_child(ChildEnds) /\ WF_<<turn, outcome>>(EngineEndsHere)

Spec == Init /\ [][Next]_vars /\ Fairness
-----------------------------------------------------------------------------
\* _independent_multi_replay_runner.py:72, artifacts.py:54: the results are those of the replays
\* in their order, at most one each and, when nothing is told missing, one each.  What a result
\* shows and what its PnL is settled from are the fills of its own instrument, unless another
\* replay names the same market.  A run that is not said to have ended early went through all
\* the records it had.
ResultsOwn ==
  LET Instrument(i) == <<sims[i].market, sims[i].token>>
      Shared(i) == \E j \in DOMAIN sims \ {i} : sims[j].market = sims[i].market
  IN  /\ \E place \in [DOMAIN results -> DOMAIN sims] :
           /\ \A i, j \in DOMAIN results : i < j => place[i] < place[j]
           /\ \A i \in DOMAIN results :
                /\ results[i].instrument = Instrument(place[i])
                /\ results[i].market = sims[place[i]].market
                /\ Shared(place[i]) \/ results[i].events = results[i].instrument
      /\ outcome = "whole" => Len(results) = Len(sims)
      /\ \A i \in DOMAIN results :
           LET state == results[i].state
           IN  ~state.terminated /\ state.through # None => state.coverage.num = state.coverage.den

\* Every experiment ends, whatever becomes of its children.
ExperimentEnds == <>Ended
=============================================================================
