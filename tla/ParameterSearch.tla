-------------------------- MODULE ParameterSearch ---------------------------
(***************************************************************************)
(* _optimizer.py: every trial is evaluated on the train windows, the best  *)
(* ones on the holdout windows too, and the rows are ranked, written and   *)
(* the first one is selected.  An evaluation is a backtest in a child      *)
(* process (ReplayWorker); one that fails has the invalid score.           *)
(*                                                                         *)
(* A result has its pnl, fills, coverage (in percent), whether the run was *)
(* terminated, and its equity, a sequence of <<time, value>>.  Scores are  *)
(* counted in 1 / (20 * markets).                                          *)
(***************************************************************************)
EXTENDS Integers, SequencesExt, FiniteSetsExt, Lists, ReplayWorker

CONSTANTS
  Grid,          (* the values of each parameter: a sequence of sequences         *)
  Sampler,       (* "random" or "tpe"                                             *)
  MaxTrials, HoldoutTopK, MinFills, Cash,
  TrainWindows, HoldoutWindows,   (* how many there are                           *)
  Markets,       (* how many markets the base replays name                        *)
  InvalidScore

\* __post_init__: what a configuration must be.
SearchConfigValid ==
  /\ Sampler \in {"random", "tpe"} /\ Grid # <<>> /\ \A i \in DOMAIN Grid : Grid[i] # <<>>
  /\ MaxTrials > 0 /\ HoldoutTopK > 0 /\ MinFills >= 0 /\ TrainWindows > 0 /\ Markets > 0

ASSUME SearchAssumption ==
  /\ {MaxTrials, HoldoutTopK, TrainWindows, HoldoutWindows, Markets, MinFills, Cash} \subseteq Nat
  /\ InvalidScore \in Int /\ SearchConfigValid
  /\ \A list \in {Grid} \union Range(Grid) : IsFiniteSet(DOMAIN list) /\ DOMAIN list # {}

VARIABLES
  phase,       (* train, holdout, rank, csv, json, done                           *)
  params,      (* the parameters of the trials begun: a sequence                  *)
  train,       (* trial -> the scores of its train windows so far                 *)
  holdout,     (* trial -> the scores of its holdout windows so far               *)
  rows,        (* rows_by_trial: the rows of the trials evaluated, a sequence     *)
  finalists,   (* the trials to evaluate on the holdout windows: a sequence       *)
  board,       (* the rows as they are ranked                                     *)
  disk         (* what is written: [csv: the rows, json: the best row's trial]    *)

searchVars == <<phase, params, train, holdout, rows, finalists, board, disk>>
-----------------------------------------------------------------------------
(* Candidates                                                              *)

\* _parameter_candidates: the product of the values, the equal ones once.
Candidates == {c \in [DOMAIN Grid -> UNION {Range(Grid[i]) : i \in DOMAIN Grid}] :
                 \A i \in DOMAIN Grid : c[i] \in Range(Grid[i])}

\* How many trials there will be: _sample_parameter_sets, or one for each that optuna is asked.
Trials == IF Sampler = "tpe" THEN MaxTrials ELSE Min({MaxTrials, Cardinality(Candidates)})

\* The next trial's parameters: what optuna suggests, the next candidate when all have their
\* turn (in the order of the product, here some order), or one of the sample.
Proposals ==
  LET rest == Candidates \ Range(params)
  IN  IF Sampler = "tpe" THEN Candidates
      ELSE IF Cardinality(Candidates) <= MaxTrials THEN {CHOOSE c \in rest : TRUE} ELSE rest
-----------------------------------------------------------------------------
(* Scores                                                                  *)


\* sum()
Total(values) ==
  LET upTo[n \in 0 .. Len(values)] == IF n = 0 THEN 0 ELSE upTo[n - 1] + values[n]
  IN  upTo[Len(values)]

\* _max_drawdown_currency, of values by their places or by their times.
Drawdown(values) ==
  LET later == {p \in (DOMAIN values) \X (DOMAIN values) : p[1] <= p[2]}
  IN  Max({0} \union {values[p[1]] - values[p[2]] : p \in later})

\* A series at time t: its last value, or before it begins its first one.
ValueAt(series, t) ==
  LET before == {i \in DOMAIN series : series[i][1] <= t}
  IN  IF before = {} THEN series[1][2] ELSE series[Max(before)][2]

\* _joint_portfolio_drawdown: of the sum of the series at all their moments.
JointDrawdown(serieses) ==
  LET told == {i \in DOMAIN serieses : serieses[i] # <<>>}
      moments == UNION {{p[1] : p \in Range(serieses[i])} : i \in told}
      Sum(t) == Total([i \in DOMAIN serieses |-> IF i \in told THEN ValueAt(serieses[i], t) ELSE 0])
  IN  Drawdown([t \in moments |-> Sum(t)])

\* _score_result; the coverage is the sum over the markets.
ScoreResult(pnl, drawdown, fills, coverage, terminated) ==
  20 * Markets * pnl - 10 * Markets * drawdown
    - (IF terminated THEN 20 * Markets * Cash ELSE 0)
    - 2 * Cash * Max({0, 98 * Markets - coverage})
    - (IF fills < MinFills THEN 40 * Markets ELSE 0)

\* _evaluate_window: an error, and a number of results that is not the markets', is invalid.
Evaluate(outcome) ==
  LET results == outcome.results
      Sum(Value(_)) == Total([i \in DOMAIN results |-> Value(results[i])])
  IN  IF outcome.status = "error" \/ Len(results) # Markets THEN InvalidScore
      ELSE ScoreResult(Sum(LAMBDA r : r.pnl),
             IF Markets = 1 THEN Drawdown([i \in DOMAIN results[1].equity |-> results[1].equity[i][2]])
             ELSE JointDrawdown([i \in DOMAIN results |-> results[i].equity]),
             Sum(LAMBDA r : r.fills), Sum(LAMBDA r : r.coverage),
             \E i \in DOMAIN results : results[i].terminated)
-----------------------------------------------------------------------------
(* Rows and ranks                                                          *)

\* _median_metric, twice its value.
MedianTwice(scores) ==
  LET s == StableSort(scores, LAMBDA a, b : a < b)
      n == Len(s)
  IN  IF n % 2 = 1 THEN 2 * s[(n + 1) \div 2] ELSE s[n \div 2] + s[n \div 2 + 1]

\* _build_leaderboard_row; `seen` says whether there are holdout evaluations.
Row(trial) ==
  [trial |-> trial, train |-> MedianTwice(train[trial]), seen |-> holdout[trial] # <<>>,
   holdout |-> IF holdout[trial] = <<>> THEN 0 ELSE MedianTwice(holdout[trial])]

\* _train_row_sort_key
BetterTrained(a, b) == a.train > b.train \/ (a.train = b.train /\ a.trial < b.trial)

\* _final_row_sort_key
Better(a, b) ==
  IF a.seen # b.seen THEN a.seen
  ELSE IF a.seen /\ a.holdout # b.holdout THEN a.holdout > b.holdout
  ELSE BetterTrained(a, b)

\* Mutant of TopTrials: the first trials.
TopTrialsFirst == SubSeq([trial \in DOMAIN rows |-> trial], 1, Min({HoldoutTopK, Len(rows)}))

\* The trials that see the holdout windows, the best ones first.
TopTrials ==
  LET sorted == StableSort(rows, BetterTrained)
  IN  [i \in 1 .. Min({HoldoutTopK, Len(rows)}) |-> sorted[i].trial]
-----------------------------------------------------------------------------
(* The search                                                              *)

SearchInit ==
  /\ phase = "train" /\ params = <<>> /\ train = <<>> /\ holdout = <<>> /\ rows = <<>>
  /\ finalists = <<>> /\ board = <<>> /\ disk = [csv |-> <<>>, json |-> 0]

\* A trial is begun when the last one has its row.
BeginTrial ==
  /\ phase = "train" /\ pc = "ready" /\ Len(params) < Trials
  /\ Len(rows) = Len(params)
  /\ \E c \in Proposals : params' = Append(params, c)
  /\ train' = Append(train, <<>>) /\ holdout' = Append(holdout, <<>>)
  /\ UNCHANGED <<phase, rows, finalists, board, disk>> /\ UNCHANGED workerVars

\* A trial with all its evaluations gets its row.
EndTrial ==
  /\ phase = "train" /\ pc = "ready" /\ Len(rows) < Len(params) /\ Len(Last(train)) = TrainWindows
  /\ rows' = Append(rows, Row(Len(params)))
  /\ UNCHANGED <<phase, params, train, holdout, finalists, board, disk>> /\ UNCHANGED workerVars

\* The next window of the trial is evaluated.
EvaluateTrain ==
  /\ phase = "train" /\ params # <<>> /\ Len(Last(train)) < TrainWindows
  /\ Spawn(<<"train", Len(params), Len(Last(train)) + 1>>)
  /\ UNCHANGED searchVars

EvaluateHoldout ==
  /\ phase = "holdout" /\ finalists # <<>> /\ Len(holdout[Head(finalists)]) < HoldoutWindows
  /\ Spawn(<<"holdout", Head(finalists), Len(holdout[Head(finalists)]) + 1>>)
  /\ UNCHANGED searchVars

Evaluated ==
  /\ pc = "answered" /\ Taken
  /\ IF phase = "train"
     THEN train' = [train EXCEPT ![Len(params)] = Append(@, Evaluate(answer))] /\ UNCHANGED holdout
     ELSE holdout' = [holdout EXCEPT ![Head(finalists)] = Append(@, Evaluate(answer))]
          /\ UNCHANGED train
  /\ UNCHANGED <<phase, params, rows, finalists, board, disk>>

\* All trials have their rows: the best ones go on to the holdout windows, if there are any.
EndTrain ==
  /\ phase = "train" /\ pc = "ready" /\ Len(rows) = Trials
  /\ IF HoldoutWindows = 0 THEN phase' = "rank" /\ UNCHANGED finalists
     ELSE phase' = "holdout" /\ finalists' = TopTrials
  /\ UNCHANGED <<params, train, holdout, rows, board, disk>> /\ UNCHANGED workerVars

\* A finalist with all its evaluations gets a new row.
EndFinalist ==
  /\ phase = "holdout" /\ pc = "ready" /\ finalists # <<>>
  /\ Len(holdout[Head(finalists)]) = HoldoutWindows
  /\ rows' = [rows EXCEPT ![Head(finalists)] = Row(Head(finalists))]
  /\ finalists' = Tail(finalists)
  /\ UNCHANGED <<phase, params, train, holdout, board, disk>> /\ UNCHANGED workerVars

EndHoldout ==
  /\ phase = "holdout" /\ finalists = <<>> /\ phase' = "rank"
  /\ UNCHANGED <<params, train, holdout, rows, finalists, board, disk>> /\ UNCHANGED workerVars

Rank ==
  /\ phase = "rank" /\ phase' = "csv" /\ board' = StableSort(rows, Better)
  /\ UNCHANGED <<params, train, holdout, rows, finalists, disk>> /\ UNCHANGED workerVars

WriteLeaderboard ==
  /\ phase = "csv" /\ phase' = "json" /\ disk' = [disk EXCEPT !.csv = board]
  /\ UNCHANGED <<params, train, holdout, rows, finalists, board>> /\ UNCHANGED workerVars

WriteSummary ==
  /\ phase = "json" /\ phase' = "done" /\ disk' = [disk EXCEPT !.json = board[1].trial]
  /\ UNCHANGED <<params, train, holdout, rows, finalists, board>> /\ UNCHANGED workerVars

SearchSteps ==
  \/ BeginTrial \/ EvaluateTrain \/ EvaluateHoldout \/ Evaluated \/ EndTrial \/ EndTrain
  \/ EndFinalist \/ EndHoldout \/ Rank \/ WriteLeaderboard \/ WriteSummary
-----------------------------------------------------------------------------
\* The selected trial is one no other trial beats: it has seen the holdout windows when there
\* are any, no other one that has seen them has a better median there, and none that was left
\* out of them was better on the train windows.  Every trial has a row.
BestIsBest ==
  phase = "done" =>
    LET Of(t) == CHOOSE r \in Range(disk.csv) : r.trial = t
        best == Of(disk.json)
    IN  /\ {r.trial : r \in Range(disk.csv)} = 1 .. Trials /\ Len(disk.csv) = Trials
        /\ HoldoutWindows > 0 => best.seen
        /\ \A r \in Range(disk.csv) :
             /\ r.seen => r.holdout <= best.holdout
             /\ ~r.seen /\ best.seen => \A s \in Range(disk.csv) : s.seen => s.train >= r.train
             /\ ~best.seen => r.train <= best.train
=============================================================================
