------------------------- MODULE ExperimentsProofs --------------------------
(***************************************************************************)
(* Proofs about the child processes of an experiment and about the         *)
(* parameter search, for any search, portfolios, histories and faults of   *)
(* the children:                                                           *)
(*   - Spec => []AnswersWhole: an answer is the whole result or an error;  *)
(*   - Spec => []PipeEnds: the parent sees a child go;                     *)
(*   - Spec => []BestIsBest: the selected trial is one no other beats;     *)
(*   - Spec => []ResultsOwn: a result is of its own replay, in its place.  *)
(*                                                                         *)
(* WorkerInv says what the steps of parent and child leave in the file,    *)
(* the pipe and the exit code: a message "ok", in the pipe or received,    *)
(* comes after the whole result was written, and nothing touches the file  *)
(* before the parent has read it.                                          *)
(*                                                                         *)
(* SearchInv says that a row tells of its trial, and that no trial left    *)
(* out of the holdout windows was better on the train windows than one     *)
(* that saw them or will.  It needs that sorting sorts: the ranks of a     *)
(* finite set that is totally ordered are the numbers below its size, each *)
(* of one member; and that every window has a score that is a number,      *)
(* whatever a backtest of it gives (ScoredInv).                            *)
(*                                                                         *)
(* OwnInv says that the results so far are those of the replays whose turn *)
(* was, and what a child made that of the replay whose turn is.            *)
(***************************************************************************)
EXTENDS Experiments, ListProofs

Outcome(o) == o = [status |-> o.status, results |-> o.results]

\* The file has all the backtest gave.
Whole == made.status = "ok" /\ Outcome(made) /\ file.results = made.results

\* Where parent and child may be together; the file is a result file.
PlacesOK ==
  /\ pc \in {"ready", "close", "recv", "join", "load", "answered"}
  /\ child \in {"none", "running", "raised", "made", "written", "sent", "closed", "exited"}
  /\ file = [there |-> file.there, results |-> file.results]
  /\ pc = "ready" => child = "none"
  /\ pc \in {"load", "answered"} => child \in {"none", "exited"}

\* A child that has not sent has told nothing.
SilentBefore ==
  /\ pipe \in {<<>>, <<"ok">>, <<"error">>}
  /\ child \in {"none", "running", "raised", "made", "written"} =>
       pc \in {"ready", "answered"} \/ (pipe = <<>> /\ message # "ok")

\* What the child's place, its message and the parent's answer say of the file.
MadeWhole ==
  /\ child \in {"made", "written"} => made.status = "ok" /\ Outcome(made)
  /\ child = "written" => Whole
  /\ pc \notin {"ready", "answered"} /\ (pipe = <<"ok">> \/ message = "ok") => Whole

\* Who holds the pipe's writing end.
WritersOK ==
  /\ writers \subseteq {"parent", "child"}
  /\ pc # "close" => "parent" \notin writers
  /\ child \in {"none", "closed", "exited"} => "child" \notin writers

WorkerInv == PlacesOK /\ WritersOK /\ SilentBefore /\ MadeWhole /\ AnswersWhole
-----------------------------------------------------------------------------
(* What a backtest gives is a status and results                            *)

\* What a backtest gives is a status and results.
LEMMA BacktestOutcome ==
  ASSUME NEW sims1, NEW configs, NEW request, NEW now, NEW series, NEW answers, NEW run
  PROVE  Outcome(Backtest(sims1, configs, request, now, series, answers, run))
BY DEF Outcome, Backtest

\* So is what the backtest of a window gives.
LEMMA WindowOutcome ==
  ASSUME NEW period, NEW o \in WindowOutcomes(period)
  PROVE  Outcome(o)
<1>1. PICK a \in Outcomes([i \in DOMAIN BaseReplays |-> Windowed(BaseReplays[i], period)]),
           accounts \in [DOMAIN BaseReplays -> Accounts] : o = Measured(a, accounts)
  <2> DEFINE S == Outcomes([i \in DOMAIN BaseReplays |-> Windowed(BaseReplays[i], period)])
             T == [DOMAIN BaseReplays -> Accounts]
  <2>1. o \in {Measured(a, accounts) : a \in S, accounts \in T}
    BY DEF WindowOutcomes
  <2> HIDE DEF S, T
  <2>2. \E a \in S, accounts \in T : o = Measured(a, accounts)
    BY <2>1
  <2> QED BY <2>2 DEF S, T
<1> QED BY <1>1 DEF Measured, Outcome

\* So is what the backtest of one replay gives.
LEMMA ReplayOutcome ==
  ASSUME NEW b \in OutcomesAlone
  PROVE  Outcome(b[2])
<1>1. PICK replay : \E o \in Outcomes(<<replay>>) : b = <<replay, o>>
  BY DEF OutcomesAlone
<1>2. PICK o \in Outcomes(<<replay>>) : b = <<replay, o>>
  BY <1>1
<1>3. Outcome(o)
  BY BacktestOutcome DEF Outcomes
<1> QED BY <1>2, <1>3

-----------------------------------------------------------------------------
(* The steps of parent and child                                            *)

\* A child that is started has told nothing yet.
LEMMA SpawnKeeps ==
  ASSUME WorkerInv, NEW j, Spawn(j)
  PROVE  WorkerInv'
<1>1. child = "none"
  BY DEF WorkerInv, PlacesOK, Spawn
<1>2. CASE pc' = "close" /\ child' = "running"
  BY <1>2 DEF WorkerInv, PlacesOK, WritersOK, SilentBefore, MadeWhole, AnswersWhole, Spawn, EmptyFile, NoFile
<1>3. CASE pc' = "answered" /\ answer' = Failure /\ UNCHANGED child
  BY <1>1, <1>3 DEF WorkerInv, PlacesOK, WritersOK, SilentBefore, MadeWhole, AnswersWhole, Spawn, EmptyFile, NoFile, Failure
<1> QED BY <1>2, <1>3 DEF Spawn

\* An answer that is taken leaves a parent with no child.
LEMMA TakenKeeps ==
  ASSUME WorkerInv, Taken
  PROVE  WorkerInv'
BY DEF WorkerInv, PlacesOK, WritersOK, SilentBefore, MadeWhole, AnswersWhole, Taken

\* The child has made a result and has not written it.
LEMMA ChildRunsKeeps ==
  ASSUME WorkerInv, NEW o, Outcome(o), ChildRuns(o)
  PROVE  WorkerInv'
<1>1. pc \notin {"ready", "load", "answered"} /\ pipe = <<>> /\ message # "ok"
  BY DEF WorkerInv, PlacesOK, WritersOK, SilentBefore, ChildRuns
<1>2. child' \in {"made", "raised"} /\ (child' = "made" => made'.status = "ok" /\ Outcome(made'))
  BY DEF ChildRuns, Outcome
<1> QED BY <1>1, <1>2 DEF WorkerInv, PlacesOK, WritersOK, SilentBefore, MadeWhole, AnswersWhole, ChildRuns

\* The steps of the parent: it reads the file only after the message.
LEMMA ParentKeeps ==
  ASSUME WorkerInv, ParentSteps
  PROVE  WorkerInv'
<1> USE DEF WorkerInv
<1>1. CASE ParentCloses
  BY <1>1 DEF PlacesOK, WritersOK, SilentBefore, MadeWhole, Whole, AnswersWhole, ParentCloses
<1>2. CASE Receive
  <2>1. PlacesOK' /\ WritersOK'
    BY <1>2 DEF PlacesOK, WritersOK, Receive
  <2>2. \/ pipe' = <<>> /\ pipe \in {<<"ok">>, <<"error">>} /\ message' = pipe[1]
        \/ pipe' = <<>> /\ message' = "eof"
    BY <1>2 DEF SilentBefore, Receive
  <2>3. SilentBefore'
    BY <1>2, <2>2 DEF SilentBefore, Receive
  <2>4. message' = "ok" => pipe = <<"ok">> /\ Whole
    BY <1>2, <2>2 DEF MadeWhole, Receive
  <2>5. pipe' # <<"ok">>
    BY <2>2
  <2>6. message' = "ok" => Whole'
    BY <1>2, <2>4 DEF Whole, Receive
  <2>7. /\ child' \in {"made", "written"} => made'.status = "ok" /\ Outcome(made)'
        /\ child' = "written" => Whole'
    BY <1>2 DEF MadeWhole, Whole, Outcome, Receive
  <2> QED BY <1>2, <2>1, <2>3, <2>5, <2>6, <2>7 DEF MadeWhole, AnswersWhole, Receive
<1>3. CASE Join
  BY <1>3 DEF PlacesOK, WritersOK, SilentBefore, MadeWhole, Whole, AnswersWhole, Join
<1>4. CASE Load
  <2>1. AnswersWhole'
    <3>1. CASE message = "ok" /\ exit = "zero"
      <4>1. Whole
        BY <1>4, <3>1 DEF Load, MadeWhole
      <4> QED BY <1>4, <3>1, <4>1 DEF Load, AnswersWhole, Whole, Outcome
    <3>2. CASE ~(message = "ok" /\ exit = "zero")
      BY <1>4, <3>2 DEF Load, AnswersWhole, Failure
    <3> QED BY <3>1, <3>2
  <2>2. PlacesOK' /\ WritersOK' /\ SilentBefore' /\ MadeWhole'
    BY <1>4 DEF PlacesOK, WritersOK, SilentBefore, MadeWhole, Load, NoFile
  <2> QED BY <2>1, <2>2
<1> QED BY <1>1, <1>2, <1>3, <1>4 DEF ParentSteps

\* The steps of the child: it sends after it wrote, and may die at any of them.
LEMMA ChildKeeps ==
  ASSUME WorkerInv, ChildSteps \/ ChildDies
  PROVE  WorkerInv'
<1> USE DEF WorkerInv
<1>1. CASE ChildWrites
  <2>1. pc \notin {"ready", "load", "answered"} /\ pipe = <<>> /\ message # "ok"
    BY <1>1 DEF PlacesOK, WritersOK, SilentBefore, ChildWrites
  <2>2. child' = "written" => Whole'
    BY <1>1 DEF PlacesOK, MadeWhole, Whole, ChildWrites
  <2> QED BY <1>1, <2>1, <2>2 DEF PlacesOK, WritersOK, SilentBefore, MadeWhole, AnswersWhole, ChildWrites
<1>2. CASE ChildSends
  <2>1. pc \notin {"ready", "load", "answered"} /\ pipe = <<>> /\ message # "ok"
    BY <1>2 DEF PlacesOK, WritersOK, SilentBefore, ChildSends
  <2>2. pipe' = <<IF child = "written" THEN "ok" ELSE "error">>
    BY <1>2, <2>1 DEF ChildSends
  <2>3. pipe' = <<"ok">> => Whole'
    BY <1>2, <2>2 DEF MadeWhole, Whole, ChildSends
  <2> QED BY <1>2, <2>1, <2>2, <2>3 DEF PlacesOK, WritersOK, SilentBefore, MadeWhole, AnswersWhole, ChildSends
<1>3. CASE ChildCloses
  BY <1>3 DEF PlacesOK, WritersOK, SilentBefore, MadeWhole, Whole, AnswersWhole, ChildCloses
<1>4. CASE ChildExits
  BY <1>4 DEF PlacesOK, WritersOK, SilentBefore, MadeWhole, Whole, AnswersWhole, ChildExits
<1>5. CASE ChildDies
  BY <1>5 DEF PlacesOK, WritersOK, SilentBefore, MadeWhole, Whole, AnswersWhole, ChildDies
<1> QED BY <1>1, <1>2, <1>3, <1>4, <1>5 DEF ChildSteps

\* Steps that leave parent and child alone.
LEMMA WorkerStays ==
  ASSUME WorkerInv, UNCHANGED workerVars
  PROVE  WorkerInv'
BY DEF workerVars, WorkerInv, PlacesOK, WritersOK, SilentBefore, MadeWhole, Whole, AnswersWhole

-----------------------------------------------------------------------------
(* The experiment                                                           *)

\* No child has been started at the start.
LEMMA WorkerInit1 == Init => WorkerInv
BY DEF Init, WorkerInit, WorkerInv, PlacesOK, WritersOK, SilentBefore, MadeWhole, AnswersWhole, NoOutcome, NoFile

\* Every step of an experiment keeps WorkerInv.
LEMMA WorkerStep == WorkerInv /\ [Next]_vars => WorkerInv'
<1> SUFFICES ASSUME WorkerInv, [Next]_vars PROVE WorkerInv'
  OBVIOUS
<1>1. CASE Searches
  <2>1. CASE EvaluateTrain \/ EvaluateHoldout
    BY <2>1, SpawnKeeps DEF EvaluateTrain, EvaluateHoldout
  <2>2. CASE Evaluated
    BY <2>2, TakenKeeps DEF Evaluated
  <2>3. CASE UNCHANGED workerVars
    BY <2>3, WorkerStays
  <2> QED
    BY <1>1, <2>1, <2>2, <2>3 DEF Searches, SearchSteps, BeginTrial, EndTrial, EndTrain, EndFinalist, EndHoldout,
                                  Rank, WriteLeaderboard, WriteSummary
<1>2. CASE RunWindow
  <2>1. PICK b \in WindowOutcomes(Periods[job[1]][job[3]]) : ChildRuns(b)
    BY <1>2 DEF RunWindow
  <2> QED BY <2>1, WindowOutcome, ChildRunsKeeps
<1>3. CASE RunReplay
  <2>1. PICK b \in OutcomesAlone : ChildRuns(b[2])
    BY <1>3 DEF RunReplay
  <2> QED BY <2>1, ReplayOutcome, ChildRunsKeeps
<1>4. CASE BeginReplay
  BY <1>4, SpawnKeeps DEF BeginReplay
<1>5. CASE TakeReplay
  BY <1>5, TakenKeeps DEF TakeReplay
<1>6. CASE Parent
  BY <1>6, ParentKeeps DEF Parent
<1>7. CASE Child \/ Dies
  BY <1>7, ChildKeeps DEF Child, Dies
<1>8. CASE RunTogether \/ Finalize \/ UNCHANGED vars
  BY <1>8, WorkerStays DEF RunTogether, Finalize, vars
<1> QED BY <1>1, <1>2, <1>3, <1>4, <1>5, <1>6, <1>7, <1>8 DEF Next

\* An answer that is no error is all the backtest gave and comes from a child that ended
\* well, wherever children raise, die or exit badly (_isolated_replay_runner.py:66).
THEOREM WholeAnswers == Spec => []AnswersWhole
<1>1. WorkerInv => AnswersWhole  BY DEF WorkerInv
<1> QED BY <1>1, WorkerInit1, WorkerStep, PTL DEF Spec

\* A parent never waits for ever on the pipe of a child that is gone, however it went
\* (_isolated_replay_runner.py:56, _optimizer.py:491).
THEOREM ParentSeesEnd == Spec => []PipeEnds
<1>1. WorkerInv => PipeEnds
  BY DEF WorkerInv, WritersOK, PipeEnds
<1> QED BY <1>1, WorkerInit1, WorkerStep, PTL DEF Spec

-----------------------------------------------------------------------------
(* Sorted leaderboards                                                     *)

\* What is told of a sorted list by the orders of the rows.
LesserRows(s) == {p \in (DOMAIN s) \X (DOMAIN s) : BetterTrained(s[p[1]], s[p[2]])}
LesserFinal(s) == {p \in (DOMAIN s) \X (DOMAIN s) : Better(s[p[1]], s[p[2]])}

\* The rows of a leaderboard.
Rows == [trial : Nat, train : Int, seen : BOOLEAN, holdout : Int]

\* _train_row_sort_key orders rows weakly.
LEMMA TrainedOrder ==
  ASSUME NEW s \in Seq(Rows)
  PROVE  WeakOrder(s, LesserRows(s))
<1>0. \A i \in DOMAIN s : s[i] \in Rows
  OBVIOUS
<1>1. \A i \in DOMAIN s : s[i].train \in Int /\ s[i].trial \in Nat
  BY <1>0 DEF Rows
<1>2. \A i, j \in DOMAIN s : <<i, j>> \in LesserRows(s) <=> BetterTrained(s[i], s[j])
  BY DEF LesserRows
<1>3. \A i, j \in DOMAIN s : BetterTrained(s[i], s[j]) => ~BetterTrained(s[j], s[i])
  BY <1>1 DEF BetterTrained
<1>4. \A i, j, k \in DOMAIN s : BetterTrained(s[i], s[j]) => BetterTrained(s[i], s[k]) \/ BetterTrained(s[k], s[j])
  BY <1>1 DEF BetterTrained
<1>5. LesserRows(s) \subseteq (DOMAIN s) \X (DOMAIN s)
  BY DEF LesserRows
<1> QED BY <1>2, <1>3, <1>4, <1>5 DEF WeakOrder

\* _final_row_sort_key orders rows weakly.
LEMMA FinalOrder ==
  ASSUME NEW s \in Seq(Rows)
  PROVE  WeakOrder(s, LesserFinal(s))
<1>0. \A i \in DOMAIN s : s[i] \in Rows
  OBVIOUS
<1>1. \A i \in DOMAIN s : s[i].train \in Int /\ s[i].trial \in Nat /\ s[i].seen \in BOOLEAN /\ s[i].holdout \in Int
  BY <1>0 DEF Rows
<1>2. \A i, j \in DOMAIN s : <<i, j>> \in LesserFinal(s) <=> Better(s[i], s[j])
  BY DEF LesserFinal
<1>3. \A i, j \in DOMAIN s : Better(s[i], s[j]) => ~Better(s[j], s[i])
  BY <1>1 DEF Better, BetterTrained
<1>4. \A i, j, k \in DOMAIN s : Better(s[i], s[j]) => Better(s[i], s[k]) \/ Better(s[k], s[j])
  BY <1>1 DEF Better, BetterTrained
<1>5. LesserFinal(s) \subseteq (DOMAIN s) \X (DOMAIN s)
  BY DEF LesserFinal
<1> QED BY <1>2, <1>3, <1>4, <1>5 DEF WeakOrder

\* StableSort sorts rows by their train scores.
LEMMA TrainedSorted ==
  ASSUME NEW s \in Seq(Rows)
  PROVE  \E at : Sorts(StableSort(s, BetterTrained), s, LesserRows(s), at)
<1> DEFINE less == LesserRows(s)
           n == Len(s)
           count == [i \in DOMAIN s |-> Cardinality({j \in DOMAIN s :
                       BetterTrained(s[j], s[i]) \/ (~BetterTrained(s[i], s[j]) /\ j < i)})]
           at == [k \in 1 .. Cardinality(DOMAIN s) |-> CHOOSE i \in DOMAIN s :
                    Cardinality({j \in DOMAIN s :
                       BetterTrained(s[j], s[i]) \/ (~BetterTrained(s[i], s[j]) /\ j < i)}) = k - 1]
<1>0. n \in Nat /\ DOMAIN s = 1 .. n
  OBVIOUS
<1>1. n \in Nat /\ DOMAIN s = 1 .. n /\ Cardinality(DOMAIN s) = n
  <2> HIDE DEF n
  <2> QED BY <1>0, FS_Interval
<1>2. WeakOrder(s, less)
  BY TrainedOrder
<1>3. \A i, j \in DOMAIN s : <<j, i>> \in Stable(s, less) <=>
         (BetterTrained(s[j], s[i]) \/ (~BetterTrained(s[i], s[j]) /\ j < i))
  BY DEF Stable, LesserRows
<1>4. \A i \in 1 .. n : count[i] = RankOf(Stable(s, less), 1 .. n, i)
  <2> TAKE i \in 1 .. n
  <2>1. {j \in DOMAIN s : BetterTrained(s[j], s[i]) \/ (~BetterTrained(s[i], s[j]) /\ j < i)}
          = {j \in 1 .. n : <<j, i>> \in Stable(s, less)}
    BY <1>1, <1>3
  <2> QED BY <2>1, <1>1 DEF RankOf
<1>5. \A k \in 1 .. n : at[k] = CHOOSE i \in 1 .. n : count[i] = k - 1
  BY <1>1
<1>6. StableSort(s, BetterTrained) = [k \in DOMAIN s |-> s[at[k]]]
  <2> HIDE DEF n, less, count
  <2> QED BY DEF StableSort, Ranked
<1>7. Linear(Stable(s, less), 1 .. n)
  BY <1>1, <1>2, StableOrders
<1> HIDE DEF count, at, less
<1>9. ByRank(at, Stable(s, less), n)
  BY <1>1, <1>4, <1>5, <1>7, CountsRank, Zenon
<1>10. Sorts([k \in DOMAIN s |-> s[at[k]]], s, less, at)
  BY <1>1, <1>2, <1>9, StableSorts, Zenon
<1> QED BY <1>6, <1>10 DEF less

\* StableSort sorts rows by the final key.
LEMMA FinalSorted ==
  ASSUME NEW s \in Seq(Rows)
  PROVE  \E at : Sorts(StableSort(s, Better), s, LesserFinal(s), at)
<1> DEFINE less == LesserFinal(s)
           n == Len(s)
           count == [i \in DOMAIN s |-> Cardinality({j \in DOMAIN s :
                       Better(s[j], s[i]) \/ (~Better(s[i], s[j]) /\ j < i)})]
           at == [k \in 1 .. Cardinality(DOMAIN s) |-> CHOOSE i \in DOMAIN s :
                    Cardinality({j \in DOMAIN s :
                       Better(s[j], s[i]) \/ (~Better(s[i], s[j]) /\ j < i)}) = k - 1]
<1>0. n \in Nat /\ DOMAIN s = 1 .. n
  OBVIOUS
<1>1. n \in Nat /\ DOMAIN s = 1 .. n /\ Cardinality(DOMAIN s) = n
  <2> HIDE DEF n
  <2> QED BY <1>0, FS_Interval
<1>2. WeakOrder(s, less)
  BY FinalOrder
<1>3. \A i, j \in DOMAIN s : <<j, i>> \in Stable(s, less) <=>
         (Better(s[j], s[i]) \/ (~Better(s[i], s[j]) /\ j < i))
  BY DEF Stable, LesserFinal
<1>4. \A i \in 1 .. n : count[i] = RankOf(Stable(s, less), 1 .. n, i)
  <2> TAKE i \in 1 .. n
  <2>1. {j \in DOMAIN s : Better(s[j], s[i]) \/ (~Better(s[i], s[j]) /\ j < i)}
          = {j \in 1 .. n : <<j, i>> \in Stable(s, less)}
    BY <1>1, <1>3
  <2> QED BY <2>1, <1>1 DEF RankOf
<1>5. \A k \in 1 .. n : at[k] = CHOOSE i \in 1 .. n : count[i] = k - 1
  BY <1>1
<1>6. StableSort(s, Better) = [k \in DOMAIN s |-> s[at[k]]]
  <2> HIDE DEF n, less, count
  <2> QED BY DEF StableSort, Ranked
<1>7. Linear(Stable(s, less), 1 .. n)
  BY <1>1, <1>2, StableOrders
<1> HIDE DEF count, at, less
<1>9. ByRank(at, Stable(s, less), n)
  BY <1>1, <1>4, <1>5, <1>7, CountsRank, Zenon
<1>10. Sorts([k \in DOMAIN s |-> s[at[k]]], s, less, at)
  BY <1>1, <1>2, <1>9, StableSorts, Zenon
<1> QED BY <1>6, <1>10 DEF less

\* The median of numbers is a number: sorting them left them numbers.
LEMMA MedianInt ==
  ASSUME NEW s \in Seq(Int), Len(s) > 0
  PROVE  MedianTwice(s) \in Int
<1> DEFINE t == StableSort(s, LAMBDA a, b : a < b)
           n == Len(t)
<1>1. PICK at : Sorts(t, s, Ascending(s), at)
  BY NumbersSorted
<1> HIDE DEF t
<1>0. DOMAIN s = 1 .. Len(s)
  OBVIOUS
<1>2. t = [k \in 1 .. Len(s) |-> s[at[k]]] /\ \A k \in 1 .. Len(s) : at[k] \in 1 .. Len(s)
  BY <1>0, <1>1 DEF Sorts
<1>3. t \in Seq(Int) /\ Len(t) = Len(s)
  BY <1>2
<1>4. n \in Nat /\ n > 0
  BY <1>3
<1>5. MedianTwice(s) = IF n % 2 = 1 THEN 2 * t[(n + 1) \div 2] ELSE t[n \div 2] + t[n \div 2 + 1]
  BY DEF MedianTwice, t
<1> HIDE DEF n
<1>6. CASE n % 2 = 1
  <2>1. (n + 1) \div 2 \in 1 .. n
    BY <1>4
  <2>2. t[(n + 1) \div 2] \in Int
    BY <2>1, <1>3 DEF n
  <2> QED BY <1>5, <1>6, <2>2
<1>7. CASE n % 2 # 1
  <2>1. n \div 2 \in 1 .. n /\ n \div 2 + 1 \in 1 .. n
    BY <1>4, <1>7
  <2>2. t[n \div 2] \in Int /\ t[n \div 2 + 1] \in Int
    BY <2>1, <1>3 DEF n
  <2> QED BY <1>5, <1>7, <2>2
<1> QED BY <1>6, <1>7

-----------------------------------------------------------------------------
(* Numbers                                                                  *)

\* There is a candidate, and so a trial.
LEMMA TrialsPositive == Trials \in Nat /\ Trials > 0
<1> DEFINE values == {Range(Grid[i]) : i \in DOMAIN Grid}
<1>1. IsFiniteSet(DOMAIN Grid) /\ \A i \in DOMAIN Grid : IsFiniteSet(DOMAIN Grid[i]) /\ DOMAIN Grid[i] # {}
  BY SearchAssumption DEF Range
<1>2. \A i \in DOMAIN Grid : IsFiniteSet(Range(Grid[i])) /\ Range(Grid[i]) # {}
  <2> TAKE i \in DOMAIN Grid
  <2>1. IsFiniteSet({Grid[i][x] : x \in DOMAIN Grid[i]})
    BY <1>1, ImageFinite
  <2> QED BY <2>1, <1>1 DEF Range
<1>3. IsFiniteSet(values)
  <2> DEFINE f == [i \in DOMAIN Grid |-> Range(Grid[i])]
  <2>1. IsFiniteSet({f[x] : x \in DOMAIN f})
    <3> HIDE DEF f
    <3> DOMAIN f = DOMAIN Grid
      BY DEF f
    <3> QED BY <1>1, ImageFinite
  <2>2. {f[x] : x \in DOMAIN f} = values
    OBVIOUS
  <2> QED BY <2>1, <2>2
<1>4. IsFiniteSet(UNION values)
  <2>1. \A T \in values : IsFiniteSet(T)
    BY <1>2
  <2> HIDE DEF values
  <2> QED BY <1>3, <2>1, FS_UNION
<1>5. IsFiniteSet(Candidates)
  <2> DEFINE F == [DOMAIN Grid -> UNION values]
  <2>1. IsFiniteSet(F)
    <3> HIDE DEF values
    <3> QED BY <1>1, <1>4, FunctionsFinite
  <2>2. Candidates \in SUBSET F
    BY DEF Candidates
  <2> HIDE DEF F
  <2> QED BY <2>1, <2>2, FS_Subset
<1>6. Candidates # {}
  <2> DEFINE c == [i \in DOMAIN Grid |-> CHOOSE v \in Range(Grid[i]) : TRUE]
  <2>1. \A i \in DOMAIN Grid : c[i] \in Range(Grid[i])
    BY <1>2
  <2>2. c \in Candidates
    BY <2>1 DEF Candidates
  <2> QED BY <2>2
<1>7. Cardinality(Candidates) \in Nat /\ Cardinality(Candidates) > 0
  BY <1>5, <1>6, FS_CardinalityType, FS_EmptySet
<1>8. MaxTrials \in Nat /\ MaxTrials > 0
  BY SearchAssumption DEF SearchConfigValid
<1>9. Min({MaxTrials, Cardinality(Candidates)}) \in {MaxTrials, Cardinality(Candidates)}
  BY <1>7, <1>8, MinOfTwo
<1> QED BY <1>7, <1>8, <1>9 DEF Trials

\* The first values of the function that Total is read off.
Sums(f, s, m) == f = [n \in 0 .. m |-> IF n = 0 THEN 0 ELSE f[n - 1] + s[n]]

\* sum() of numbers is a number: no length is the least one without a sum.
LEMMA TotalInt ==
  ASSUME NEW s \in Seq(Int)
  PROVE  Total(s) \in Int
<1> DEFINE Lost == {m \in Nat : ~\E f : Sums(f, s, m)}
<1>1. Lost = {}
  <2> SUFFICES ASSUME Lost # {} PROVE FALSE
    OBVIOUS
  <2>1. PICK m \in Lost : \A k \in Lost : m <= k
    BY LeastNumber
  <2>2. CASE m = 0
    <3> DEFINE f == [n \in 0 .. 0 |-> 0]
    <3>1. Sums(f, s, 0)
      BY DEF Sums
    <3> QED BY <2>1, <2>2, <3>1
  <2>3. CASE m # 0
    <3>1. m - 1 \in Nat /\ m - 1 \notin Lost
      BY <2>1, <2>3
    <3>2. PICK g : Sums(g, s, m - 1)
      BY <3>1
    <3> DEFINE f == [n \in 0 .. m |-> IF n = m THEN g[m - 1] + s[m] ELSE g[n]]
    <3>3. \A n \in 0 .. m - 1 : f[n] = g[n]
      BY <3>1
    <3>4. \A n \in 0 .. m - 1 : g[n] = IF n = 0 THEN 0 ELSE g[n - 1] + s[n]
      BY <3>2 DEF Sums
    <3>5. \A n \in 0 .. m : f[n] = IF n = 0 THEN 0 ELSE f[n - 1] + s[n]
      <4> TAKE n \in 0 .. m
      <4>1. CASE n = m
        BY <4>1, <3>1, <3>3, <2>3
      <4>2. CASE n # m
        <5>1. n \in 0 .. m - 1 /\ (n # 0 => n - 1 \in 0 .. m - 1)
          BY <4>2, <3>1
        <5>2. f[n] = g[n] /\ (n # 0 => f[n - 1] = g[n - 1])
          BY <5>1, <3>3
        <5> HIDE DEF f
        <5> QED BY <5>1, <5>2, <3>4
      <4> QED BY <4>1, <4>2
    <3>6. Sums(f, s, m)
      <4> HIDE DEF f
      <4>1. f = [n \in 0 .. m |-> f[n]]
        BY DEF f
      <4> QED BY <3>5, <4>1 DEF Sums
    <3> QED BY <2>1, <3>6
  <2> QED BY <2>2, <2>3
<1> DEFINE h == CHOOSE f : Sums(f, s, Len(s))
<1>2. Sums(h, s, Len(s))
  <2>1. Len(s) \in Nat
    OBVIOUS
  <2>2. \E f : Sums(f, s, Len(s))
    BY <1>1, <2>1
  <2> QED BY <2>2
<1>3. Total(s) = h[Len(s)]
  BY DEF Total, Sums
<1> HIDE DEF h
<1>4. \A n \in 0 .. Len(s) : h[n] = IF n = 0 THEN 0 ELSE h[n - 1] + s[n]
  BY <1>2 DEF Sums
<1> DEFINE Bad == {n \in 0 .. Len(s) : h[n] \notin Int}
<1>5. Bad = {}
  <2> SUFFICES ASSUME Bad # {} PROVE FALSE
    OBVIOUS
  <2>1. PICK m \in Bad : \A k \in Bad : m <= k
    <3> Bad \in SUBSET Nat  OBVIOUS
    <3> HIDE DEF Bad
    <3> QED BY LeastNumber
  <2>2. m \in 0 .. Len(s) /\ h[m] \notin Int
    OBVIOUS
  <2>3. m # 0
    BY <2>2, <1>4
  <2>4. m - 1 \in 0 .. Len(s) /\ m \in 1 .. Len(s) /\ ~(m <= m - 1)
    BY <2>2, <2>3
  <2>5. h[m - 1] \in Int
    <3>1. m - 1 \notin Bad
      <4> HIDE DEF Bad
      <4> QED BY <2>1, <2>4
    <3> QED BY <3>1, <2>4
  <2>6. s[m] \in Int
    BY <2>4
  <2>7. h[m] = h[m - 1] + s[m]
    BY <2>3, <2>2, <1>4
  <2> QED BY <2>2, <2>5, <2>6, <2>7
<1>6. Len(s) \in 0 .. Len(s)
  OBVIOUS
<1> QED BY <1>3, <1>5, <1>6

\* A drawdown is a number.
LEMMA DrawdownInt ==
  ASSUME NEW v, IsFiniteSet(DOMAIN v), \A x \in DOMAIN v : v[x] \in Int
  PROVE  Drawdown(v) \in Int
<1> DEFINE later == {p \in (DOMAIN v) \X (DOMAIN v) : p[1] <= p[2]}
           f == [p \in later |-> v[p[1]] - v[p[2]]]
           S == {0} \union {v[p[1]] - v[p[2]] : p \in later}
<1>1. IsFiniteSet(later)
  <2>1. IsFiniteSet((DOMAIN v) \X (DOMAIN v))
    BY FS_Product
  <2>2. later \in SUBSET ((DOMAIN v) \X (DOMAIN v))
    OBVIOUS
  <2> HIDE DEF later
  <2> QED BY <2>1, <2>2, FS_Subset
<1>2. {v[p[1]] - v[p[2]] : p \in later} = {f[x] : x \in DOMAIN f}
  OBVIOUS
<1>3. IsFiniteSet({f[x] : x \in DOMAIN f})
  <2>1. DOMAIN f = later
    OBVIOUS
  <2> HIDE DEF f, later
  <2> QED BY <1>1, <2>1, ImageFinite
<1>4. IsFiniteSet(S)
  <2>1. IsFiniteSet({0})
    BY FS_Singleton
  <2> QED BY <1>2, <1>3, <2>1, FS_Union
<1>5. S \in SUBSET Int /\ S # {}
  OBVIOUS
<1>6. Drawdown(v) = Max(S)
  BY DEF Drawdown
<1> HIDE DEF S
<1> QED BY <1>4, <1>5, <1>6, MaxIn

Series == Seq(Int \X Int)

\* A series has a number at every time.
LEMMA ValueAtInt ==
  ASSUME NEW s \in Series, s # <<>>, NEW t
  PROVE  ValueAt(s, t) \in Int
<1> DEFINE before == {i \in DOMAIN s : s[i][1] <= t}
<1>1. DOMAIN s = 1 .. Len(s) /\ Len(s) \in Nat /\ Len(s) # 0 /\ \A i \in DOMAIN s : s[i] \in Int \X Int
  BY DEF Series
<1>2. \A i \in DOMAIN s : s[i][2] \in Int
  BY <1>1
<1>3. IsFiniteSet(before) /\ before \in SUBSET Int
  <2>1. IsFiniteSet(1 .. Len(s))
    BY <1>1, FS_Interval
  <2>2. before \in SUBSET (1 .. Len(s))
    BY <1>1
  <2>3. before \in SUBSET Int
    BY <1>1
  <2> HIDE DEF before
  <2> QED BY <2>1, <2>2, <2>3, FS_Subset
<1>4. before # {} => Max(before) \in before
  <2> HIDE DEF before
  <2> QED BY <1>3, MaxIn
<1>5. ValueAt(s, t) = IF before = {} THEN s[1][2] ELSE s[Max(before)][2]
  BY DEF ValueAt
<1>6. 1 \in DOMAIN s /\ before \subseteq DOMAIN s
  BY <1>1
<1> HIDE DEF before
<1> QED BY <1>2, <1>4, <1>5, <1>6

\* A joint drawdown is a number.
LEMMA JointDrawdownInt ==
  ASSUME NEW ss \in Seq(Series)
  PROVE  JointDrawdown(ss) \in Int
<1> DEFINE told == {i \in DOMAIN ss : ss[i] # <<>>}
           moments == UNION {{p[1] : p \in Range(ss[i])} : i \in told}
           Sum(t) == Total([i \in DOMAIN ss |-> IF i \in told THEN ValueAt(ss[i], t) ELSE 0])
           v == [t \in moments |-> Sum(t)]
<1>1. DOMAIN ss = 1 .. Len(ss) /\ Len(ss) \in Nat /\ \A i \in DOMAIN ss : ss[i] \in Series
  OBVIOUS
<1>2. IsFiniteSet(moments)
  <2> DEFINE times == [i \in told |-> {p[1] : p \in Range(ss[i])}]
  <2>1. IsFiniteSet(told)
    <3>1. IsFiniteSet(1 .. Len(ss))
      BY <1>1, FS_Interval
    <3>2. told \in SUBSET (1 .. Len(ss))
      BY <1>1
    <3> HIDE DEF told
    <3> QED BY <3>1, <3>2, FS_Subset
  <2>2. \A i \in told : IsFiniteSet(times[i])
    <3> TAKE i \in told
    <3> DEFINE s == ss[i]
               f == [k \in DOMAIN s |-> s[k][1]]
    <3>1. IsFiniteSet(DOMAIN s)
      <4>1. Len(s) \in Nat /\ DOMAIN s = 1 .. Len(s)
        BY <1>1 DEF Series
      <4> HIDE DEF s
      <4> QED BY <4>1, FS_Interval
    <3>2. DOMAIN f = DOMAIN s
      OBVIOUS
    <3>3. IsFiniteSet({f[k] : k \in DOMAIN f})
      <4> HIDE DEF f, s
      <4> QED BY <3>1, <3>2, ImageFinite
    <3>4. {f[k] : k \in DOMAIN f} = {p[1] : p \in Range(s)}
      BY DEF Range
    <3> QED BY <3>3, <3>4
  <2>3. IsFiniteSet({times[i] : i \in DOMAIN times})
    <3>1. DOMAIN times = told
      OBVIOUS
    <3> HIDE DEF times, told
    <3> QED BY <2>1, <3>1, ImageFinite
  <2>4. moments = UNION {times[i] : i \in DOMAIN times}
    OBVIOUS
  <2>5. \A T \in {times[i] : i \in DOMAIN times} : IsFiniteSet(T)
    <3>1. DOMAIN times = told
      OBVIOUS
    <3> HIDE DEF times, told
    <3> QED BY <2>2, <3>1
  <2> HIDE DEF times
  <2> QED BY <2>3, <2>4, <2>5, FS_UNION
<1>3. \A t : Sum(t) \in Int
  <2> TAKE t
  <2> DEFINE q == [i \in DOMAIN ss |-> IF i \in told THEN ValueAt(ss[i], t) ELSE 0]
  <2>1. \A i \in DOMAIN ss : q[i] \in Int
    BY <1>1, ValueAtInt
  <2>2. q \in Seq(Int)
    <3>1. q = [i \in 1 .. Len(ss) |-> q[i]]
      BY <1>1
    <3> HIDE DEF q
    <3> QED BY <1>1, <2>1, <3>1
  <2> HIDE DEF q
  <2>3. Total(q) \in Int
    BY <2>2, TotalInt
  <2> QED BY <2>3 DEF q
<1>4. JointDrawdown(ss) = Drawdown(v)
  BY DEF JointDrawdown
<1>5. DOMAIN v = moments /\ \A t \in moments : v[t] \in Int
  BY <1>3
<1> HIDE DEF moments, v, told
<1> QED BY <1>2, <1>4, <1>5, DrawdownInt

-----------------------------------------------------------------------------
(* The score of a window                                                    *)

\* A window of the search: hours.
SearchWindow == [start : Nat, end : Nat]

\* The greater and the lesser of two numbers.
LEMMA MaxOfTwo ==
  ASSUME NEW a \in Int, NEW b \in Int
  PROVE  Max({a, b}) \in Int /\ Min({a, b}) \in Int
<1>1. \E x \in {a, b} : \A y \in {a, b} : x >= y
  OBVIOUS
<1>2. \E x \in {a, b} : \A y \in {a, b} : x <= y
  OBVIOUS
<1>3. Max({a, b}) \in {a, b}
  BY <1>1 DEF Max
<1>4. Min({a, b}) \in {a, b}
  BY <1>2 DEF Min
<1> QED BY <1>3, <1>4

\* How much of a window was gone through.
LEMMA CoverageInt ==
  ASSUME NEW window \in SearchWindow, window.start < window.end, NEW through \in Nat \union {None}
  PROVE  Coverage(window, through).num \in Int /\ Coverage(window, through).den \in Nat
<1>1. window.start \in Nat /\ window.end \in Nat /\ window.start # None /\ window.end # None
  BY DEF SearchWindow, None
<1>2. ~(window.end <= window.start)
  BY <1>1
<1>3. CASE through = None
  BY <1>1, <1>2, <1>3 DEF Coverage
<1>4. CASE through # None
  <2>1. Max({through, window.start}) \in Int
    BY <1>1, <1>4, MaxOfTwo
  <2>2. Min({Max({through, window.start}), window.end}) \in Int
    <3> DEFINE m == Max({through, window.start})
    <3> HIDE DEF m
    <3>1. m \in Int /\ window.end \in Int
      BY <1>1, <2>1 DEF m
    <3>2. Min({m, window.end}) \in Int
      BY <3>1, MaxOfTwo
    <3> QED BY <3>2 DEF m
  <2>3. Coverage(window, through) =
          [num |-> Min({Max({through, window.start}), window.end}) - window.start, den |-> window.end - window.start]
    BY <1>1, <1>2, <1>4 DEF Coverage
  <2>4. window.end - window.start \in Nat
    BY <1>1
  <2> QED BY <1>1, <2>2, <2>3, <2>4
<1> QED BY <1>3, <1>4

\* A replay that is loaded has the window of the search and its own instrument.
LEMMA LoadedWindow ==
  ASSUME NEW period \in SearchWindow, NEW i \in DOMAIN BaseReplays, NEW a,
         NEW replay, replay = Windowed(BaseReplays[i], period), a \in Answers(replay),
         NEW l, l = LoadReplay(replay.adapter, replay, Request, Now, a), l.status = "loaded"
  PROVE  l.requested = period /\ period.start < period.end /\ l.instrument = <<replay.market, replay.token>>
<1>1. period.start \in Nat /\ period.end \in Nat /\ period = [start |-> period.start, end |-> period.end]
  BY DEF SearchWindow
<1>2. {"start", "end", "lookback"} \subseteq DOMAIN BaseReplays[i]
  BY ExperimentsAssumption DEF Range
<1>3. replay.start = period.start /\ replay.end = period.end
  BY <1>2 DEF Windowed
<1>4. Window(replay.adapter, replay, Request, Now) = period
  BY <1>1, <1>3 DEF Window, OrElse, None
<1>5. a.instrument = <<replay.market, replay.token>>
  <2> DEFINE instrument == <<replay.market, replay.token>>
             window == Window(replay.adapter, replay, Request, Now)
             records == Keep(History[instrument], LAMBDA r : r.ts >= window.start /\ r.ts <= window.end)
  <2>1. a \in {[failed |-> f, records |-> IF f THEN <<>> ELSE records, instrument |-> instrument] : f \in BOOLEAN}
    BY DEF Answers
  <2> HIDE DEF records, instrument
  <2>2. a.instrument = instrument
    BY <2>1
  <2> QED BY <2>2 DEF instrument
<1>6. /\ period.start # None /\ ~(period.start >= period.end)
      /\ l.requested = period /\ l.instrument = a.instrument
  BY <1>4 DEF LoadReplay, Raised, Skipped
<1> QED BY <1>1, <1>5, <1>6

\* What the search reads of one result is numbers.
Measures == [pnl : Int, equity : Series, fills : Int, coverage : Int, terminated : BOOLEAN]

\* A function on 1 .. n is a list.
LEMMA ListOf ==
  ASSUME NEW n \in Nat, NEW T, NEW f, f = [i \in 1 .. n |-> f[i]], \A i \in 1 .. n : f[i] \in T
  PROVE  f \in Seq(T)
OBVIOUS

\* A run of the engine gives every instrument the same fills.
LEMMA RunOfEngine ==
  ASSUME NEW replays, NEW run \in Runs(replays)
  PROVE  \E engine \in EngineRuns :
           /\ run.fills = [i \in Instruments(replays) |-> engine.fills]
           /\ run.end = engine.end /\ run.forced = engine.forced
<1>1. PICK engine \in EngineRuns, f \in BOOLEAN : run = EngineRun(engine, Instruments(replays), f)
  BY DEF Runs
<1> QED BY <1>1 DEF EngineRun

\* A backtest is one of the outcomes of its replays.
LEMMA OutcomeOf ==
  ASSUME NEW replays, NEW o \in Outcomes(replays)
  PROVE  \E series \in BOOLEAN, run \in Runs(replays) : \E answers :
           /\ \A i \in DOMAIN replays : answers[i] \in Answers(replays[i])
           /\ o = Backtest(replays, StrategyConfigs, Request, Now, series, answers, run)
<1> DEFINE Answered == {a \in [DOMAIN replays -> UNION {Answers(r) : r \in Range(replays)}] :
                          \A i \in DOMAIN replays : a[i] \in Answers(replays[i])}
           R == Runs(replays)
<1>1. o \in {Backtest(replays, StrategyConfigs, Request, Now, series, answers, run) :
               series \in BOOLEAN, run \in R, answers \in Answered}
  BY DEF Outcomes
<1>2. \A a \in Answered : \A i \in DOMAIN replays : a[i] \in Answers(replays[i])
  OBVIOUS
<1> HIDE DEF R, Answered
<1>3. PICK series \in BOOLEAN, run \in R, answers \in Answered :
        o = Backtest(replays, StrategyConfigs, Request, Now, series, answers, run)
  BY <1>1
<1> QED BY <1>2, <1>3 DEF R

\* The backtest of a window gives a list of results, and numbers for all markets if it gives one
\* for each.
LEMMA WindowMeasured ==
  ASSUME NEW period \in SearchWindow, NEW o \in WindowOutcomes(period), o.status # "error"
  PROVE  /\ o.results \in Seq({o.results[i] : i \in DOMAIN o.results})
         /\ Len(o.results) = Markets => \A i \in 1 .. Markets : o.results[i] \in Measures
<1> DEFINE sims1 == [i \in DOMAIN BaseReplays |-> Windowed(BaseReplays[i], period)]
           T == [DOMAIN BaseReplays -> Accounts]
<1>1. PICK b \in Outcomes(sims1), accounts \in T : o = Measured(b, accounts)
  <2> DEFINE S == Outcomes(sims1)
  <2>1. o \in {Measured(a, c) : a \in S, c \in T}
    BY DEF WindowOutcomes
  <2> HIDE DEF S, T
  <2>2. \E a \in S, c \in T : o = Measured(a, c)
    BY <2>1
  <2> QED BY <2>2 DEF S
<1> HIDE DEF sims1
<1>14. PICK series \in BOOLEAN, run \in Runs(sims1) : \E answers :
        /\ \A i \in DOMAIN sims1 : answers[i] \in Answers(sims1[i])
        /\ b = Backtest(sims1, StrategyConfigs, Request, Now, series, answers, run)
  BY OutcomeOf
<1>2. PICK answers :
        /\ \A i \in DOMAIN sims1 : answers[i] \in Answers(sims1[i])
        /\ b = Backtest(sims1, StrategyConfigs, Request, Now, series, answers, run)
  BY <1>14
<1>3. \A i \in DOMAIN sims1 : answers[i] \in Answers(sims1[i])
  BY <1>2
<1>4. DOMAIN sims1 = DOMAIN BaseReplays /\ DOMAIN BaseReplays = 1 .. Markets /\ Markets \in Nat
  BY ExperimentsAssumption DEF sims1
<1> DEFINE instruments == Instruments(sims1)
<1>5. PICK engine \in EngineRuns : /\ run.fills = [i \in instruments |-> engine.fills] /\ run.end = engine.end
                                    /\ run.forced = engine.forced
  BY RunOfEngine
<1>6. engine.fills \in Nat /\ engine.end \in Nat \union {None}
  BY ExperimentsAssumption
<1> HIDE DEF instruments
<1> DEFINE loads == [i \in DOMAIN sims1 |-> LoadReplay(sims1[i].adapter, sims1[i], Request, Now, answers[i])]
           places == {i \in DOMAIN loads : loads[i].status = "loaded"}
           loaded == Keep(loads, LAMBDA l : l.status = "loaded")
           L == {l \in {loads[i] : i \in DOMAIN loads} :
                   l.requested = period /\ period.start < period.end /\ l.instrument \in instruments}
           played == [run EXCEPT !.fills = [x \in DOMAIN @ |-> IF x \in Traded(StrategyConfigs, loaded) THEN @[x] ELSE 0]]
<1>7. \A i \in places : loads[i] \in L
  <2> TAKE i \in places
  <2>1. i \in DOMAIN sims1 /\ loads[i] = LoadReplay(sims1[i].adapter, sims1[i], Request, Now, answers[i])
        /\ loads[i].status = "loaded" /\ loads[i] \in {loads[j] : j \in DOMAIN loads}
    OBVIOUS
  <2>2. sims1[i] = Windowed(BaseReplays[i], period) /\ i \in DOMAIN BaseReplays
    BY <2>1, <1>4 DEF sims1
  <2> HIDE DEF loads
  <2>3. loads[i].requested = period /\ period.start < period.end
        /\ loads[i].instrument = <<sims1[i].market, sims1[i].token>>
    BY <2>1, <2>2, <1>3, LoadedWindow
  <2>4. <<sims1[i].market, sims1[i].token>> \in instruments
    BY <2>1 DEF instruments, Instruments, Range
  <2> QED BY <2>1, <2>3, <2>4
<1>8. loaded \in Seq(L)
  <2>1. loads \in Seq({loads[i] : i \in DOMAIN loads})
    <3>1. DOMAIN loads = 1 .. Markets /\ loads = [i \in 1 .. Markets |-> loads[i]]
      BY <1>4
    <3>2. \A i \in 1 .. Markets : loads[i] \in {loads[j] : j \in DOMAIN loads}
      BY <3>1
    <3> HIDE DEF loads
    <3> QED BY <3>1, <3>2, <1>4, ListOf
  <2>2. loaded = Picked(loads, places) /\ places \in SUBSET DOMAIN loads
    BY DEF Keep
  <2> HIDE DEF loads, places, loaded, L
  <2> QED BY <2>1, <2>2, <1>7, PickedTyped
<1>9. b.status # "error" /\ o.results = [i \in DOMAIN b.results |-> Metrics(b.results[i], accounts[i])]
  BY <1>1 DEF Measured
<1>10. b.results = <<>> \/ b.results = BuildResults(loaded, played, series)
  BY <1>2, <1>9 DEF Backtest
<1>11. Markets # 0
  BY SearchAssumption DEF SearchConfigValid
<1>12. CASE b.results = <<>>
  <2>1. o.results = <<>>
    BY <1>9, <1>12
  <2> QED BY <2>1, <1>11
<1>13. CASE b.results = BuildResults(loaded, played, series)
  <2>1. DOMAIN loaded = 1 .. Len(loaded) /\ Len(loaded) \in Nat /\ \A i \in DOMAIN loaded : loaded[i] \in L
    <3> HIDE DEF loaded, L
    <3> QED BY <1>8
  <2>2. \A x \in instruments : played.fills[x] \in Int
    BY <1>5, <1>6 DEF Runs
  <2>3. played.end = run.end /\ played.forced = run.forced
    BY DEF Runs
  <2> HIDE DEF loaded, played
  <2>4. DOMAIN b.results = 1 .. Len(loaded)
    BY <1>13, <2>1 DEF BuildResults
  <2>5. \A i \in 1 .. Len(loaded) : /\ b.results[i].fills = played.fills[loaded[i].instrument]
                                    /\ b.results[i].state = RunState(loaded[i], played.end, played.forced)
    BY <1>13, <2>1 DEF BuildResults
  <2>6. o.results \in Seq({o.results[i] : i \in DOMAIN o.results}) /\ Len(o.results) = Len(loaded)
        /\ DOMAIN o.results = 1 .. Len(loaded)
    <3>1. o.results = [i \in 1 .. Len(loaded) |-> Metrics(b.results[i], accounts[i])]
      BY <1>9, <2>4
    <3> QED BY <3>1, <2>1
  <2>7. ASSUME NEW i \in 1 .. Markets, Len(o.results) = Markets
        PROVE  o.results[i] \in Measures
    <3>1. i \in 1 .. Len(loaded) /\ loaded[i] \in L /\ o.results[i] = Metrics(b.results[i], accounts[i])
      BY <2>1, <2>4, <2>6, <2>7, <1>9
    <3>2. accounts[i] \in [pnl : Int, equity : Series]
      BY <1>4, ExperimentsAssumption DEF Series
    <3>3. loaded[i].requested = period /\ period.start < period.end /\ loaded[i].instrument \in instruments
      BY <3>1
    <3> DEFINE state == RunState(loaded[i], played.end, played.forced)
               through == IF played.end = None /\ played.forced THEN period.start ELSE played.end
    <3>4. period.start \in Nat /\ period.end \in Nat /\ period = [start |-> period.start, end |-> period.end]
      BY DEF SearchWindow
    <3>5. through \in Nat \union {None}
      BY <3>4, <2>3, <1>5, <1>6
    <3>6. state.requested = Coverage(period, through)
      BY <3>3, <3>4 DEF RunState, OrElse, None
    <3>7. state.terminated \in BOOLEAN
      BY <3>3 DEF RunState
    <3> HIDE DEF through, state
    <3>8. state.requested.num \in Int /\ state.requested.den \in Nat
      BY <3>3, <3>5, <3>6, CoverageInt
    <3>9. b.results[i].fills \in Int /\ b.results[i].state = state
      BY <3>1, <3>3, <2>2, <2>5 DEF state
    <3>10. state.requested.den # 0 => (100 * state.requested.num) \div state.requested.den \in Int
      BY <3>8
    <3> QED BY <3>1, <3>2, <3>7, <3>9, <3>10 DEF Metrics, Measures
  <2> QED BY <2>6, <2>7
<1> QED BY <1>10, <1>12, <1>13

\* Every outcome of a window has a score, the failures too.
LEMMA WindowScore ==
  ASSUME NEW period \in SearchWindow, NEW o \in WindowOutcomes(period)
  PROVE  Evaluate(o) \in Int
<1> DEFINE rs == o.results
           Invalid == o.status = "error" \/ Len(rs) # Markets
           pnls == [i \in DOMAIN rs |-> rs[i].pnl]
           fills == [i \in DOMAIN rs |-> rs[i].fills]
           coverages == [i \in DOMAIN rs |-> rs[i].coverage]
           values == [i \in DOMAIN rs[1].equity |-> rs[1].equity[i][2]]
           equities == [i \in DOMAIN rs |-> rs[i].equity]
           drawdown == IF Markets = 1 THEN Drawdown(values) ELSE JointDrawdown(equities)
           terminated == \E i \in DOMAIN rs : rs[i].terminated
<1>0. /\ Markets \in Nat /\ Markets > 0 /\ InvalidScore \in Int /\ MinFills \in Nat /\ Cash \in Nat
  BY SearchAssumption DEF SearchConfigValid
<1>1. CASE Invalid
  BY <1>1, <1>0 DEF Evaluate
<1>2. CASE ~Invalid
  <2>1. Evaluate(o) = ScoreResult(Total(pnls), drawdown, Total(fills), Total(coverages), terminated)
    BY <1>2 DEF Evaluate
  <2>2. DOMAIN rs = 1 .. Markets /\ \A i \in 1 .. Markets : rs[i] \in Measures
    <3>1. rs \in Seq({rs[i] : i \in DOMAIN rs}) /\ \A i \in 1 .. Markets : rs[i] \in Measures
      BY <1>2, WindowMeasured
    <3>2. DOMAIN rs = 1 .. Len(rs)
      BY <3>1
    <3> QED BY <3>1, <3>2, <1>2
  <2> HIDE DEF rs
  <2>3. pnls \in Seq(Int) /\ fills \in Seq(Int) /\ coverages \in Seq(Int) /\ equities \in Seq(Series)
    <3>1. \A i \in 1 .. Markets : /\ pnls[i] \in Int /\ fills[i] \in Int /\ coverages[i] \in Int
                                   /\ equities[i] \in Series
      BY <2>2 DEF Measures
    <3>2. /\ pnls = [i \in 1 .. Markets |-> pnls[i]] /\ fills = [i \in 1 .. Markets |-> fills[i]]
          /\ coverages = [i \in 1 .. Markets |-> coverages[i]] /\ equities = [i \in 1 .. Markets |-> equities[i]]
      BY <2>2
    <3> HIDE DEF pnls, fills, coverages, equities
    <3> QED BY <3>1, <3>2, <1>0, ListOf
  <2>4. IsFiniteSet(DOMAIN values) /\ \A i \in DOMAIN values : values[i] \in Int
    <3> DEFINE e == rs[1].equity
    <3>1. e \in Seq(Int \X Int)
      BY <2>2, <1>0 DEF Measures, Series
    <3>2. DOMAIN values = DOMAIN e /\ \A i \in DOMAIN e : values[i] = e[i][2]
      OBVIOUS
    <3> HIDE DEF e, values
    <3>3. DOMAIN e = 1 .. Len(e) /\ Len(e) \in Nat /\ \A i \in DOMAIN e : e[i] \in Int \X Int
      BY <3>1
    <3>4. IsFiniteSet(1 .. Len(e))
      BY <3>3, FS_Interval
    <3> QED BY <3>2, <3>3, <3>4
  <2> HIDE DEF values, equities, pnls, fills, coverages
  <2>5. drawdown \in Int
    BY <2>3, <2>4, DrawdownInt, JointDrawdownInt
  <2>6. Total(pnls) \in Int /\ Total(fills) \in Int /\ Total(coverages) \in Int
    BY <2>3, TotalInt
  <2> HIDE DEF drawdown, terminated
  <2>7. ASSUME NEW p \in Int, NEW d \in Int, NEW f \in Int, NEW c \in Int, NEW x
        PROVE  ScoreResult(p, d, f, c, x) \in Int
    <3> DEFINE m == Max({0, 98 * Markets - c})
    <3>1. 98 * Markets - c \in Int
      BY <1>0
    <3>2. m \in Int
      <4> DEFINE k == 98 * Markets - c
      <4> HIDE DEF k
      <4>1. k \in Int
        BY <3>1 DEF k
      <4>2. Max({0, k}) \in Int
        BY <4>1, MaxOfTwo
      <4> QED BY <4>2 DEF k
    <3> HIDE DEF m
    <3>3. ScoreResult(p, d, f, c, x) =
            20 * Markets * p - 10 * Markets * d - (IF x THEN 20 * Markets * Cash ELSE 0)
              - 2 * Cash * m - (IF f < MinFills THEN 40 * Markets ELSE 0)
      BY DEF ScoreResult, m
    <3>4. 20 * Markets * p \in Int /\ 10 * Markets * d \in Int /\ 20 * Markets * Cash \in Int
          /\ 2 * Cash * m \in Int /\ 40 * Markets \in Int
      BY <1>0, <3>2
    <3> QED BY <3>3, <3>4
  <2> QED BY <2>1, <2>5, <2>6, <2>7
<1> QED BY <1>1, <1>2

-----------------------------------------------------------------------------
(* The search                                                               *)

\* The lists of trials, of parameters of any values, are of one length, but for the row of the trial that is evaluated.
ListsOK ==
  /\ IsList(params) /\ train \in Seq(Seq(Int)) /\ holdout \in Seq(Seq(Int)) /\ rows \in Seq(Rows)
  /\ Len(train) = Len(params) /\ Len(holdout) = Len(params)
  /\ Len(rows) \in Len(params) - 1 .. Len(params) /\ Len(params) <= Trials
  /\ finalists \in Seq(Nat) /\ \A i \in 1 .. Len(finalists) : finalists[i] \in 1 .. Len(rows)
  /\ disk = [csv |-> disk.csv, json |-> disk.json]

\* A row tells of the trial at its place and of all its train windows.
RowsTell ==
  \A t \in 1 .. Len(rows) :
    rows[t].trial = t /\ Len(train[t]) = TrainWindows /\ rows[t].train = MedianTwice(train[t])

\* What there is in which phase.
PhasesOK ==
  /\ phase \in {"train", "holdout", "rank", "csv", "json", "done"}
  /\ phase = "train" =>
       /\ finalists = <<>> /\ \A t \in 1 .. Len(holdout) : holdout[t] = <<>>
       /\ \A t \in 1 .. Len(rows) : ~rows[t].seen
       /\ kind = "search" /\ pc # "ready" => Len(rows) < Len(params)
  /\ phase # "train" => Len(rows) = Trials
  /\ phase = "holdout" => HoldoutWindows > 0
  /\ phase \notin {"train", "holdout"} => finalists = <<>>

\* Those that have seen the holdout windows, or will.
Chosen == {t \in 1 .. Len(rows) : rows[t].seen} \union {finalists[i] : i \in 1 .. Len(finalists)}

ChosenBest ==
  phase # "train" =>
    /\ HoldoutWindows > 0 => Chosen # {}
    /\ \A c \in Chosen : \A t \in (1 .. Len(rows)) \ Chosen : rows[t].train <= rows[c].train

Written ==
  /\ phase \in {"csv", "json", "done"} => \E at : Sorts(board, rows, LesserFinal(rows), at)
  /\ phase \in {"json", "done"} => disk.csv = board
  /\ phase = "done" => disk.json = board[1].trial

SearchInv == ListsOK /\ RowsTell /\ PhasesOK /\ ChosenBest /\ Written

\* A job of the search is a window.
OfSearch(j) ==
  \/ j[1] = "train" /\ j[3] \in 1 .. TrainWindows
  \/ j[1] = "holdout" /\ j[3] \in 1 .. HoldoutWindows

\* A child of the search works on one of its windows, and what it makes has a score.
ScoredInv ==
  kind = "search" =>
    /\ pc # "ready" => OfSearch(job)
    /\ made.status = "ok" => Evaluate(made) \in Int
    /\ pc = "answered" => Evaluate(answer) \in Int

\* So has a child that failed.
LEMMA FailureScore == Evaluate(Failure) \in Int
BY SearchAssumption DEF Evaluate, Failure

\* An evaluation works on a window of the search.
LEMMA SearchSpawns ==
  ASSUME SearchInv, EvaluateTrain \/ EvaluateHoldout
  PROVE  \E j : Spawn(j) /\ OfSearch(j)
<1>0. TrainWindows \in Nat /\ HoldoutWindows \in Nat
  BY SearchAssumption
<1>1. CASE EvaluateTrain
  <2>1. Len(params) \in Nat /\ Len(params) # 0
    BY <1>1 DEF EvaluateTrain, SearchInv, ListsOK, IsList
  <2>2. Last(train) \in Seq(Int)
    BY <2>1 DEF Last, SearchInv, ListsOK
  <2>3. Len(Last(train)) + 1 \in 1 .. TrainWindows
    BY <2>2, <1>0, <1>1 DEF EvaluateTrain
  <2> QED BY <1>1, <2>3 DEF EvaluateTrain, OfSearch
<1>2. CASE EvaluateHoldout
  <2>1. Len(finalists) \in Nat /\ Len(finalists) # 0 /\ Head(finalists) = finalists[1]
    BY <1>2 DEF EvaluateHoldout, SearchInv, ListsOK
  <2>2. Head(finalists) \in 1 .. Len(rows)
    <3>1. 1 \in 1 .. Len(finalists)
      BY <2>1
    <3> QED BY <3>1, <2>1 DEF SearchInv, ListsOK
  <2>3. Head(finalists) \in DOMAIN holdout
    BY <2>2 DEF SearchInv, ListsOK, IsList
  <2>4. holdout[Head(finalists)] \in Seq(Int)
    BY <2>3 DEF SearchInv, ListsOK
  <2>5. Len(holdout[Head(finalists)]) + 1 \in 1 .. HoldoutWindows
    BY <2>4, <1>0, <1>2 DEF EvaluateHoldout
  <2> QED BY <1>2, <2>5 DEF EvaluateHoldout, OfSearch
<1> QED BY <1>1, <1>2

\* What a child of the search makes, and what it answers, has a score.
LEMMA ScoredStep == WorkerInv /\ WorkerInv' /\ SearchInv /\ ScoredInv /\ [Next]_vars => ScoredInv'
<1> SUFFICES ASSUME WorkerInv, WorkerInv', SearchInv, ScoredInv, [Next]_vars, kind = "search" PROVE ScoredInv'
  BY DEF ScoredInv, Next, Searches, RunWindow, RunTogether, BeginReplay, RunReplay, TakeReplay, Finalize,
         Parent, Child, Dies, experimentVars, vars, ReplaysGo
<1>1. CASE Searches
  <2>1. CASE EvaluateTrain \/ EvaluateHoldout
    <3>1. PICK j : Spawn(j) /\ OfSearch(j)
      BY <2>1, SearchSpawns
    <3>2. made'.status # "ok" /\ OfSearch(job')
      BY <3>1 DEF Spawn, NoOutcome
    <3>3. pc' = "answered" => Evaluate(answer') \in Int
      BY <3>1, FailureScore DEF Spawn
    <3> QED BY <3>2, <3>3 DEF ScoredInv
  <2>2. CASE Evaluated
    BY <2>2 DEF Evaluated, Taken, ScoredInv, NoOutcome
  <2>3. CASE UNCHANGED workerVars
    BY <2>3 DEF workerVars, ScoredInv
  <2>4. EvaluateTrain \/ EvaluateHoldout \/ Evaluated \/ UNCHANGED workerVars
    BY <1>1 DEF Searches, SearchSteps, BeginTrial, EndTrial, EndTrain, EndFinalist,
                EndHoldout, Rank, WriteLeaderboard, WriteSummary
  <2> QED BY <2>1, <2>2, <2>3, <2>4
<1>2. CASE RunWindow
  <2>1. PICK o \in WindowOutcomes(Periods[job[1]][job[3]]) : ChildRuns(o)
    BY <1>2 DEF RunWindow
  <2>2. pc # "ready"
    BY <1>2 DEF RunWindow, WorkerInv, PlacesOK
  <2>3. Periods[job[1]][job[3]] \in SearchWindow
    <3>1. \/ job[1] = "train" /\ job[3] \in 1 .. TrainWindows
          \/ job[1] = "holdout" /\ job[3] \in 1 .. HoldoutWindows
      BY <2>2 DEF ScoredInv, OfSearch
    <3>2. /\ Periods["train"] \in Seq(SearchWindow) /\ Periods["holdout"] \in Seq(SearchWindow)
          /\ Len(Periods["train"]) = TrainWindows /\ Len(Periods["holdout"]) = HoldoutWindows
      BY ExperimentsAssumption DEF SearchWindow
    <3>3. \A w \in 1 .. TrainWindows : Periods["train"][w] \in SearchWindow
      BY <3>2
    <3>4. \A w \in 1 .. HoldoutWindows : Periods["holdout"][w] \in SearchWindow
      BY <3>2
    <3> QED BY <3>1, <3>3, <3>4
  <2>4. Evaluate(o) \in Int
    BY <2>1, <2>3, WindowScore
  <2> QED BY <2>1, <2>4 DEF ChildRuns, ScoredInv
<1>3. CASE Parent
  <2>1. CASE Load
    <3>1. answer' = Failure \/ (answer'.status = "ok" /\ answer' = made' /\ made' = made /\ pc # "ready")
      BY <2>1 DEF Load, WorkerInv, AnswersWhole, Failure
    <3>2. Evaluate(answer') \in Int
      BY <3>1, FailureScore DEF ScoredInv
    <3> QED BY <2>1, <3>2 DEF Load, ScoredInv
  <2>2. CASE ParentCloses \/ Receive \/ Join
    BY <2>2 DEF ParentCloses, Receive, Join, ScoredInv
  <2> QED BY <1>3, <2>1, <2>2 DEF Parent, ParentSteps
<1>4. CASE Child \/ Dies
  BY <1>4 DEF Child, Dies, ChildSteps, ChildWrites, ChildSends, ChildCloses, ChildExits, ChildDies, ScoredInv
<1>5. CASE RunTogether \/ BeginReplay \/ RunReplay \/ TakeReplay \/ Finalize
  BY <1>5 DEF RunTogether, BeginReplay, RunReplay, TakeReplay, Finalize, ReplaysGo
<1>6. CASE UNCHANGED vars
  BY <1>6 DEF vars, workerVars, experimentVars, ScoredInv
<1> QED BY <1>1, <1>2, <1>3, <1>4, <1>5, <1>6 DEF Next

-----------------------------------------------------------------------------
(* Its steps                                                                *)

\* No trial at the start.
LEMMA SearchStart == Init => SearchInv
<1> SUFFICES ASSUME Init PROVE SearchInv
  OBVIOUS
<1>1. SearchInit /\ pc = "ready"
  BY DEF Init, WorkerInit
<1>2. <<>> \in Seq(Nat) /\ <<>> \in Seq(Seq(Int)) /\ <<>> \in Seq(Rows) /\ Len(<<>>) = 0
  OBVIOUS
<1>3. ListsOK
  BY <1>1, <1>2, TrialsPositive DEF SearchInit, ListsOK, IsList
<1>4. RowsTell /\ PhasesOK /\ ChosenBest /\ Written
  BY <1>1, <1>2 DEF SearchInit, RowsTell, PhasesOK, ChosenBest, Written
<1> QED BY <1>3, <1>4 DEF SearchInv

\* Steps that leave the search alone.
LEMMA SearchAlone ==
  ASSUME SearchInv, UNCHANGED searchVars
  PROVE  ListsOK' /\ RowsTell' /\ ChosenBest' /\ Written'
<1>1. ListsOK'
  BY DEF SearchInv, searchVars, ListsOK
<1>2. RowsTell'
  BY DEF SearchInv, searchVars, RowsTell
<1>3. ChosenBest'
  BY DEF SearchInv, searchVars, ChosenBest, Chosen
<1>4. Written'
  BY DEF SearchInv, searchVars, Written
<1> QED BY <1>1, <1>2, <1>3, <1>4

\* Those of them that do not begin an evaluation.
LEMMA SearchStays ==
  ASSUME SearchInv, UNCHANGED searchVars, kind' = kind, kind = "search" /\ pc' # "ready" => pc # "ready"
  PROVE  SearchInv'
<1>1. PhasesOK'
  BY DEF SearchInv, searchVars, PhasesOK
<1> QED BY <1>1, SearchAlone DEF SearchInv

\* A list with one more at its end.
LEMMA ListLonger ==
  ASSUME NEW s, IsList(s), NEW e
  PROVE  IsList(Append(s, e)) /\ Len(Append(s, e)) = Len(s) + 1 /\ Len(s) \in Nat
<1>1. PICK S : s \in Seq(S)
  BY DEF IsList
<1>2. s \in Seq(S \union {e})
  BY <1>1
<1>3. Append(s, e) \in Seq(S \union {e})
  BY <1>2
<1> QED BY <1>1, <1>2, <1>3 DEF IsList

\* A trial is begun when all others have their rows.
LEMMA BeginTrialKeeps ==
  ASSUME SearchInv, BeginTrial, kind' = kind
  PROVE  SearchInv'
<1> USE DEF SearchInv
<1>0. Len(params) \in Nat /\ Len(rows) = Len(params) /\ Len(params) < Trials /\ phase = "train" /\ pc' = "ready"
      /\ rows' = rows /\ disk' = disk /\ finalists' = finalists /\ phase' = phase /\ kind' = kind
      /\ train' = Append(train, <<>>) /\ holdout' = Append(holdout, <<>>) /\ board' = board
  BY ListLonger DEF BeginTrial, workerVars, ListsOK
<1>1. IsList(params') /\ Len(params') = Len(params) + 1
  BY ListLonger DEF BeginTrial, ListsOK
<1>2. /\ train' \in Seq(Seq(Int)) /\ Len(train') = Len(train) + 1 /\ \A t \in 1 .. Len(train) : train'[t] = train[t]
      /\ holdout' \in Seq(Seq(Int)) /\ Len(holdout') = Len(holdout) + 1
      /\ \A t \in 1 .. Len(holdout') : holdout'[t] = <<>> \/ (t \in 1 .. Len(holdout) /\ holdout'[t] = holdout[t])
  <2> <<>> \in Seq(Int)
    OBVIOUS
  <2> QED BY <1>0 DEF ListsOK
<1>3. ListsOK'
  BY <1>0, <1>1, <1>2, TrialsPositive DEF ListsOK
<1>4. RowsTell'
  BY <1>0, <1>2 DEF RowsTell, ListsOK
<1>5. PhasesOK'
  BY <1>0, <1>2 DEF PhasesOK
<1>6. ChosenBest' /\ Written'
  BY <1>0 DEF ChosenBest, Written
<1> QED BY <1>3, <1>4, <1>5, <1>6

\* The row of a trial with evaluations of all its train windows.
LEMMA RowTyped ==
  ASSUME SearchInv, NEW t \in 1 .. Len(params), Len(train[t]) = TrainWindows
  PROVE  /\ Row(t) \in Rows /\ Row(t).trial = t /\ Row(t).train = MedianTwice(train[t])
         /\ Row(t).seen = (holdout[t] # <<>>)
<1>1. t \in Nat /\ train[t] \in Seq(Int) /\ holdout[t] \in Seq(Int)
  <2>1. Len(params) \in Nat
    BY DEF SearchInv, ListsOK, IsList
  <2> QED BY <2>1 DEF SearchInv, ListsOK
<1>2. MedianTwice(train[t]) \in Int
  BY <1>1, MedianInt, SearchAssumption DEF SearchConfigValid
<1>3. holdout[t] # <<>> => MedianTwice(holdout[t]) \in Int
  BY <1>1, MedianInt
<1> QED BY <1>1, <1>2, <1>3 DEF Row, Rows

\* The new row tells of its trial.
LEMMA EndTrialKeeps ==
  ASSUME SearchInv, EndTrial, kind' = kind
  PROVE  SearchInv'
<1> USE DEF SearchInv
<1>0. /\ phase = "train" /\ pc' = "ready" /\ Len(rows) < Len(params) /\ Len(Last(train)) = TrainWindows
      /\ rows' = Append(rows, Row(Len(params))) /\ disk' = disk /\ finalists' = finalists /\ phase' = phase
      /\ params' = params /\ train' = train /\ holdout' = holdout /\ board' = board
  BY DEF EndTrial, workerVars
<1>1. Len(params) \in Nat /\ Len(rows) \in Nat
  BY DEF ListsOK, IsList
<1>2. Len(rows) = Len(params) - 1 /\ Len(params) \in 1 .. Len(params) /\ Last(train) = train[Len(params)]
  BY <1>0, <1>1 DEF ListsOK, Last
<1> DEFINE r == Row(Len(params))
<1>3. r \in Rows /\ r.trial = Len(params) /\ r.train = MedianTwice(train[Len(params)])
      /\ r.seen = (holdout[Len(params)] # <<>>)
  BY <1>0, <1>2, RowTyped
<1>4. holdout[Len(params)] = <<>>
  BY <1>0, <1>2 DEF PhasesOK, ListsOK
<1> HIDE DEF r
<1>5. /\ rows' \in Seq(Rows) /\ Len(rows') = Len(rows) + 1 /\ rows'[Len(params)] = r
      /\ \A t \in 1 .. Len(rows) : rows'[t] = rows[t]
  BY <1>0, <1>1, <1>2, <1>3 DEF r, ListsOK
<1>6. ListsOK'
  BY <1>0, <1>1, <1>2, <1>5 DEF ListsOK, PhasesOK
<1>7. RowsTell'
  <2> SUFFICES ASSUME NEW t \in 1 .. Len(rows')
               PROVE  (rows'[t].trial = t /\ Len(train[t]) = TrainWindows /\ rows'[t].train = MedianTwice(train[t]))
    BY <1>0 DEF RowsTell
  <2>1. CASE t = Len(params)
    BY <2>1, <1>0, <1>2, <1>3, <1>5
  <2>2. CASE t # Len(params)
    <3>1. t \in 1 .. Len(rows)
      BY <2>2, <1>1, <1>2, <1>5
    <3> QED BY <3>1, <1>5 DEF RowsTell
  <2> QED BY <2>1, <2>2
<1>8. PhasesOK'
  <2>1. \A t \in 1 .. Len(rows') : ~rows'[t].seen
    <3> TAKE t \in 1 .. Len(rows')
    <3>1. CASE t = Len(params)
      BY <3>1, <1>3, <1>4, <1>5
    <3>2. CASE t # Len(params)
      <4>1. t \in 1 .. Len(rows)
        BY <3>2, <1>1, <1>2, <1>5
      <4> QED BY <4>1, <1>0, <1>5 DEF PhasesOK
    <3> QED BY <3>1, <3>2
  <2> QED BY <2>1, <1>0 DEF PhasesOK
<1>9. ChosenBest' /\ Written'
  BY <1>0 DEF ChosenBest, Written
<1> QED BY <1>6, <1>7, <1>8, <1>9

\* A score more for one trial.
LEMMA ScoreAdded ==
  ASSUME NEW s \in Seq(Seq(Int)), NEW i, NEW x \in Int
  PROVE  LET t == [s EXCEPT ![i] = Append(s[i], x)]
         IN  t \in Seq(Seq(Int)) /\ Len(t) = Len(s) /\ \A j \in 1 .. Len(s) : j # i => t[j] = s[j]
<1> DEFINE t == [s EXCEPT ![i] = Append(s[i], x)]
<1>1. Len(s) \in Nat /\ DOMAIN s = 1 .. Len(s) /\ \A j \in 1 .. Len(s) : s[j] \in Seq(Int)
  OBVIOUS
<1>2. \A q \in Seq(Int) : Append(q, x) \in Seq(Int)
  OBVIOUS
<1>3. t = [j \in DOMAIN s |-> IF j = i THEN Append(s[i], x) ELSE s[j]]
  OBVIOUS
<1>4. \A j \in 1 .. Len(s) : t[j] \in Seq(Int) /\ (j # i => t[j] = s[j])
  BY <1>1, <1>2, <1>3
<1>5. t = [j \in 1 .. Len(s) |-> t[j]]
  BY <1>1, <1>3
<1> HIDE DEF t
<1>6. t \in Seq(Seq(Int)) /\ Len(t) = Len(s)
  BY <1>1, <1>4, <1>5
<1> QED BY <1>4, <1>6 DEF t

\* A score is added to the windows of its trial, and not to those its row was made of.
LEMMA EvaluatedKeeps ==
  ASSUME SearchInv, ScoredInv, kind = "search", Evaluated, kind' = kind
  PROVE  SearchInv'
<1> USE DEF SearchInv
<1> DEFINE score == Evaluate(answer)
<1>0. /\ pc = "answered" /\ pc' = "ready" /\ phase' = phase /\ rows' = rows /\ disk' = disk
      /\ finalists' = finalists /\ params' = params /\ board' = board
      /\ \/ /\ phase = "train" /\ holdout' = holdout
            /\ train' = [train EXCEPT ![Len(params)] = Append(train[Len(params)], score)]
         \/ /\ phase # "train" /\ train' = train
            /\ holdout' = [holdout EXCEPT ![Head(finalists)] = Append(holdout[Head(finalists)], score)]
  BY DEF Evaluated, Taken
<1>1. score \in Int
  BY <1>0 DEF ScoredInv
<1> HIDE DEF score
<1>2. train \in Seq(Seq(Int)) /\ holdout \in Seq(Seq(Int))
  BY DEF ListsOK
<1>3. /\ train' \in Seq(Seq(Int)) /\ Len(train') = Len(train)
      /\ phase = "train" => \A t \in 1 .. Len(train) : t # Len(params) => train'[t] = train[t]
      /\ phase # "train" => train' = train
  <2>1. CASE phase = "train"
    <3>1. train' = [train EXCEPT ![Len(params)] = Append(train[Len(params)], score)]
      BY <1>0, <2>1
    <3> QED BY <3>1, <2>1, <1>1, <1>2, ScoreAdded
  <2>2. CASE phase # "train"
    BY <2>2, <1>0, <1>2
  <2> QED BY <2>1, <2>2
<1>4. /\ holdout' \in Seq(Seq(Int)) /\ Len(holdout') = Len(holdout) /\ (phase = "train" => holdout' = holdout)
  <2>1. CASE phase = "train"
    BY <2>1, <1>0, <1>2
  <2>2. CASE phase # "train"
    <3>1. holdout' = [holdout EXCEPT ![Head(finalists)] = Append(holdout[Head(finalists)], score)]
      BY <1>0, <2>2
    <3> QED BY <3>1, <2>2, <1>1, <1>2, ScoreAdded
  <2> QED BY <2>1, <2>2
<1>5. ListsOK'
  BY <1>0, <1>3, <1>4 DEF ListsOK
<1>6. RowsTell'
  <2>1. CASE phase = "train"
    <3>1. Len(rows) < Len(params) /\ Len(rows) \in Nat /\ Len(params) \in Nat
      BY <1>0, <2>1 DEF PhasesOK, ListsOK, IsList
    <3>2. \A t \in 1 .. Len(rows) : t \in 1 .. Len(train) /\ t # Len(params)
      BY <3>1 DEF ListsOK
    <3> QED BY <3>2, <2>1, <1>0, <1>3 DEF RowsTell
  <2>2. CASE phase # "train"
    BY <2>2, <1>0, <1>3 DEF RowsTell
  <2> QED BY <2>1, <2>2
<1>7. PhasesOK'
  BY <1>0, <1>4 DEF PhasesOK
<1>8. ChosenBest' /\ Written'
  <2>1. Chosen' = Chosen
    BY <1>0 DEF Chosen
  <2>2. ChosenBest'
    BY <2>1, <1>0 DEF ChosenBest
  <2>3. Written'
    BY <1>0 DEF Written
  <2> QED BY <2>2, <2>3
<1> QED BY <1>5, <1>6, <1>7, <1>8

\* The best trials go on: none that is left out was better on the train windows.
LEMMA EndTrainKeeps ==
  ASSUME SearchInv, EndTrain, kind' = kind
  PROVE  SearchInv'
<1> USE DEF SearchInv
<1>0. /\ phase = "train" /\ pc' = "ready" /\ Len(rows) = Trials
      /\ rows' = rows /\ disk' = disk /\ params' = params /\ train' = train /\ holdout' = holdout /\ board' = board
      /\ \/ HoldoutWindows = 0 /\ phase' = "rank" /\ finalists' = finalists
         \/ HoldoutWindows # 0 /\ phase' = "holdout" /\ finalists' = TopTrials
  BY DEF EndTrain, workerVars
<1> DEFINE sorted == StableSort(rows, BetterTrained)
           n == Len(rows)
           m == Min({HoldoutTopK, n})
<1>1. n \in Nat /\ n > 0 /\ DOMAIN rows = 1 .. n
  BY <1>0, TrialsPositive DEF ListsOK
<1>2. PICK at : Sorts(sorted, rows, LesserRows(rows), at)
  BY TrainedSorted DEF ListsOK
<1>3. m \in 1 .. n
  <2>1. HoldoutTopK \in Nat /\ HoldoutTopK > 0
    BY SearchAssumption DEF SearchConfigValid
  <2> HIDE DEF n
  <2> QED BY <2>1, <1>1, MinOfTwo
<1>4. TopTrials = [i \in 1 .. m |-> sorted[i].trial]
  BY DEF TopTrials
<1> HIDE DEF sorted, m
<1>5. \A k \in 1 .. n : at[k] \in 1 .. n /\ sorted[k] = rows[at[k]] /\ sorted[k].trial = at[k]
  BY <1>1, <1>2 DEF Sorts, RowsTell
<1>6. TopTrials = [i \in 1 .. m |-> at[i]] /\ m \in Nat
  BY <1>1, <1>3, <1>4, <1>5
<1>7. /\ TopTrials \in Seq(Nat) /\ Len(TopTrials) = m /\ \A i \in 1 .. m : TopTrials[i] = at[i] /\ at[i] \in 1 .. n
  <2>1. \A i \in 1 .. m : at[i] \in 1 .. n /\ at[i] \in Nat
    BY <1>1, <1>3, <1>5
  <2> QED BY <2>1, <1>6
<1>8. ListsOK'
  BY <1>0, <1>7 DEF ListsOK
<1>9. RowsTell' /\ PhasesOK' /\ Written'
  <2>1. HoldoutWindows \in Nat
    BY SearchAssumption
  <2> QED BY <2>1, <1>0 DEF RowsTell, PhasesOK, Written
<1>10. ChosenBest'
  <2>1. CASE HoldoutWindows = 0
    <3>1. Chosen' = {}
      BY <2>1, <1>0 DEF Chosen, PhasesOK
    <3> QED BY <2>1, <3>1 DEF ChosenBest
  <2>2. CASE HoldoutWindows # 0
    <3>1. Chosen' = {at[i] : i \in 1 .. m}
      BY <2>2, <1>0, <1>7 DEF Chosen, PhasesOK
    <3>2. at[1] \in Chosen'
      BY <3>1, <1>3
    <3>3. ASSUME NEW i \in 1 .. m, NEW t \in 1 .. n, \A k \in 1 .. m : at[k] # t
          PROVE  rows[t].train <= rows[at[i]].train
      <4>1. PICK k \in 1 .. n : at[k] = t
        BY <1>1, <1>2 DEF Sorts
      <4>2. i \in 1 .. n /\ i < k
        BY <4>1, <3>3, <1>1, <1>3
      <4>3. <<t, at[i]>> \notin LesserRows(rows)
        BY <4>1, <4>2, <1>1, <1>2 DEF Sorts
      <4>4. ~BetterTrained(rows[t], rows[at[i]])
        BY <4>2, <4>3, <1>1, <1>5 DEF LesserRows
      <4>5. rows[t] \in Rows /\ rows[at[i]] \in Rows
        BY <4>2, <1>1, <1>5 DEF ListsOK
      <4> QED BY <4>4, <4>5 DEF BetterTrained, Rows
    <3>4. \A c \in Chosen' : \A t \in (1 .. Len(rows)) \ Chosen' : rows[t].train <= rows[c].train
      BY <3>1, <3>3
    <3> QED BY <3>2, <3>4, <1>0 DEF ChosenBest
  <2> QED BY <2>1, <2>2
<1> QED BY <1>8, <1>9, <1>10

\* A finalist gets a new row with the same train score.
LEMMA EndFinalistKeeps ==
  ASSUME SearchInv, EndFinalist, kind' = kind
  PROVE  SearchInv'
<1> USE DEF SearchInv
<1> DEFINE h == Head(finalists)
           n == Len(rows)
<1>0. /\ phase = "holdout" /\ finalists # <<>> /\ Len(holdout[h]) = HoldoutWindows /\ phase' = phase
      /\ rows' = [rows EXCEPT ![h] = Row(h)] /\ disk' = disk /\ finalists' = Tail(finalists)
      /\ params' = params /\ train' = train /\ holdout' = holdout /\ board' = board /\ pc' = pc
  BY DEF EndFinalist, workerVars
<1>1. /\ Len(finalists) \in Nat /\ Len(finalists) > 0 /\ h = finalists[1] /\ Len(finalists') = Len(finalists) - 1
      /\ finalists' \in Seq(Nat) /\ \A i \in 1 .. Len(finalists') : finalists'[i] = finalists[i + 1]
  BY <1>0 DEF ListsOK
<1>2. h \in 1 .. n /\ n \in Nat /\ Len(params) \in Nat
  <2>1. 1 \in 1 .. Len(finalists)
    BY <1>1
  <2>2. finalists[1] \in 1 .. Len(rows)
    BY <2>1 DEF ListsOK
  <2>3. n \in Nat /\ Len(params) \in Nat
    BY DEF ListsOK, IsList
  <2> QED BY <1>1, <2>2, <2>3
<1>3. h \in 1 .. Len(params) /\ Len(train[h]) = TrainWindows
  BY <1>2 DEF ListsOK, RowsTell
<1>4. HoldoutWindows \in Nat /\ HoldoutWindows > 0
  BY <1>0, SearchAssumption DEF PhasesOK
<1>5. holdout[h] # <<>>
  BY <1>0, <1>4
<1>6. Row(h) \in Rows /\ Row(h).trial = h /\ Row(h).train = rows[h].train /\ Row(h).seen
  BY <1>2, <1>3, <1>5, RowTyped DEF RowsTell
<1> HIDE DEF h
<1>7. /\ rows' \in Seq(Rows) /\ Len(rows') = n /\ rows'[h] = Row(h)
      /\ \A t \in 1 .. n : t # h => rows'[t] = rows[t]
  BY <1>0, <1>2, <1>6 DEF ListsOK
<1>8. \A t \in 1 .. n : rows'[t].trial = t /\ rows'[t].train = rows[t].train
  <2> TAKE t \in 1 .. n
  <2>1. CASE t = h  BY <2>1, <1>6, <1>7
  <2>2. CASE t # h  BY <2>2, <1>7 DEF RowsTell
  <2> QED BY <2>1, <2>2
<1>9. ListsOK'
  <2>1. \A i \in 1 .. Len(finalists') : finalists'[i] \in 1 .. n
    <3> TAKE i \in 1 .. Len(finalists')
    <3>1. i + 1 \in 1 .. Len(finalists)
      BY <1>1
    <3> QED BY <3>1, <1>1 DEF ListsOK
  <2> QED BY <2>1, <1>0, <1>1, <1>7 DEF ListsOK
<1>10. RowsTell'
  BY <1>0, <1>7, <1>8 DEF RowsTell
<1>11. PhasesOK' /\ Written'
  BY <1>0, <1>7 DEF PhasesOK, Written
<1>12. Chosen' = Chosen
  <2>1. {finalists[i] : i \in 1 .. Len(finalists)} = {h} \union {finalists'[i] : i \in 1 .. Len(finalists')}
    <3>1. ASSUME NEW i \in 1 .. Len(finalists)
          PROVE  finalists[i] \in {h} \union {finalists'[j] : j \in 1 .. Len(finalists')}
      <4>1. CASE i = 1  BY <4>1, <1>1
      <4>2. CASE i # 1
        <5>1. i - 1 \in 1 .. Len(finalists') /\ finalists'[i - 1] = finalists[i]
          BY <4>2, <1>1
        <5> QED BY <5>1
      <4> QED BY <4>1, <4>2
    <3>2. ASSUME NEW i \in 1 .. Len(finalists')
          PROVE  finalists'[i] \in {finalists[j] : j \in 1 .. Len(finalists)}
      <4>1. i + 1 \in 1 .. Len(finalists)
        BY <1>1
      <4> QED BY <4>1, <1>1
    <3>3. h \in {finalists[j] : j \in 1 .. Len(finalists)}
      <4>1. 1 \in 1 .. Len(finalists)
        BY <1>1
      <4> QED BY <4>1, <1>1
    <3> QED BY <3>1, <3>2, <3>3
  <2>2. {t \in 1 .. n : rows'[t].seen} = {t \in 1 .. n : rows[t].seen} \union {h}
    BY <1>2, <1>6, <1>7
  <2> QED BY <2>1, <2>2, <1>7 DEF Chosen
<1>13. ChosenBest'
  <2>1. Chosen \subseteq 1 .. n
    BY DEF Chosen, ListsOK
  <2> QED BY <2>1, <1>0, <1>7, <1>8, <1>12 DEF ChosenBest
<1> QED BY <1>9, <1>10, <1>11, <1>13

\* All finalists have seen the holdout windows.
LEMMA EndHoldoutKeeps ==
  ASSUME SearchInv, EndHoldout, kind' = kind
  PROVE  SearchInv'
<1>1. /\ phase = "holdout" /\ finalists = <<>> /\ phase' = "rank" /\ pc' = pc
      /\ UNCHANGED <<params, train, holdout, rows, finalists, board, disk>>
  BY DEF EndHoldout, workerVars
<1>2. ListsOK' /\ RowsTell'
  BY <1>1 DEF SearchInv, ListsOK, RowsTell
<1>3. PhasesOK' /\ Written'
  BY <1>1 DEF SearchInv, PhasesOK, Written
<1>4. ChosenBest'
  BY <1>1 DEF SearchInv, ChosenBest, Chosen
<1> QED BY <1>2, <1>3, <1>4 DEF SearchInv

\* The board is the rows, sorted.
LEMMA RankKeeps ==
  ASSUME SearchInv, Rank, kind' = kind
  PROVE  SearchInv'
<1>1. /\ phase = "rank" /\ phase' = "csv" /\ pc' = pc /\ board' = StableSort(rows, Better)
      /\ UNCHANGED <<params, train, holdout, rows, finalists, disk>>
  BY DEF Rank, workerVars
<1>2. \E at : Sorts(StableSort(rows, Better), rows, LesserFinal(rows), at)
  BY FinalSorted DEF SearchInv, ListsOK
<1>3. ListsOK' /\ RowsTell'
  BY <1>1 DEF SearchInv, ListsOK, RowsTell
<1>4. PhasesOK'
  BY <1>1 DEF SearchInv, PhasesOK
<1>5. ChosenBest'
  BY <1>1 DEF SearchInv, ChosenBest, Chosen
<1>6. Written'
  BY <1>1, <1>2 DEF Written
<1> QED BY <1>3, <1>4, <1>5, <1>6 DEF SearchInv

\* Both files are written from the board.
LEMMA WritesKeep ==
  ASSUME SearchInv, WriteLeaderboard \/ WriteSummary, kind' = kind
  PROVE  SearchInv'
<1>1. /\ \/ phase = "csv" /\ phase' = "json" /\ disk' = [disk EXCEPT !.csv = board]
         \/ phase = "json" /\ phase' = "done" /\ disk' = [disk EXCEPT !.json = board[1].trial]
      /\ pc' = pc /\ UNCHANGED <<params, train, holdout, rows, finalists, board>>
  BY DEF WriteLeaderboard, WriteSummary, workerVars
<1>2. disk = [csv |-> disk.csv, json |-> disk.json]
  BY DEF SearchInv, ListsOK
<1>3. \/ phase = "csv" /\ phase' = "json" /\ disk' = [csv |-> board, json |-> disk.json]
      \/ phase = "json" /\ phase' = "done" /\ disk' = [csv |-> disk.csv, json |-> board[1].trial]
  BY <1>1, <1>2
<1>4. disk' = [csv |-> disk'.csv, json |-> disk'.json] /\ Written'
  BY <1>1, <1>3 DEF SearchInv, Written
<1>5. ListsOK' /\ RowsTell'
  BY <1>1, <1>4 DEF SearchInv, ListsOK, RowsTell
<1>6. PhasesOK'
  BY <1>1 DEF SearchInv, PhasesOK
<1>7. ChosenBest'
  BY <1>1 DEF SearchInv, ChosenBest, Chosen
<1> QED BY <1>4, <1>5, <1>6, <1>7 DEF SearchInv

\* Every step of an experiment keeps SearchInv.
LEMMA SearchStep ==
  ASSUME WorkerInv, SearchInv, ScoredInv, [Next]_vars
  PROVE  SearchInv'
<1>1. CASE Searches
  <2>1. kind' = kind /\ kind = "search"
    BY <1>1 DEF Searches, experimentVars
  <2>2. CASE EvaluateTrain \/ EvaluateHoldout
    <3>1. UNCHANGED searchVars
      BY <2>2 DEF EvaluateTrain, EvaluateHoldout
    <3>2. CASE EvaluateHoldout
      <4>1. phase' # "train"
        BY <3>1, <3>2 DEF EvaluateHoldout, searchVars
      <4>2. ListsOK' /\ RowsTell' /\ ChosenBest' /\ Written'
        BY <3>1, SearchAlone
      <4>3. PhasesOK'
        BY <3>1, <4>1 DEF SearchInv, searchVars, PhasesOK
      <4> QED BY <4>2, <4>3 DEF SearchInv
    <3>3. CASE EvaluateTrain
      <4>1. Len(params) \in Nat /\ Len(params) # 0 /\ Len(train) = Len(params) /\ Last(train) = train[Len(train)]
            /\ Len(rows) \in Len(params) - 1 .. Len(params)
        BY <3>3 DEF EvaluateTrain, SearchInv, ListsOK, IsList, Last
      <4>2. Len(rows) # Len(params)
        BY <4>1, <3>3, SearchAssumption DEF EvaluateTrain, SearchInv, RowsTell
      <4>3. Len(rows) < Len(params)
        BY <4>1, <4>2
      <4>4. ListsOK' /\ RowsTell' /\ ChosenBest' /\ Written'
        BY <3>1, SearchAlone
      <4>5. PhasesOK'
        BY <3>1, <4>3, <2>1 DEF SearchInv, searchVars, PhasesOK
      <4> QED BY <4>4, <4>5 DEF SearchInv
    <3> QED BY <2>2, <3>2, <3>3
  <2> QED
    BY <1>1, <2>1, <2>2, EvaluatedKeeps, BeginTrialKeeps, EndTrialKeeps, EndTrainKeeps, EndFinalistKeeps,
       EndHoldoutKeeps, RankKeeps, WritesKeep DEF Searches, SearchSteps
<1>2. CASE ~Searches
  <2>1. UNCHANGED searchVars /\ kind' = kind
    BY <1>2 DEF Next, RunWindow, RunTogether, BeginReplay, RunReplay, TakeReplay, Finalize, Parent, Child, Dies,
                ReplaysGo, vars, experimentVars
  <2>2. kind = "search" /\ pc' # "ready" => pc # "ready"
    BY <1>2 DEF Next, RunWindow, RunTogether, BeginReplay, RunReplay, TakeReplay, Finalize, Parent, Child, Dies,
                ReplaysGo, vars, workerVars, ParentSteps, ParentCloses, Receive, Join, Load, ChildSteps,
                ChildRuns, ChildWrites, ChildSends, ChildCloses, ChildExits, ChildDies
  <2> QED BY <2>1, <2>2, SearchStays
<1> QED BY <1>1, <1>2

\* With the search done, SearchInv says that the best is the best.
LEMMA SearchBest == SearchInv => BestIsBest
<1> SUFFICES ASSUME SearchInv, phase = "done" PROVE BestIsBest
  BY DEF BestIsBest
<1> DEFINE n == Len(rows)
<1>1. rows \in Seq(Rows) /\ n = Trials /\ n \in Nat /\ n > 0 /\ DOMAIN rows = 1 .. n
  BY TrialsPositive DEF SearchInv, ListsOK, PhasesOK
<1>2. \A t \in 1 .. n : /\ rows[t].trial = t /\ rows[t].train \in Int /\ rows[t].seen \in BOOLEAN
                        /\ rows[t].holdout \in Int
  <2>1. \A t \in 1 .. n : rows[t] \in Rows
    BY <1>1
  <2> QED BY <2>1 DEF Rows, SearchInv, RowsTell
<1>3. PICK at : Sorts(board, rows, LesserFinal(rows), at)
  BY DEF SearchInv, Written
<1>4. disk.csv = board /\ disk.json = board[1].trial
  BY DEF SearchInv, Written
<1>5. \A k \in 1 .. n : at[k] \in 1 .. n /\ board[k] = rows[at[k]]
  BY <1>1, <1>3 DEF Sorts
<1>6. DOMAIN board = 1 .. n /\ Len(board) = n /\ board \in Seq(Rows)
  <2>1. board = [k \in 1 .. n |-> rows[at[k]]]
    BY <1>1, <1>3 DEF Sorts
  <2> QED BY <2>1, <1>1, <1>5
<1>7. Range(disk.csv) = {rows[t] : t \in 1 .. n}
  <2>1. \A t \in 1 .. n : \E k \in 1 .. n : at[k] = t
    BY <1>1, <1>3 DEF Sorts
  <2>2. Range(disk.csv) = {board[k] : k \in 1 .. n}
    BY <1>4, <1>6 DEF Range
  <2>3. \A k \in 1 .. n : board[k] \in {rows[t] : t \in 1 .. n}
    BY <1>5
  <2>4. \A t \in 1 .. n : rows[t] \in {board[k] : k \in 1 .. n}
    BY <2>1, <1>5
  <2> HIDE DEF n
  <2> QED BY <2>2, <2>3, <2>4
<1> DEFINE b == at[1]
           best == rows[b]
<1>8. b \in 1 .. n /\ disk.json = b
  BY <1>1, <1>2, <1>4, <1>5
<1>9. (CHOOSE r \in Range(disk.csv) : r.trial = disk.json) = best
  <2>1. best \in Range(disk.csv) /\ best.trial = disk.json
    BY <1>2, <1>7, <1>8
  <2>2. \A r \in Range(disk.csv) : r.trial = disk.json => r = best
    BY <1>2, <1>7, <1>8
  <2> QED BY <2>1, <2>2
<1>10. \A t \in 1 .. n : t # b => ~Better(rows[t], best)
  <2> TAKE t \in 1 .. n
  <2> HAVE t # b
  <2>1. PICK k \in 1 .. n : at[k] = t
    BY <1>1, <1>3 DEF Sorts
  <2>2. 1 \in 1 .. n /\ 1 < k
    BY <2>1, <1>1
  <2>3. <<t, b>> \notin LesserFinal(rows)
    BY <2>1, <2>2, <1>1, <1>3 DEF Sorts
  <2> QED BY <2>3, <1>1, <1>8 DEF LesserFinal
<1>11. /\ HoldoutWindows > 0 => \E t \in 1 .. n : rows[t].seen
       /\ \A c, t \in 1 .. n : rows[c].seen /\ ~rows[t].seen => rows[t].train <= rows[c].train
  <2>1. Chosen = {t \in 1 .. n : rows[t].seen}
    BY DEF SearchInv, PhasesOK, Chosen
  <2> QED BY <2>1 DEF SearchInv, ChosenBest
<1> HIDE DEF b
<1>12. {r.trial : r \in Range(disk.csv)} = 1 .. Trials /\ Len(disk.csv) = Trials
  BY <1>1, <1>2, <1>4, <1>6, <1>7
<1>13. \A t \in 1 .. n : t # b => (rows[t].seen => best.seen /\ rows[t].holdout <= best.holdout)
  BY <1>2, <1>8, <1>10 DEF Better, BetterTrained
<1>14. HoldoutWindows > 0 => best.seen
  BY <1>11, <1>13
<1>15. \A t \in 1 .. n : rows[t].seen => rows[t].holdout <= best.holdout
  BY <1>2, <1>8, <1>13
<1>16. \A t \in 1 .. n : ~best.seen => rows[t].train <= best.train
  <2> TAKE t \in 1 .. n
  <2> HAVE ~best.seen
  <2>1. ~rows[t].seen
    BY <1>13
  <2> QED BY <2>1, <1>2, <1>8, <1>10 DEF Better, BetterTrained
<1> HIDE DEF best
<1>17. \A r \in Range(disk.csv) :
         /\ r.seen => r.holdout <= best.holdout
         /\ ~r.seen /\ best.seen => \A s \in Range(disk.csv) : s.seen => s.train >= r.train
         /\ ~best.seen => r.train <= best.train
  <2> SUFFICES ASSUME NEW t \in 1 .. n
               PROVE  /\ rows[t].seen => rows[t].holdout <= best.holdout
                      /\ ~rows[t].seen => \A u \in 1 .. n : rows[u].seen => rows[u].train >= rows[t].train
                      /\ ~best.seen => rows[t].train <= best.train
    BY <1>7
  <2>1. ~rows[t].seen => \A u \in 1 .. n : rows[u].seen => rows[u].train >= rows[t].train
    BY <1>2, <1>11
  <2> QED BY <2>1, <1>15, <1>16
<1> QED BY <1>9, <1>12, <1>14, <1>17 DEF BestIsBest

\* In every state with the search done, the trial that run_parameter_search names as the best
\* (L1140 on) is one that no other trial beats, and the leaderboard has all trials: for every
\* grid, sampler, number of trials, windows and finalists, whatever the backtests give.
THEOREM BestSelected == Spec => []BestIsBest
<1>1. Init => ScoredInv
  BY DEF Init, WorkerInit, ScoredInv, NoOutcome
<1>2. WorkerInv /\ SearchInv /\ ScoredInv /\ [Next]_vars => WorkerInv' /\ SearchInv' /\ ScoredInv'
  BY WorkerStep, SearchStep, ScoredStep
<1> QED BY <1>1, <1>2, WorkerInit1, SearchStart, SearchBest, PTL DEF Spec

-----------------------------------------------------------------------------
(* The results of replays                                                   *)

\* A record of a history.
Records == [kind : STRING, ts : Nat, price : Nat]

\* r is a result of the i-th of the replays: of its market and instrument, and settled from its own
\* fills unless another one has its market.
Fits(r, replays, i) ==
  /\ {"market", "instrument", "events", "state", "pnl", "exit"} \subseteq DOMAIN r
  /\ r.instrument = <<replays[i].market, replays[i].token>>
  /\ r.market = replays[i].market
  /\ (\A j \in DOMAIN replays \ {i} : replays[j].market # replays[i].market) => r.events = r.instrument

\* A run that did not end early went through all its records.
Through(state) == ~state.terminated /\ state.through # None => state.coverage.num = state.coverage.den

\* The results are those of the first n replays, in their order.
InTheirPlaces(rs, replays, n, place) ==
  /\ place \in [1 .. Len(rs) -> 1 .. n]
  /\ \A i, j \in 1 .. Len(rs) : i < j => place[i] < place[j]
  /\ \A i \in 1 .. Len(rs) : Fits(rs[i], replays, place[i]) /\ Through(rs[i].state)

Own(rs, replays, n) == IsList(rs) /\ \E place : InTheirPlaces(rs, replays, n, place)

\* A replay that is loaded has records of its own instrument.
LEMMA LoadedOwn ==
  ASSUME NEW replay, NEW a \in Answers(replay),
         History[<<replay.market, replay.token>>] \in Seq(Records),
         NEW l, l = LoadReplay(replay.adapter, replay, Request, Now, a), l.status = "loaded"
  PROVE  /\ l.market = replay.market /\ l.instrument = <<replay.market, replay.token>>
         /\ l.records \in Seq(Records) /\ l.records # <<>>
<1> DEFINE instrument == <<replay.market, replay.token>>
           history == History[instrument]
           window == Window(replay.adapter, replay, Request, Now)
           places == {i \in DOMAIN history : history[i].ts >= window.start /\ history[i].ts <= window.end}
           records == Keep(history, LAMBDA r : r.ts >= window.start /\ r.ts <= window.end)
<1>1. records = Picked(history, places)
  BY DEF Keep
<1>2. places \in SUBSET DOMAIN history /\ \A p \in places : history[p] \in Records
  OBVIOUS
<1>3. a \in {[failed |-> f, records |-> IF f THEN <<>> ELSE records, instrument |-> instrument] : f \in BOOLEAN}
  BY DEF Answers
<1> HIDE DEF records, instrument, places, window
<1>4. records \in Seq(Records)
  <2>1. history \in Seq(Records)
    BY DEF instrument
  <2> HIDE DEF history
  <2> QED BY <1>1, <1>2, <2>1, PickedTyped
<1>5. a.instrument = instrument /\ (a.failed \/ a.records = records)
  BY <1>3
<1>6. /\ ~a.failed /\ a.records # <<>>
      /\ l.market = replay.market /\ l.instrument = a.instrument /\ l.records = a.records
  BY DEF LoadReplay, Raised, Skipped
<1> QED BY <1>4, <1>5, <1>6 DEF instrument

\* The first and the last time of some records.
LEMMA SpanIn ==
  ASSUME NEW rs \in Seq(Records), rs # <<>>
  PROVE  Span(rs).start \in Nat /\ Span(rs).end \in Nat
<1> DEFINE n == Len(rs)
           time == [i \in 1 .. n |-> rs[i].ts]
           times == {r.ts : r \in Range(rs)}
<1>1. n \in Nat /\ n > 0 /\ DOMAIN rs = 1 .. n /\ \A i \in 1 .. n : rs[i] \in Records
  OBVIOUS
<1>2. \A i \in 1 .. n : rs[i].ts \in Nat
  BY <1>1 DEF Records
<1>3. times = {time[i] : i \in 1 .. n}
  BY <1>1 DEF Range
<1>4. times \in SUBSET Nat /\ times # {}
  <2>1. 1 \in 1 .. n
    BY <1>1
  <2> QED BY <2>1, <1>2, <1>3
<1>5. IsFiniteSet(times)
  <2>1. IsFiniteSet(1 .. n) /\ DOMAIN time = 1 .. n
    BY <1>1, FS_Interval
  <2>2. IsFiniteSet({time[x] : x \in DOMAIN time})
    <3> HIDE DEF time
    <3> QED BY <2>1, ImageFinite
  <2> HIDE DEF time
  <2> QED BY <2>1, <2>2, <1>3
<1>6. Span(rs) = IF times = {} THEN [start |-> None, end |-> None] ELSE [start |-> Min(times), end |-> Max(times)]
  BY DEF Span
<1> HIDE DEF times
<1>7. Max(times) \in times
  <2>1. times \in SUBSET Int
    BY <1>4
  <2> QED BY <2>1, <1>4, <1>5, MaxIn
<1>8. Min(times) \in times
  <2>1. \E m \in times : \A k \in times : m <= k
    BY <1>4, LeastNumber
  <2> QED BY <2>1 DEF Min
<1>9. Span(rs) = [start |-> Min(times), end |-> Max(times)]
  BY <1>4, <1>6
<1>10. Min(times) \in Nat /\ Max(times) \in Nat
  BY <1>4, <1>7, <1>8
<1> QED BY <1>9, <1>10

\* build_backtest_run_state: a run that is not said to have ended early has a coverage of 1.
LEMMA WentThrough ==
  ASSUME NEW sim, sim.records \in Seq(Records), sim.records # <<>>,
         NEW end \in Nat \union {None}, NEW forced \in BOOLEAN
  PROVE  Through(RunState(sim, end, forced))
<1> DEFINE loaded == Span(sim.records)
           planned == [start |-> OrElse(sim.requested.start, loaded.start),
                       end |-> OrElse(sim.requested.end, loaded.end)]
           through == IF end = None /\ forced THEN planned.start ELSE end
           state == RunState(sim, end, forced)
<1>1. loaded.start \in Nat /\ loaded.end \in Nat
  BY SpanIn
<1>2. /\ state.through = through /\ state.coverage = Coverage(loaded, through)
      /\ state.terminated = (forced \/ (loaded.end # None /\ through # None /\ through < loaded.end))
  BY DEF RunState
<1> SUFFICES ASSUME ~state.terminated, state.through # None
             PROVE  state.coverage.num = state.coverage.den
  BY DEF Through
<1> HIDE DEF state
<1>3. ~forced /\ through = end /\ through \in Nat
  BY <1>2 DEF None
<1> HIDE DEF through, loaded
<1>4. ~(through < loaded.end)
  <2>1. ~(loaded.end # None /\ through # None /\ through < loaded.end)
    BY <1>2
  <2>2. loaded.end # None /\ through # None
    BY <1>1, <1>3 DEF None
  <2> QED BY <2>1, <2>2
<1>5. Max({through, loaded.start}) \in Nat /\ Max({through, loaded.start}) >= loaded.end
  <2>1. \E x \in {through, loaded.start} : \A y \in {through, loaded.start} : x >= y
    BY <1>1, <1>3
  <2> DEFINE m == Max({through, loaded.start})
  <2>2. m \in {through, loaded.start} /\ \A y \in {through, loaded.start} : m >= y
    BY <2>1 DEF Max
  <2> HIDE DEF m
  <2>3. m \in Nat /\ m >= through
    BY <2>2, <1>1, <1>3
  <2>4. m >= loaded.end
    BY <2>3, <1>1, <1>3, <1>4
  <2> QED BY <2>3, <2>4 DEF m
<1>6. Min({Max({through, loaded.start}), loaded.end}) = loaded.end
  <2> DEFINE m == Max({through, loaded.start})
  <2> HIDE DEF m
  <2>1. m \in Nat /\ m >= loaded.end
    BY <1>5 DEF m
  <2>2. \A x \in {m, loaded.end} : (\A y \in {m, loaded.end} : x <= y) => x = loaded.end
    BY <2>1, <1>1
  <2>3. \E x \in {m, loaded.end} : \A y \in {m, loaded.end} : x <= y
    BY <2>1, <1>1
  <2>4. Min({m, loaded.end}) = loaded.end
    BY <2>2, <2>3 DEF Min
  <2> QED BY <2>4 DEF m
<1> QED BY <1>1, <1>2, <1>3, <1>6 DEF Coverage, None

\* A list of replays whose markets have histories.
Replays(replays) ==
  /\ IsList(replays)
  /\ \A i \in DOMAIN replays : History[<<replays[i].market, replays[i].token>>] \in Seq(Records)

\* No results are those of any replays.
LEMMA OwnNothing ==
  ASSUME NEW replays, NEW n \in Nat
  PROVE  Own(<<>>, replays, n)
<1> DEFINE place == [i \in 1 .. 0 |-> 0]
<1>1. IsList(<<>>) /\ Len(<<>>) = 0
  BY DEF IsList
<1>2. InTheirPlaces(<<>>, replays, n, place)
  <2>1. place \in [1 .. Len(<<>>) -> 1 .. n] /\ \A i \in 1 .. Len(<<>>) : FALSE
    BY <1>1
  <2> HIDE DEF place
  <2> QED BY <2>1 DEF InTheirPlaces
<1> HIDE DEF place
<1> QED BY <1>1, <1>2 DEF Own

\* build_market_artifacts: alone under its market, a replay finds its own artifacts there.
LEMMA ArtifactsOwn ==
  ASSUME NEW loaded, NEW i \in DOMAIN loaded, i \in Nat,
         \A j \in DOMAIN loaded : loaded[j].market = loaded[i].market => j = i
  PROVE  MarketArtifacts(loaded)[loaded[i].market] = loaded[i].instrument
<1> DEFINE keys == [j \in DOMAIN loaded |-> loaded[j].market]
           values == [j \in DOMAIN loaded |-> loaded[j].instrument]
           k == loaded[i].market
           Is(j) == keys[j] = k /\ \A l \in DOMAIN keys : keys[l] = k => l <= j
<1>1. MarketArtifacts(loaded)[k] = values[CHOOSE j \in DOMAIN keys : Is(j)]
  <2>1. k \in {keys[j] : j \in DOMAIN keys}
    OBVIOUS
  <2> QED BY <2>1 DEF MarketArtifacts, DictOf
<1>2. i \in DOMAIN keys /\ Is(i) /\ \A j \in DOMAIN keys : Is(j) => j = i
  OBVIOUS
<1>3. values[i] = loaded[i].instrument
  OBVIOUS
<1> HIDE DEF keys, values, Is
<1>4. (CHOOSE j \in DOMAIN keys : Is(j)) = i
  BY <1>2
<1> QED BY <1>1, <1>3, <1>4 DEF k

\* run_async: the results are those of the replays that were loaded, in their order.
LEMMA BacktestOwn ==
  ASSUME NEW replays, Replays(replays), NEW o \in Outcomes(replays)
  PROVE  Own(o.results, replays, Len(replays))
<1>0. PICK series \in BOOLEAN, run \in Runs(replays) : \E answers :
        /\ \A i \in DOMAIN replays : answers[i] \in Answers(replays[i])
        /\ o = Backtest(replays, StrategyConfigs, Request, Now, series, answers, run)
  BY OutcomeOf
<1>1. PICK answers :
        /\ \A i \in DOMAIN replays : answers[i] \in Answers(replays[i])
        /\ o = Backtest(replays, StrategyConfigs, Request, Now, series, answers, run)
  BY <1>0
<1>2. PICK engine \in EngineRuns : run.end = engine.end /\ run.forced = engine.forced
  BY RunOfEngine
<1> DEFINE n == Len(replays)
<1>3. DOMAIN replays = 1 .. n /\ n \in Nat
  BY DEF Replays, IsList
<1> DEFINE loads == [i \in DOMAIN replays |-> LoadReplay(replays[i].adapter, replays[i], Request, Now, answers[i])]
           places == {i \in DOMAIN loads : loads[i].status = "loaded"}
           loaded == Keep(loads, LAMBDA l : l.status = "loaded")
           played == [run EXCEPT !.fills = [x \in DOMAIN @ |-> IF x \in Traded(StrategyConfigs, loaded) THEN @[x] ELSE 0]]
<1>4. \A i \in places : /\ loads[i].market = replays[i].market
                        /\ loads[i].instrument = <<replays[i].market, replays[i].token>>
                        /\ loads[i].records \in Seq(Records) /\ loads[i].records # <<>>
  <2> TAKE i \in places
  <2>1. i \in DOMAIN replays /\ loads[i].status = "loaded"
        /\ loads[i] = LoadReplay(replays[i].adapter, replays[i], Request, Now, answers[i])
    OBVIOUS
  <2>2. answers[i] \in Answers(replays[i])
    BY <2>1, <1>1
  <2>3. History[<<replays[i].market, replays[i].token>>] \in Seq(Records)
    BY <2>1 DEF Replays
  <2> HIDE DEF loads, places
  <2> QED BY <2>1, <2>2, <2>3, LoadedOwn
<1>5. PICK at : PicksUpTo(loaded, loads, places, at, Len(loads)) /\ Len(loaded) \in Nat /\ DOMAIN loaded = 1 .. Len(loaded)
  <2> DEFINE T == {loads[i] : i \in DOMAIN loads}
  <2>1. DOMAIN loads = 1 .. n /\ loads = [i \in 1 .. n |-> loads[i]] /\ \A i \in 1 .. n : loads[i] \in T
    BY <1>3
  <2>2. loaded = Picked(loads, places) /\ places \in SUBSET DOMAIN loads
    BY DEF Keep
  <2> HIDE DEF loads, places, loaded, T
  <2>3. loads \in Seq(T)
    BY <2>1, <1>3, ListOf
  <2>4. loaded \in Seq(T) /\ \E at : PicksUpTo(loaded, loads, places, at, Len(loads))
    BY <2>2, <2>3, PickedInOrder
  <2> QED BY <2>4
<1>6. played.end \in Nat \union {None} /\ played.forced \in BOOLEAN
  <2>1. {"end", "forced"} \subseteq DOMAIN run
    BY DEF Runs, EngineRun
  <2>2. played.end = run.end /\ played.forced = run.forced
    BY <2>1
  <2> QED BY <2>2, <1>2, ExperimentsAssumption
<1> DEFINE m == Len(loaded)
<1>7. \A i \in 1 .. m : at[i] \in places /\ at[i] \in 1 .. n /\ loaded[i] = loads[at[i]]
  <2>1. places \subseteq 1 .. n
    BY <1>3
  <2> HIDE DEF places, loads, loaded
  <2> QED BY <1>5, <2>1 DEF PicksUpTo
<1>8. \A i, j \in 1 .. m : i < j => at[i] < at[j]
  <2> HIDE DEF places, loads, loaded
  <2> QED BY <1>5 DEF PicksUpTo
<1>9. o.results = <<>> \/ o.results = BuildResults(loaded, played, series)
  BY <1>1 DEF Backtest
<1> HIDE DEF places, loads, loaded, played
<1>10. \A i \in 1 .. m : /\ loaded[i].market = replays[at[i]].market
                         /\ loaded[i].instrument = <<replays[at[i]].market, replays[at[i]].token>>
                         /\ loaded[i].records \in Seq(Records) /\ loaded[i].records # <<>>
  BY <1>4, <1>7
<1>11. CASE o.results = <<>>
  BY <1>3, <1>11, OwnNothing
<1>12. CASE o.results = BuildResults(loaded, played, series)
  <2> DEFINE rs == BuildResults(loaded, played, series)
  <2>1. rs = [i \in 1 .. m |-> rs[i]] /\ DOMAIN rs = 1 .. m
    BY <1>5 DEF BuildResults
  <2>2. \A i \in 1 .. m :
          /\ {"market", "instrument", "events", "state", "pnl", "exit"} \subseteq DOMAIN rs[i]
          /\ rs[i].market = loaded[i].market /\ rs[i].instrument = loaded[i].instrument
          /\ rs[i].events = IF series THEN MarketArtifacts(loaded)[loaded[i].market] ELSE loaded[i].instrument
          /\ rs[i].state = RunState(loaded[i], played.end, played.forced)
    BY <1>5 DEF BuildResults
  <2> HIDE DEF rs, m
  <2>3. IsList(rs) /\ Len(rs) = m
    <3>1. rs \in Seq({rs[i] : i \in 1 .. m})
      <4>1. m \in Nat /\ \A i \in 1 .. m : rs[i] \in {rs[j] : j \in 1 .. m}
        BY <1>5 DEF m
      <4> QED BY <2>1, <4>1, ListOf
    <3>2. Len(rs) \in Nat /\ DOMAIN rs = 1 .. Len(rs) /\ m \in Nat
      BY <3>1, <1>5 DEF m
    <3>3. Len(rs) = m
      BY <3>2, <2>1
    <3> QED BY <3>1, <3>3 DEF IsList
  <2>4. ASSUME NEW i \in 1 .. m
        PROVE  Fits(rs[i], replays, at[i])
    <3>1. SUFFICES ASSUME \A j \in DOMAIN replays \ {at[i]} : replays[j].market # replays[at[i]].market
                   PROVE  rs[i].events = rs[i].instrument
      BY <1>10, <2>2 DEF Fits
    <3>2. \A j \in DOMAIN loaded : loaded[j].market = loaded[i].market => j = i
      <4> SUFFICES ASSUME NEW j \in 1 .. m, loaded[j].market = loaded[i].market, j # i PROVE FALSE
        BY <1>5 DEF m
      <4>1. at[j] = at[i]
        BY <1>3, <1>7, <1>10, <3>1
      <4>2. j < i \/ i < j
        BY <1>5 DEF m
      <4>3. at[j] \in Nat /\ at[i] \in Nat
        BY <1>7
      <4> QED BY <4>1, <4>2, <4>3, <1>8
    <3>3. MarketArtifacts(loaded)[loaded[i].market] = loaded[i].instrument
      <4>1. i \in DOMAIN loaded /\ i \in Nat
        BY <1>5 DEF m
      <4> QED BY <3>2, <4>1, ArtifactsOwn
    <3> QED BY <2>2, <3>3
  <2>5. \A i \in 1 .. m : Through(rs[i].state)
    BY <1>6, <1>10, <2>2, WentThrough
  <2>6. at \in [1 .. m -> 1 .. n]
    <3>1. at = [i \in 1 .. m |-> at[i]]
      BY <1>5 DEF PicksUpTo, m
    <3> QED BY <3>1, <1>7
  <2>7. InTheirPlaces(rs, replays, n, at)
    BY <2>3, <2>4, <2>5, <2>6, <1>8 DEF InTheirPlaces
  <2> QED BY <2>3, <2>7, <1>12 DEF Own, rs
<1> QED BY <1>9, <1>11, <1>12

-----------------------------------------------------------------------------
(* Their order, step by step                                                *)

\* At most one result for each replay.
LEMMA OwnFewer ==
  ASSUME NEW rs, NEW replays, NEW n \in Nat, Own(rs, replays, n)
  PROVE  Len(rs) \in Nat /\ Len(rs) <= n
<1>1. Len(rs) \in Nat
  BY DEF Own, IsList
<1>2. PICK place : InTheirPlaces(rs, replays, n, place)
  BY DEF Own
<1> DEFINE m == Len(rs)
<1>3. place \in [1 .. m -> 1 .. n] /\ \A i, j \in 1 .. m : i < j => place[i] < place[j]
  BY <1>2 DEF InTheirPlaces
<1> HIDE DEF m
<1>4. m \in Nat /\ \A i \in 1 .. m : place[i] \in Nat
  BY <1>1, <1>3 DEF m
<1>5. place \in Injection(1 .. m, 1 .. n)
  <2>1. \A i, j \in 1 .. m : place[i] = place[j] => i = j
    <3> SUFFICES ASSUME NEW i \in 1 .. m, NEW j \in 1 .. m, place[i] = place[j], i # j PROVE FALSE
      OBVIOUS
    <3>1. i < j \/ j < i
      BY <1>4
    <3>2. place[i] \in Nat /\ place[j] \in Nat
      BY <1>4
    <3> QED BY <3>1, <3>2, <1>3
  <2> QED BY <2>1, <1>3 DEF Injection, IsInjective
<1>6. IsFiniteSet(1 .. m) /\ Cardinality(1 .. m) = m /\ IsFiniteSet(1 .. n) /\ Cardinality(1 .. n) = n
  BY <1>4, FS_Interval
<1>7. Cardinality(1 .. m) <= Cardinality(1 .. n)
  BY <1>5, <1>6, FS_Injection
<1> QED BY <1>1, <1>6, <1>7 DEF m

\* The result of the next replay, or none, comes behind those of the replays before it.
LEMMA OwnAdded ==
  ASSUME NEW rs, NEW replays, IsList(replays), NEW n \in 1 .. Len(replays), Own(rs, replays, n - 1),
         NEW more, Own(more, <<replays[n]>>, 1)
  PROVE  Own(rs \o more, replays, n)
<1>1. n \in Nat /\ n - 1 \in Nat
  BY DEF IsList
<1>2. Len(rs) \in Nat /\ Len(more) \in Nat /\ Len(more) <= 1
  BY <1>1, OwnFewer
<1>3. PICK place : InTheirPlaces(rs, replays, n - 1, place)
  BY DEF Own
<1>4. PICK only : InTheirPlaces(more, <<replays[n]>>, 1, only)
  BY DEF Own
<1> DEFINE all == rs \o more
           m == Len(rs)
           at == [i \in 1 .. Len(all) |-> IF i <= m THEN place[i] ELSE n]
<1>5. IsList(all) /\ Len(all) = m + Len(more)
      /\ \A i \in 1 .. Len(all) : all[i] = IF i <= m THEN rs[i] ELSE more[i - m]
  <2>1. PICK S : rs \in Seq(S)
    BY DEF Own, IsList
  <2>2. PICK T : more \in Seq(T)
    BY DEF Own, IsList
  <2>3. rs \in Seq(S \union T) /\ more \in Seq(S \union T)
    BY <2>1, <2>2
  <2> QED BY <2>3 DEF IsList
<1> HIDE DEF all, m
<1>6. \A i \in 1 .. m : place[i] \in 1 .. n - 1 /\ Fits(rs[i], replays, place[i]) /\ Through(rs[i].state)
  BY <1>3 DEF InTheirPlaces, m
<1>7. \A i, j \in 1 .. m : i < j => place[i] < place[j]
  BY <1>3 DEF InTheirPlaces, m
<1>8. ASSUME Len(more) = 1
      PROVE  Fits(more[1], replays, n) /\ Through(more[1].state)
  <2>1. only[1] = 1 /\ Fits(more[1], <<replays[n]>>, only[1]) /\ Through(more[1].state)
    BY <1>4, <1>8 DEF InTheirPlaces
  <2>2. Fits(more[1], <<replays[n]>>, 1)
    BY <2>1
  <2>3. DOMAIN <<replays[n]>> \ {1} = {} /\ <<replays[n]>>[1] = replays[n]
    OBVIOUS
  <2> QED BY <2>1, <2>2, <2>3 DEF Fits
<1>9. \A i \in 1 .. Len(all) : i \in 1 .. m \/ (i = m + 1 /\ Len(more) = 1)
  <2>0. \A c \in Nat : c <= 1 => c = 0 \/ c = 1
    OBVIOUS
  <2>1. m \in Nat /\ (Len(more) = 0 \/ Len(more) = 1)
    BY <2>0, <1>2 DEF m
  <2>2. Len(all) = m \/ (Len(all) = m + 1 /\ Len(more) = 1)
    BY <2>1, <1>5
  <2> QED BY <2>1, <2>2
<1>10. InTheirPlaces(all, replays, n, at)
  <2>1. \A i \in 1 .. Len(all) : at[i] \in 1 .. n /\ Fits(all[i], replays, at[i]) /\ Through(all[i].state)
    <3> TAKE i \in 1 .. Len(all)
    <3>1. CASE i \in 1 .. m
      <4>1. at[i] = place[i] /\ all[i] = rs[i]
        BY <3>1, <1>5
      <4>2. place[i] \in 1 .. n
        BY <3>1, <1>6, <1>1
      <4> HIDE DEF at
      <4> QED BY <4>1, <4>2, <3>1, <1>6
    <3>2. CASE i = m + 1 /\ Len(more) = 1
      <4>1. m \in Nat /\ ~(i <= m) /\ i - m = 1
        BY <3>2, <1>2 DEF m
      <4>2. at[i] = n /\ all[i] = more[1]
        BY <4>1, <1>5
      <4> HIDE DEF at
      <4> QED BY <4>2, <3>2, <1>1, <1>8
    <3> QED BY <3>1, <3>2, <1>9
  <2>2. \A i, j \in 1 .. Len(all) : i < j => at[i] < at[j]
    <3> TAKE i \in 1 .. Len(all), j \in 1 .. Len(all)
    <3> HAVE i < j
    <3>0. m \in Nat
      BY <1>2 DEF m
    <3>1. i \in 1 .. m /\ at[i] = place[i]
      BY <1>9, <3>0
    <3>2. CASE j \in 1 .. m
      BY <3>1, <3>2, <1>7
    <3>3. CASE j = m + 1
      <4>1. at[j] = n /\ place[i] \in 1 .. n - 1
        BY <3>0, <3>1, <3>3, <1>6
      <4> HIDE DEF at
      <4> QED BY <4>1, <3>1, <1>1
    <3> QED BY <3>2, <3>3, <1>9
  <2>3. at \in [1 .. Len(all) -> 1 .. n]
    BY <2>1
  <2> HIDE DEF at
  <2> QED BY <2>1, <2>2, <2>3 DEF InTheirPlaces
<1> HIDE DEF at
<1> QED BY <1>5, <1>10 DEF Own, all

\* The settlement changes the PnL of a result and nothing else.
LEMMA OwnSettled ==
  ASSUME NEW rs, NEW replays, NEW n \in Nat, Own(rs, replays, n), NEW resolved
  PROVE  Own(Settled(rs, resolved), replays, n) /\ Len(Settled(rs, resolved)) = Len(rs)
<1> DEFINE new == Settled(rs, resolved)
           m == Len(rs)
<1>1. IsList(rs) /\ m \in Nat /\ DOMAIN rs = 1 .. m
  BY DEF Own, IsList
<1>2. PICK place : InTheirPlaces(rs, replays, n, place)
  BY DEF Own
<1>3. \A i \in 1 .. m : new[i] = IF rs[i].market \in resolved THEN [rs[i] EXCEPT !.pnl = "settled", !.exit = TRUE] ELSE rs[i]
  BY <1>1 DEF Settled
<1>4. new = [i \in 1 .. m |-> new[i]]
  BY <1>1 DEF Settled
<1> HIDE DEF new
<1>5. IsList(new) /\ Len(new) = m
  <2>1. \A i \in 1 .. m : new[i] \in {new[j] : j \in 1 .. m}
    OBVIOUS
  <2>2. new \in Seq({new[j] : j \in 1 .. m})
    BY <2>1, <1>1, <1>4, ListOf
  <2>3. Len(new) = m
    BY <1>1, <1>4
  <2> QED BY <2>2, <2>3 DEF IsList
<1>6. \A i \in 1 .. m : Fits(new[i], replays, place[i]) /\ Through(new[i].state)
  <2> TAKE i \in 1 .. m
  <2>1. Fits(rs[i], replays, place[i]) /\ Through(rs[i].state)
    BY <1>2 DEF InTheirPlaces
  <2>2. {"market", "instrument", "events", "state", "pnl", "exit"} \subseteq DOMAIN rs[i]
    BY <2>1 DEF Fits
  <2>3. /\ DOMAIN new[i] = DOMAIN rs[i] /\ new[i].market = rs[i].market /\ new[i].instrument = rs[i].instrument
        /\ new[i].events = rs[i].events /\ new[i].state = rs[i].state
    BY <1>3, <2>2
  <2> QED BY <2>1, <2>3 DEF Fits
<1>7. InTheirPlaces(new, replays, n, place)
  BY <1>2, <1>5, <1>6 DEF InTheirPlaces
<1> QED BY <1>5, <1>7 DEF Own, new

\* Results so far, and what a child made or answers, are of the replays whose turn was and is.
OwnInv ==
  /\ kind = "search" => sims = <<>> /\ results = <<>> /\ outcome = "running"
  /\ kind # "search" =>
       /\ Replays(sims) /\ sims \in Portfolios /\ turn \in 1 .. Len(sims) + 1
       /\ Own(results, sims, turn - 1)
       /\ outcome = "whole" => Len(results) = Len(sims)
       /\ pc # "ready" => ~InProcess /\ turn <= Len(sims)
       /\ made.status = "ok" => pc # "ready" /\ Own(made.results, <<sims[turn]>>, 1)
       /\ pc = "answered" => answer.status \in {"ok", "error"}

\* A portfolio is a list of replays.
LEMMA PortfolioReplays ==
  ASSUME NEW p \in Portfolios
  PROVE  Replays(p) /\ \A i \in DOMAIN p : Replays(<<p[i]>>)
<1>1. p \in Seq(Range(p)) /\ \A r \in Range(p) : History[<<r.market, r.token>>] \in Seq(Records)
  BY ExperimentsAssumption DEF Records
<1>2. \A i \in DOMAIN p : p[i] \in Range(p)
  BY DEF Range
<1>3. \A i \in DOMAIN p : IsList(<<p[i]>>) /\ <<p[i]>>[1] = p[i] /\ \A j \in DOMAIN <<p[i]>> : j = 1
  <2> TAKE i \in DOMAIN p
  <2>1. \A x : <<x>> \in Seq({x}) /\ <<x>>[1] = x /\ \A j \in DOMAIN <<x>> : j = 1
    OBVIOUS
  <2> QED BY <2>1 DEF IsList
<1> QED BY <1>1, <1>2, <1>3 DEF Replays, IsList

\* No results at the start.
LEMMA OwnStart == Init => OwnInv
<1> SUFFICES ASSUME Init PROVE OwnInv
  OBVIOUS
<1>1. pc = "ready" /\ made = NoOutcome /\ turn = 1 /\ results = <<>> /\ outcome = "running"
  BY DEF Init, WorkerInit
<1>2. CASE kind = "search"
  BY <1>1, <1>2 DEF Init, OwnInv
<1>3. CASE kind # "search"
  <2>1. sims \in Portfolios
    BY <1>3 DEF Init
  <2>2. Replays(sims)
    BY <2>1, PortfolioReplays
  <2>3. Len(sims) \in Nat
    BY <2>2 DEF Replays, IsList
  <2>4. Own(results, sims, turn - 1)
    <3>1. turn - 1 = 0
      BY <1>1
    <3> QED BY <3>1, <1>1, OwnNothing
  <2> QED BY <1>1, <1>3, <2>1, <2>2, <2>3, <2>4 DEF OwnInv, NoOutcome
<1> QED BY <1>2, <1>3

\* The steps of a child and of the parent until it has the answer.
LEMMA OwnStays ==
  ASSUME OwnInv, UNCHANGED experimentVars,
         kind # "search" =>
           /\ pc' # "ready" => pc # "ready"
           /\ made'.status = "ok" => pc' # "ready" /\ Own(made'.results, <<sims[turn]>>, 1)
           /\ pc' = "answered" => answer'.status \in {"ok", "error"}
  PROVE  OwnInv'
<1>1. kind' = kind /\ sims' = sims /\ turn' = turn /\ results' = results /\ outcome' = outcome
  BY DEF experimentVars
<1>2. InProcess' = InProcess
  BY <1>1 DEF InProcess
<1> QED BY <1>1, <1>2 DEF OwnInv

\* A replay by itself makes results of its own.
LEMMA AloneOwn ==
  ASSUME OwnInv, kind # "search", turn <= Len(sims), NEW b \in OutcomesAlone, b[1] = sims[turn]
  PROVE  Own(b[2].results, <<sims[turn]>>, 1)
<1>1. PICK replay : \E o \in Outcomes(<<replay>>) : b = <<replay, o>>
  BY DEF OutcomesAlone
<1>2. b[2] \in Outcomes(<<sims[turn]>>)
  BY <1>1
<1>3. sims \in Portfolios /\ turn \in DOMAIN sims
  BY DEF OwnInv, Replays, IsList
<1>4. Replays(<<sims[turn]>>)
  BY <1>3, PortfolioReplays
<1>5. \A x : Len(<<x>>) = 1
  OBVIOUS
<1>6. Own(b[2].results, <<sims[turn]>>, Len(<<sims[turn]>>))
  BY <1>2, <1>4, BacktestOwn
<1> QED BY <1>5, <1>6

\* Every step of an experiment keeps OwnInv.
LEMMA OwnStep ==
  ASSUME WorkerInv, OwnInv, [Next]_vars
  PROVE  OwnInv'
<1>1. CASE kind = "search"
  <2>1. UNCHANGED experimentVars
    BY <1>1 DEF Next, Searches, RunWindow, RunTogether, BeginReplay, RunReplay, TakeReplay, Finalize,
                Parent, Child, Dies, vars, ReplaysGo
  <2> QED BY <1>1, <2>1 DEF OwnInv, experimentVars
<1>2. CASE kind # "search"
  <2>0. /\ Replays(sims) /\ sims \in Portfolios /\ turn \in 1 .. Len(sims) + 1 /\ Len(sims) \in Nat
        /\ Own(results, sims, turn - 1) /\ (outcome = "whole" => Len(results) = Len(sims))
        /\ (pc # "ready" => ~InProcess /\ turn <= Len(sims))
        /\ (made.status = "ok" => pc # "ready" /\ Own(made.results, <<sims[turn]>>, 1))
        /\ (pc = "answered" => answer.status \in {"ok", "error"})
    BY <1>2 DEF OwnInv, Replays, IsList
  <2>1. CASE RunTogether
    <3>1. PICK b \in OutcomesTogether :
            /\ b[1] = sims
            /\ \/ b[2].status = "error" /\ outcome' = "raised" /\ UNCHANGED <<turn, results>>
               \/ results' = b[2].results /\ turn' = Len(sims) + 1 /\ UNCHANGED outcome
      BY <2>1 DEF RunTogether
    <3>2. /\ kind' = kind /\ sims' = sims /\ InProcess /\ outcome = "running" /\ UNCHANGED workerVars
      BY <2>1 DEF RunTogether, ReplaysGo
    <3>3. /\ pc' = "ready" /\ pc = "ready" /\ made'.status # "ok"
      BY <2>0, <3>2 DEF workerVars
    <3>4. b[2] \in Outcomes(sims)
      <4>1. PICK p : \E o \in Outcomes(p) : b = <<p, o>>
        BY DEF OutcomesTogether
      <4> QED BY <3>1, <4>1
    <3>5. Own(b[2].results, sims, Len(sims))
      BY <2>0, <3>4, BacktestOwn
    <3>6. CASE outcome' = "raised" /\ UNCHANGED <<turn, results>>
      BY <1>2, <2>0, <3>2, <3>3, <3>6 DEF OwnInv
    <3>7. CASE results' = b[2].results /\ turn' = Len(sims) + 1 /\ UNCHANGED outcome
      <4>1. turn' - 1 = Len(sims) /\ turn' \in 1 .. Len(sims) + 1
        BY <2>0, <3>7
      <4>2. Own(results', sims', turn' - 1) /\ outcome' = "running"
        BY <3>2, <3>5, <3>7, <4>1
      <4> QED BY <1>2, <2>0, <3>2, <3>3, <4>1, <4>2 DEF OwnInv
    <3> QED BY <3>1, <3>6, <3>7
  <2>2. CASE BeginReplay
    <3>1. ~InProcess /\ turn <= Len(sims) /\ Spawn(<<turn>>) /\ UNCHANGED experimentVars
      BY <2>2 DEF BeginReplay
    <3>2. pc' # "ready" /\ made'.status # "ok" /\ (pc' = "answered" => answer'.status = "error")
      BY <3>1 DEF Spawn, NoOutcome, Failure
    <3>3. InProcess' = InProcess
      BY <3>1 DEF InProcess, experimentVars
    <3> QED BY <1>2, <2>0, <3>1, <3>2, <3>3 DEF OwnInv, experimentVars
  <2>3. CASE RunReplay
    <3>1. PICK b \in OutcomesAlone : b[1] = sims[turn] /\ ChildRuns(b[2])
      BY <2>3 DEF RunReplay
    <3>2. pc # "ready" /\ UNCHANGED experimentVars
      BY <2>3 DEF RunReplay, WorkerInv, PlacesOK
    <3>3. Own(b[2].results, <<sims[turn]>>, 1)
      BY <1>2, <2>0, <3>1, <3>2, AloneOwn
    <3>4. pc' = pc /\ made' = b[2] /\ answer' = answer
      BY <3>1 DEF ChildRuns
    <3> QED BY <2>0, <3>2, <3>3, <3>4, OwnStays
  <2>4. CASE TakeReplay
    <3>1. /\ pc = "answered" /\ pc' = "ready" /\ made' = NoOutcome /\ kind' = kind /\ sims' = sims
          /\ outcome = "running"
          /\ \/ answer.status = "error" /\ outcome' = "raised" /\ UNCHANGED <<turn, results>>
             \/ /\ answer.status # "error"
                /\ results' = results \o answer.results /\ turn' = turn + 1 /\ UNCHANGED outcome
      BY <2>4 DEF TakeReplay, Taken, ReplaysGo
    <3>2. CASE answer.status = "error" /\ outcome' = "raised" /\ UNCHANGED <<turn, results>>
      BY <1>2, <2>0, <3>1, <3>2 DEF OwnInv, NoOutcome
    <3>3. CASE /\ answer.status # "error"
               /\ results' = results \o answer.results /\ turn' = turn + 1 /\ UNCHANGED outcome
      <4>1. answer = made /\ made.status = "ok"
        BY <2>0, <3>1, <3>3 DEF WorkerInv, AnswersWhole
      <4>2. turn \in 1 .. Len(sims) /\ IsList(sims) /\ turn' - 1 = turn
        BY <2>0, <3>1, <3>3 DEF Replays
      <4>3. Own(results', sims, turn)
        BY <2>0, <3>3, <4>1, <4>2, OwnAdded
      <4>4. turn' \in 1 .. Len(sims) + 1 /\ Own(results', sims', turn' - 1) /\ outcome' = "running"
        BY <2>0, <3>1, <3>3, <4>2, <4>3
      <4> QED BY <1>2, <2>0, <3>1, <4>4 DEF OwnInv, NoOutcome
    <3> QED BY <3>1, <3>2, <3>3
  <2>5. CASE Finalize
    <3>1. /\ turn > Len(sims) /\ kind' = kind /\ sims' = sims /\ turn' = turn /\ UNCHANGED workerVars
      BY <2>5 DEF Finalize
    <3>2. turn - 1 = Len(sims) /\ pc = "ready" /\ pc' = "ready" /\ made'.status # "ok"
      BY <2>0, <3>1 DEF workerVars
    <3>3. Len(results) \in Nat /\ Len(results) <= Len(sims)
      BY <2>0, <3>2, OwnFewer
    <3>4. CASE results = <<>> /\ outcome' = "empty" /\ results' = results
      BY <1>2, <2>0, <3>1, <3>2, <3>4 DEF OwnInv
    <3>5. CASE /\ outcome' = IF Len(results) < Len(sims) THEN "partial" ELSE "whole"
               /\ \E resolved \in SUBSET {r.market : r \in Range(results)} : results' = Settled(results, resolved)
      <4>1. PICK resolved : results' = Settled(results, resolved)
        BY <3>5
      <4>2. Own(results', sims, Len(sims)) /\ Len(results') = Len(results)
        BY <2>0, <3>2, <4>1, OwnSettled
      <4>3. outcome' = "whole" => Len(results') = Len(sims)
        BY <2>0, <3>3, <3>5, <4>2
      <4> QED BY <1>2, <2>0, <3>1, <3>2, <4>2, <4>3 DEF OwnInv
    <3> QED BY <2>5, <3>4, <3>5 DEF Finalize
  <2>6. CASE Parent
    <3>1. UNCHANGED experimentVars /\ pc # "ready" /\ made' = made
      BY <2>6 DEF Parent, ParentSteps, ParentCloses, Receive, Join, Load
    <3>2. pc' # "ready" /\ (pc' = "answered" => answer'.status \in {"ok", "error"})
      BY <2>6 DEF Parent, ParentSteps, ParentCloses, Receive, Join, Load, Failure
    <3> QED BY <2>0, <3>1, <3>2, OwnStays
  <2>7. CASE Child \/ Dies
    <3>1. UNCHANGED experimentVars /\ pc' = pc /\ made' = made /\ answer' = answer
      BY <2>7 DEF Child, Dies, ChildSteps, ChildWrites, ChildSends, ChildCloses, ChildExits, ChildDies
    <3> QED BY <2>0, <3>1, OwnStays
  <2>8. CASE UNCHANGED vars
    <3>1. UNCHANGED experimentVars /\ pc' = pc /\ made' = made /\ answer' = answer
      BY <2>8 DEF vars, workerVars
    <3> QED BY <2>0, <3>1, OwnStays
  <2>9. ~Searches /\ ~RunWindow
    BY <1>2 DEF Searches, RunWindow
  <2> QED BY <2>1, <2>2, <2>3, <2>4, <2>5, <2>6, <2>7, <2>8, <2>9 DEF Next
<1> QED BY <1>1, <1>2

\* OwnInv says what ResultsOwn does.
LEMMA OwnTells == OwnInv => ResultsOwn
<1> SUFFICES ASSUME OwnInv PROVE ResultsOwn
  OBVIOUS
<1> DEFINE Instrument(i) == <<sims[i].market, sims[i].token>>
           Shared(i) == \E j \in DOMAIN sims \ {i} : sims[j].market = sims[i].market
<1>1. CASE kind = "search"
  <2>1. results = <<>> /\ DOMAIN results = {} /\ outcome # "whole"
    BY <1>1 DEF OwnInv
  <2> DEFINE place == [i \in {} |-> 0]
  <2>2. place \in [DOMAIN results -> DOMAIN sims]
    BY <2>1
  <2> HIDE DEF place
  <2> QED BY <2>1, <2>2 DEF ResultsOwn
<1>2. CASE kind # "search"
  <2>1. IsList(results) /\ IsList(sims) /\ turn \in 1 .. Len(sims) + 1
    BY <1>2 DEF OwnInv, Own, Replays
  <2>2. DOMAIN results = 1 .. Len(results) /\ DOMAIN sims = 1 .. Len(sims) /\ Len(sims) \in Nat
    BY <2>1 DEF IsList
  <2>3. PICK place : InTheirPlaces(results, sims, turn - 1, place)
    BY <1>2 DEF OwnInv, Own
  <2>4. place \in [DOMAIN results -> DOMAIN sims]
    <3>1. place \in [1 .. Len(results) -> 1 .. turn - 1]
      BY <2>3 DEF InTheirPlaces
    <3>2. 1 .. turn - 1 \subseteq 1 .. Len(sims)
      BY <2>1, <2>2
    <3> QED BY <3>1, <3>2, <2>2
  <2>5. \A i, j \in DOMAIN results : i < j => place[i] < place[j]
    BY <2>2, <2>3 DEF InTheirPlaces
  <2>6. \A i \in DOMAIN results : Fits(results[i], sims, place[i]) /\ Through(results[i].state)
    BY <2>2, <2>3 DEF InTheirPlaces
  <2>7. \A i \in DOMAIN results :
          /\ results[i].instrument = Instrument(place[i])
          /\ results[i].market = sims[place[i]].market
          /\ Shared(place[i]) \/ results[i].events = results[i].instrument
    BY <2>6 DEF Fits
  <2>8. outcome = "whole" => Len(results) = Len(sims)
    BY <1>2 DEF OwnInv
  <2>9. \A i \in DOMAIN results :
          ~results[i].state.terminated /\ results[i].state.through # None =>
            results[i].state.coverage.num = results[i].state.coverage.den
    BY <2>6 DEF Through
  <2> HIDE DEF Instrument, Shared
  <2>10. \E p \in [DOMAIN results -> DOMAIN sims] :
           /\ \A i, j \in DOMAIN results : i < j => p[i] < p[j]
           /\ \A i \in DOMAIN results :
                /\ results[i].instrument = Instrument(p[i])
                /\ results[i].market = sims[p[i]].market
                /\ Shared(p[i]) \/ results[i].events = results[i].instrument
    BY <2>4, <2>5, <2>7
  <2> QED BY <2>8, <2>9, <2>10 DEF ResultsOwn, Instrument, Shared
<1> QED BY <1>1, <1>2

\* In every state the results told (_independent_multi_replay_runner.py:72, artifacts.py:54) are
\* those of their own replays, in order, as ResultsOwn has it: for any portfolios, histories and
\* runs of the engine, and whatever the children of the replays do.
THEOREM ResultsRight == Spec => []ResultsOwn
<1>1. Init => WorkerInv /\ OwnInv
  BY WorkerInit1, OwnStart
<1>2. WorkerInv /\ OwnInv /\ [Next]_vars => (WorkerInv /\ OwnInv)'
  BY WorkerStep, OwnStep
<1>3. WorkerInv /\ OwnInv => ResultsOwn
  BY OwnTells
<1> QED BY <1>1, <1>2, <1>3, PTL DEF Spec
=============================================================================
