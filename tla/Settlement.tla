----------------------------- MODULE Settlement -----------------------------
(***************************************************************************)
(* What a replay says of its market once the simulation has ended: the     *)
(* outcome the metadata tells, and the result at settlement                *)
(* (adapters/prediction_market/backtest_utils.py).                         *)
(*                                                                         *)
(* Prices, outcomes and money are in cents.                                *)
(***************************************************************************)
EXTENDS Integers, Sequences, SequencesExt, Lists, TradeTicks

-----------------------------------------------------------------------------
(* The outcome                                                              *)

\* _resolved_outcome_from_result
FromResult(instrument) ==
  IF instrument.result \notin {"yes", "no"} \/ instrument.outcome \notin {"yes", "no"} THEN None
  ELSE IF instrument.outcome = instrument.result THEN 100 ELSE 0

\* _resolved_outcome_from_numeric_fields: a dollar value, or cents; of the two fields the
\* first that tells.  The outcome's name plays no part.
FromNumericFields(instrument) ==
  CASE instrument.settlement_value \in {0, 100} -> instrument.settlement_value
    [] instrument.settlement_value = 10000      -> 100
    [] OTHER                                    -> None

\* _resolved_outcome_from_tokens: the winner flag of the first token of the name.
FromTokens(instrument) ==
  LET named == Keep(instrument.tokens, LAMBDA t : t.outcome = instrument.outcome)
  IN  IF named = <<>> \/ instrument.outcome = "" THEN None
      ELSE IF named[1].winner THEN 100 ELSE 0

\* infer_realized_outcome: the first resolver that tells.
InferRealizedOutcome(instrument) ==
  IF instrument.is_50_50_outcome THEN None
  ELSE IF FromResult(instrument) # None THEN FromResult(instrument)
  ELSE IF FromNumericFields(instrument) # None THEN FromNumericFields(instrument)
  ELSE FromTokens(instrument)
-----------------------------------------------------------------------------
(* The result                                                               *)

\* extract_realized_pnl: cells that hold no number count as 0.
RealizedPnl(cells) ==
  LET total[n \in 0 .. Len(cells)] == IF n = 0 THEN 0 ELSE total[n - 1] + cells[n]
  IN  total[Len(cells)]

Settled(state, fill) ==
  CASE fill.quantity <= 0   -> state
    [] fill.quantity > 0 /\ fill.action = "buy" ->
         [cash |-> state.cash - fill.price * fill.quantity - fill.commission,
          open |-> state.open + fill.quantity]
    [] fill.quantity > 0 /\ fill.action = "sell" ->
         [cash |-> state.cash + fill.price * fill.quantity - fill.commission,
          open |-> state.open - fill.quantity]
    [] OTHER -> [state EXCEPT !.cash = @ - fill.commission]

\* compute_binary_settlement_pnl for a market whose outcome is known
BinarySettlementPnl(fills, outcome) ==
  LET state[n \in 0 .. Len(fills)] ==
        IF n = 0 THEN [cash |-> 0, open |-> 0] ELSE Settled(state[n - 1], fills[n])
  IN  state[Len(fills)].cash + outcome * state[Len(fills)].open

\* BinarySettlementPnlPolicy: the result of the simulation is kept beside the settled one.
WithSettlement(result) ==
  IF result.realized_outcome = None THEN result
  ELSE [result EXCEPT !.market_exit_pnl = result.pnl,
                      !.pnl = BinarySettlementPnl(result.fill_events, result.realized_outcome)]
=============================================================================
