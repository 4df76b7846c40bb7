--------------------------- MODULE MarketMetadata ---------------------------
(***************************************************************************)
(* From the answers of the venues to the instrument of one market          *)
(* (adapters/polymarket/gamma_markets.py, adapters/polymarket/loaders.py,  *)
(* adapters/kalshi/providers.py).                                          *)
(*                                                                         *)
(* Prices are in cents.  An outcome is the name in small letters, without  *)
(* blanks around it.  A flag of a market is "true", "false" or "none".     *)
(***************************************************************************)
EXTENDS Integers, Sequences, SequencesExt, FiniteSets, FiniteSetsExt, Lists, TradeTicks

\* _truthy_gamma_value of what Gamma sends for a flag
Truthy(raw) == raw \in {"true", "1", "yes", "y"}

\* _gamma_market_allows_price_winner_inference
AllowsPriceWinnerInference(gamma) ==
  /\ Truthy(gamma.closed) \/ Truthy(gamma.archived) \/ gamma.closedTime # None
  /\ gamma.umaResolutionStatus \in {"", "resolved", "settled", "finalized"}

\* A price that is no number counts as 0.
Prices(gamma) == [i \in DOMAIN gamma.outcomePrices |-> IF gamma.outcomePrices[i] = None THEN 0 ELSE gamma.outcomePrices[i]]

\* max(range(n), key = prices)
WinnerIndex(prices) ==
  FirstLeast([i \in DOMAIN prices |-> i], LAMBDA i, j : prices[i] > prices[j])

NoWinners == DictOf(<<>>, <<>>)

\* infer_gamma_token_winners: the winner of each outcome, and whether the market was split.
InferTokenWinners(gamma) ==
  LET prices == Prices(gamma)
      winner == WinnerIndex(prices)
  IN  IF gamma.outcomes = <<>> \/ prices = <<>> THEN [lookup |-> NoWinners, split |-> FALSE]
      ELSE IF \A i \in DOMAIN prices : prices[i] = 50 THEN [lookup |-> NoWinners, split |-> TRUE]
      ELSE IF ~AllowsPriceWinnerInference(gamma) \/ prices[winner] < 99
      THEN [lookup |-> NoWinners, split |-> FALSE]
      ELSE [lookup |-> DictOf(gamma.outcomes, [i \in DOMAIN gamma.outcomes |-> i = winner]),
            split  |-> FALSE]

\* build_markets_query: what is asked of the server; `is_active` stands for three filters.
BuildMarketsQuery(filters) ==
  LET active == IF Get(filters, "is_active", FALSE)
                THEN [active |-> TRUE, archived |-> FALSE, closed |-> FALSE] ELSE DictOf(<<>>, <<>>)
      given  == DOMAIN filters \cap {"active", "archived", "closed"}
  IN  [k \in given \union DOMAIN active |-> IF k \in given THEN filters[k] ELSE active[k]]

\* What the server answers to a query (external): the markets whose flags are the ones asked for.
Matching(markets, query) == Keep(markets, LAMBDA m : \A k \in DOMAIN query : m[k] = query[k])
-----------------------------------------------------------------------------
(* The loaders' factories                                                   *)

TokenIndexValid(tokens, index) == index \in DOMAIN tokens

\* Mutant of TokensWithWinners: a winner belongs to a place, not to an outcome.
TokensByPlace(tokens, gamma) ==
  LET prices == Prices(gamma)
  IN  [i \in DOMAIN tokens |->
         IF DOMAIN InferTokenWinners(gamma).lookup = {} THEN tokens[i]
         ELSE [tokens[i] EXCEPT !.winner = (i = WinnerIndex(prices))]]

\* from_market_slug: what Gamma's prices tell of an outcome replaces what the details say.
TokensWithWinners(tokens, gamma) ==
  LET lookup == InferTokenWinners(gamma).lookup
  IN  [i \in DOMAIN tokens |->
         [tokens[i] EXCEPT !.winner = Get(lookup, tokens[i].outcome, tokens[i].winner)]]

MarketDetails(details, gamma) ==
  [details EXCEPT !.tokens = TokensWithWinners(details.tokens, gamma),
                  !.is_50_50_outcome = InferTokenWinners(gamma).split \/ @]

\* _enrich_market_details_with_fee_rate asks only when the details name no fee.
FeeUnknown(details) == details.maker_base_fee <= 0 /\ details.taker_base_fee <= 0

WithFeeRate(details, bps) ==
  IF ~FeeUnknown(details) \/ bps = None THEN details
  ELSE [details EXCEPT !.maker_base_fee = 0, !.taker_base_fee = bps]

\* parse_polymarket_instrument (external): the instrument keeps the details as its info.
Instrument(details, index) ==
  [venue |-> "POLYMARKET", outcome |-> details.tokens[index].outcome,
   token |-> details.tokens[index].token_id, taker_fee |-> details.taker_base_fee, tick |-> 1,
   result |-> "", settlement_value |-> None, tokens |-> details.tokens, is_50_50_outcome |-> details.is_50_50_outcome]

\* from_event_slug: the markets of an event that have an identifier and tokens; one market
\* with fewer tokens than asked for fails them all.  Winners are what the details say.
EventMarkets(event) == Keep(event, LAMBDA m : m.conditionId # None /\ m.details.tokens # <<>>)

FromEventSlug(event, index) ==
  LET markets == EventMarkets(event)
  IN  IF markets = <<>> \/ \E i \in DOMAIN markets : ~TokenIndexValid(markets[i].details.tokens, index)
      THEN <<>>
      ELSE [i \in DOMAIN markets |-> Instrument(WithFeeRate(markets[i].details, markets[i].fee_rate_bps), index)]
-----------------------------------------------------------------------------
(* Kalshi                                                                   *)

KALSHI_TAKER_FEE_RATE == 700   \* basis points

\* _market_dict_to_instrument: no fee until the waiver of a market expires.
KalshiTakerFee(market, now) ==
  IF market.fee_waiver_expiration_time > now THEN 0 ELSE KALSHI_TAKER_FEE_RATE

KalshiInstrument(market, now) ==
  [venue |-> "KALSHI", outcome |-> "yes", token |-> market.ticker,
   taker_fee |-> KalshiTakerFee(market, now), tick |-> 1,
   result |-> market.result, settlement_value |-> market.settlement_value, tokens |-> <<>>,
   is_50_50_outcome |-> FALSE]
=============================================================================
