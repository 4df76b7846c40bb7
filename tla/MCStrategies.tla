---------------------------- MODULE MCStrategies ----------------------------
(* Every strategy on a handful of prices: windows of two, orders of two    *)
(* lots, fills in one piece or two.                                        *)
EXTENDS Strategies

Trade(price, aggressor) ==
  [bid |-> price, ask |-> price, size |-> 1, quote |-> FALSE, aggressor |-> aggressor]
Quote(bid, ask, size) == [bid |-> bid, ask |-> ask, size |-> size, quote |-> TRUE, aggressor |-> 0]

Trades == {Trade(p, 0) : p \in {40, 50, 60}}
Quotes == {Quote(38, 42, 2), Quote(48, 52, 0), Quote(58, 62, 1)}

MCTicks ==
  [k \in CoreKinds \union FlagKinds |->
     CASE k \in {"ema_crossover", "rsi_reversion"} -> Quotes
       [] k = "breakout"       -> {Quote(38, 42, 2), Quote(48, 52, 2), Quote(58, 62, 1)}
       [] k = "vwap_reversion" -> {Quote(38, 42, 2), Quote(38, 42, 3), Quote(58, 62, 1)}
       [] k = "late_favorite"  -> {Quote(38, 42, 2), Quote(88, 92, 1)}
       [] k = "blowout"        -> {Quote(38, 42, 2), Quote(88, 92, 2)}
       [] k \in {"ofi", "ofi_ma"} -> {Trade(30, 1), Trade(70, -1), Trade(30, 0)}
       [] OTHER -> Trades]

Base == [size |-> 2, fee |-> 0, tp |-> 15, sl |-> 15]
Flag == [fee |-> 0, window |-> 2, kelly |-> 50, cap |-> 2, minEdge |-> 3, maxEntry |-> 90,
         cooldown |-> 1, maxPositions |-> 1, discount |-> 2]

MCConfigs ==
  [k \in CoreKinds \union FlagKinds |->
     CASE k = "mean_reversion" -> [window |-> 2, entry |-> 3, exit |-> 0, fee |-> 7] @@ Base
       [] k = "ema_crossover"  -> [fast |-> 1, slow |-> 3, entry |-> 2] @@ Base
       [] k = "breakout"       -> [window |-> 2, std |-> 1, buffer |-> 3, exit |-> 3, minHolding |-> 1,
                                   cooldown |-> 2, maxEntry |-> 90] @@ Base
       [] k = "panic_fade"     -> [window |-> 2, panic |-> 40, minDrop |-> 10, rebound |-> 60,
                                   maxHolding |-> 2, tp |-> 0, sl |-> 0] @@ Base
       [] k = "rsi_reversion"  -> [period |-> 2, entry |-> 30, exit |-> 55] @@ Base
       [] k = "vwap_reversion" -> [window |-> 2, entry |-> 3, exit |-> 1, minSize |-> 2] @@ Base
       [] k = "threshold_momentum" ->
            [start |-> 1, close |-> 5, entry |-> 50, target |-> 60, floor |-> 40] @@ Base
       [] k = "final_period" ->
            [period |-> 4, close |-> 5, entry |-> 50, target |-> 60, floor |-> 40] @@ Base
       [] k = "deep_value"     -> [single |-> TRUE, maxEntry |-> 45] @@ Base
       [] k = "late_favorite"  -> [start |-> 1, close |-> 4, entry |-> 85] @@ Base
       [] k = "blowout"        -> [threshold |-> 85, maxEntry |-> 95, fair |-> 95, minEdge |-> 3,
                                   maxPositions |-> 1] @@ Base
       [] k = "legacy"         -> Base
       [] k = "demo"           -> [maxEntry |-> 55] @@ Base
       [] k \in {"ofi", "ofi_ma"} ->
            [ofi |-> 40, maxLosses |-> 1, fast |-> 1, slow |-> 3, maxZ |-> 25] @@ Flag
       [] k = "mispricing"     -> [impulse |-> 10] @@ Flag
       [] k = "q4_totals"      -> [spike |-> 10, drift |-> 5, minEntry |-> 40] @@ Flag
       [] k = "ncaab_totals"   -> [edge |-> 8, over |-> 70] @@ Flag
       [] k = "fair_value"     -> [fair |-> 60] @@ Flag]

AllKinds == CoreKinds \union FlagKinds
=============================================================================
