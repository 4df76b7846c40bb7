--------------------------- MODULE MCTelonexLoad ----------------------------
(* Instances of TelonexLoad for TLC: two days of a month, the store written while read. *)
EXTENDS TelonexLoad, TLC

CONSTANTS d1, d2, january

MCDays == {d1, d2}
MCPartitions == {january}
MCPartitionOf == (d1 :> january) @@ (d2 :> january)
MCWanted == <<d1, d2>>

\* One day at a time, with rows.
MCBatches == {BatchOf(<<[day |-> d, got |-> "rows"]>>) : d \in MCDays}

\* A good daily file of the first day beside a damaged consolidated one; a damaged daily
\* file with no consolidated one, or with one that lacks the second day.
Local(dayFile, r, D) ==
  [daily |-> (d1 :> dayFile) @@ (d2 :> "none"), range |-> r, days |-> D]
MCLocalFiles == {Local("ok", "bad", {}), Local("bad", "none", {}), Local("bad", "ok", {d1})}

LocalThenApi == <<"local", "api">>
=============================================================================
