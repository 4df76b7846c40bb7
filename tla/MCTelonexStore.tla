--------------------------- MODULE MCTelonexStore ---------------------------
(* Instances of TelonexStore for TLC: two days of January and one of February. *)
EXTENDS TelonexStore, TLC

CONSTANTS d1, d2, d3, january, february

MCDays == {d1, d2, d3}
MCPartitions == {january, february}
MCPartitionOf == (d1 :> january) @@ (d2 :> january) @@ (d3 :> february)

Of(d, g) == [day |-> d, got |-> g]

\* Every result alone, and batches that mix partitions and results.
MCBatches ==
  {BatchOf(b) : b \in
    {<<r>> : r \in Result}
      \union {<<Of(d1, "rows"), Of(d2, "rows")>>,
              <<Of(d2, "rows"), Of(d3, "rows")>>,
              <<Of(d1, "missing"), Of(d3, "rows"), Of(d2, "empty")>>}}
=============================================================================
