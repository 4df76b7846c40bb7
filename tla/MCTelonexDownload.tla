------------------------- MODULE MCTelonexDownload --------------------------
(* Instances of TelonexDownload for TLC: up to three days of one month. *)
EXTENDS TelonexDownload, TLC

CONSTANTS d1, d2, d3, january

MCPartitions == {january}
MCPartitionOf == [d \in Days |-> january]

ThreeJobs == <<d1, d2, d3>>

\* A day that is there, one that is missing and may fail when it is checked again, and one
\* without rows.
MCAnswers == (d1 :> {"rows"}) @@ (d2 :> {"missing", "failed"}) @@ (d3 :> {"empty"})
=============================================================================
