----------------------------- MODULE MCPmxtLoad -----------------------------
(* Instances of PmxtLoad for TLC: three hours, a raw directory, two archives. *)
EXTENDS PmxtLoad

CONSTANTS local, r2v2, r2

Local == [kind |-> "raw-local", target |-> local]
Archive(url) == [kind |-> "raw-remote", target |-> url]
BothStages == <<[kind |-> "raw-local"], [kind |-> "raw-remote"]>>

Explicit(entries, root, urls, workers) ==
  [entries |-> entries, stages |-> BothStages, workers |-> workers, cache |-> "on",
   fields |-> [rawRoot |-> root, remoteUrls |-> urls]]

\* One source of each kind with two threads, all sources with one, and no explicit source.
MCConfigs ==
  {Explicit(<<Local, Archive(r2v2)>>, local, <<r2v2>>, 2),
   Explicit(<<Archive(r2v2), Local, Archive(r2)>>, local, <<r2v2, r2>>, 1),
   Explicit(<<>>, local, <<r2v2>>, 2),
   [Explicit(<<>>, None, <<r2>>, 2) EXCEPT !.cache = "off"],
   Explicit(<<>>, None, <<>>, 2)}

\* The sources of the repository's runners.
RunnerConfigs == {Explicit(<<Local, Archive(r2v2), Archive(r2)>>, local, <<r2v2, r2>>, 2)}

\* Every source has the first hour; each of the others is anywhere or nowhere, and a local
\* file of the second may be damaged.
MCHoldings ==
  {f \in [Sources -> [Hours -> {"good", "missing", "bad"}]] :
     \A s \in Sources :
       /\ f[s][1] = "good"
       /\ f[s][2] = "bad" => s = local
       /\ f[s][3] # "bad"
       /\ s = r2 => f[s][3] = "good"}

\* The first hour is in the second archive only, the second hour in the first only.
SplitHoldings ==
  {[s \in Sources |-> [h \in Hours |-> IF <<s, h>> \in {<<r2, 1>>, <<r2v2, 2>>} THEN "good"
                                       ELSE "missing"]]}

Snapshot(t) == [kind |-> "snapshot", ts |-> t]
Change(t) == [kind |-> "change", ts |-> t]

\* The hours are 10..19, 20..29 and 30..39; the window is 25..35.
MCTapes ==
  {<<<<Snapshot(15)>>, <<Change(27), Change(22)>>, <<Snapshot(31), Change(38), Change(31)>>>>,
   <<<<Change(12)>>, <<Change(21), Change(28), Snapshot(26)>>, <<Change(32), Snapshot(34)>>>>,
   <<<<Snapshot(11), Change(13)>>, <<>>, <<Change(33), Change(34)>>>>}
=============================================================================
