----------------------------- MODULE DayLedger ------------------------------
(***************************************************************************)
(* What the Telonex store promises about days.  A day is stored or known   *)
(* to be absent at the vendor, never both, and stays so until the vendor   *)
(* says otherwise.  Days to be recorded gather in groups: the days with    *)
(* rows of a partition, those downloaded without rows, and those the       *)
(* vendor does not have.  A group is recorded as a whole; a failure or a   *)
(* restart may lose groups, but never a part of one and never a day that   *)
(* was recorded.                                                           *)
(***************************************************************************)
CONSTANTS Days, Partitions

VARIABLES
  stored, absent,   (* the days recorded                                   *)
  parts,            (* partition -> its days with rows that await recording *)
  empty, missing    (* the days of the two other groups that do            *)

vars == <<stored, absent, parts, empty, missing>>

Init ==
  /\ stored = {} /\ absent = {}
  /\ parts = [k \in Partitions |-> {}] /\ empty = {} /\ missing = {}

\* Days join the groups.
Gather ==
  /\ parts' \in [Partitions -> SUBSET Days] /\ \A k \in Partitions : parts[k] \subseteq parts'[k]
  /\ empty' \in SUBSET Days /\ empty \subseteq empty'
  /\ missing' \in SUBSET Days /\ missing \subseteq missing'
  /\ UNCHANGED <<stored, absent>>

\* A whole group is recorded.
Store(D) == stored' = stored \union D /\ absent' = absent \ D

StorePart(k) == Store(parts[k]) /\ parts' = [parts EXCEPT ![k] = {}] /\ UNCHANGED <<empty, missing>>
StoreEmpty   == Store(empty) /\ empty' = {} /\ UNCHANGED <<parts, missing>>
Miss ==
  /\ absent' = absent \union missing /\ stored' = stored \ missing
  /\ missing' = {} /\ UNCHANGED <<parts, empty>>

\* Whole groups are lost.
Lose ==
  /\ parts' \in [Partitions -> SUBSET Days] /\ \A k \in Partitions : parts'[k] \in {parts[k], {}}
  /\ empty' \in {empty, {}} /\ missing' \in {missing, {}}
  /\ UNCHANGED <<stored, absent>>

Next == Gather \/ (\E k \in Partitions : StorePart(k)) \/ StoreEmpty \/ Miss \/ Lose

Spec == Init /\ [][Next]_vars
=============================================================================
