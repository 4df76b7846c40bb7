----------------------------- MODULE FillLedger -----------------------------
(***************************************************************************)
(* What the execution client promises about fills: a fill the venue has    *)
(* announced is handed to the trading engine at most once, and a fill the  *)
(* venue has not announced is never handed over.                           *)
(***************************************************************************)
EXTENDS Naturals

CONSTANT Fills

VARIABLES announced, handed

Init == announced = {} /\ handed = [f \in Fills |-> 0]

Announce == /\ announced' \in SUBSET Fills
            /\ announced \subseteq announced'
            /\ UNCHANGED handed

HandOver(f) == /\ f \in announced
               /\ handed[f] = 0
               /\ handed' = [handed EXCEPT ![f] = 1]
               /\ UNCHANGED announced

Next == Announce \/ \E f \in Fills : HandOver(f)

Spec == Init /\ [][Next]_<<announced, handed>>
=============================================================================
