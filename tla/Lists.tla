------------------------------- MODULE Lists --------------------------------
(***************************************************************************)
(* What the modules of pure operators use of Python's lists and dicts.     *)
(***************************************************************************)
EXTENDS Naturals, Sequences, FiniteSets

\* The members of a finite set in a strict total order: the k-th has k - 1 before it.
Ranked(S, Before(_, _)) ==
  [k \in 1 .. Cardinality(S) |->
     CHOOSE i \in S : Cardinality({j \in S : Before(j, i)}) = k - 1]

\* list.sort, np.argsort(kind="stable"): elements that are not ordered keep their places.
StableSort(s, Less(_, _)) ==
  LET places == Ranked(DOMAIN s, LAMBDA i, j : Less(s[i], s[j]) \/ (~Less(s[j], s[i]) /\ i < j))
  IN  [k \in DOMAIN s |-> s[places[k]]]

\* A list comprehension with the condition given by its places:
\* [s[i] for i in range(len(s)) if i in places].
Picked(s, places) ==
  LET upTo[n \in 0 .. Len(s)] ==
        IF n = 0 THEN <<>> ELSE IF n \in places THEN Append(upTo[n - 1], s[n]) ELSE upTo[n - 1]
  IN  upTo[Len(s)]

\* The same with the condition itself.
Keep(s, Test(_)) == Picked(s, {i \in DOMAIN s : Test(s[i])})

\* min(s) by an order: of equal elements the first.
FirstLeast(s, Less(_, _)) ==
  s[CHOOSE i \in DOMAIN s : \A j \in DOMAIN s : ~Less(s[j], s[i]) /\ (j < i => Less(s[i], s[j]))]

\* Tuples compare by the first component that differs.
KeyLess(a, b) == \E i \in DOMAIN a : a[i] < b[i] /\ \A j \in 1 .. i - 1 : a[j] = b[j]

\* s[:n]
FirstOf(s, n) == SubSeq(s, 1, IF n < Len(s) THEN n ELSE Len(s))

\* dict(pairs): of the pairs with one key the last one counts.
DictOf(keys, values) ==
  [k \in {keys[i] : i \in DOMAIN keys} |->
     values[CHOOSE i \in DOMAIN keys : keys[i] = k /\ \A j \in DOMAIN keys : keys[j] = k => j <= i]]

\* dict.get(key, default)
Get(dict, key, default) == IF key \in DOMAIN dict THEN dict[key] ELSE default
=============================================================================
