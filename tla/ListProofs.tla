----------------------------- MODULE ListProofs -----------------------------
(***************************************************************************)
(* Facts about the operators of Lists that the proofs about the modules    *)
(* that use them need: the ranks of a finite set in a strict total order   *)
(* are the numbers below its size, so StableSort sorts; Picked keeps the   *)
(* chosen elements in their order.  And numbers: every set of natural      *)
(* numbers has a least one, on which the proofs by induction rest.         *)
(***************************************************************************)
EXTENDS Lists, Integers, SequencesExt, FiniteSetTheorems, FunctionTheorems, TLAPS

\* R orders S strictly and totally.
Linear(R, S) ==
  /\ \A i, j \in S : i # j => <<i, j>> \in R \/ <<j, i>> \in R
  /\ \A i, j \in S : <<i, j>> \in R => <<j, i>> \notin R
  /\ \A i, j, k \in S : <<i, j>> \in R /\ <<j, k>> \in R => <<i, k>> \in R

RankOf(R, S, i) == Cardinality({j \in S : <<j, i>> \in R})

\* Every number below Cardinality(S) is a rank.
RanksUsed(R, S) == \A k \in 1 .. Cardinality(S) : \E i \in S : RankOf(R, S, i) = k - 1

\* The ranks are the numbers below Cardinality(S), each of one member.
LEMMA RanksRun ==
  ASSUME NEW S, IsFiniteSet(S), NEW R, Linear(R, S)
  PROVE  /\ Cardinality(S) \in Nat
         /\ \A i \in S : RankOf(R, S, i) \in 0 .. Cardinality(S) - 1
         /\ \A i, j \in S : <<i, j>> \in R => RankOf(R, S, i) < RankOf(R, S, j)
         /\ \A i, j \in S : RankOf(R, S, i) = RankOf(R, S, j) => i = j
         /\ RanksUsed(R, S)
<1> DEFINE Before(i) == {j \in S : <<j, i>> \in R}
           n == Cardinality(S)
<1>1. n \in Nat
  BY FS_CardinalityType
<1>2. \A i \in S : IsFiniteSet(Before(i)) /\ Cardinality(Before(i)) \in Nat /\ Cardinality(Before(i)) <= n
                   /\ (n = Cardinality(Before(i)) => S = Before(i))
  <2> TAKE i \in S
  <2>1. Before(i) \in SUBSET S  OBVIOUS
  <2> QED BY <2>1, FS_Subset, FS_CardinalityType
<1>3. \A i \in S : i \notin Before(i)
  BY DEF Linear
<1>4. \A i \in S : Cardinality(Before(i)) \in 0 .. n - 1
  <2> TAKE i \in S
  <2>1. S # Before(i)  BY <1>3
  <2> HIDE DEF Before
  <2> QED BY <1>1, <1>2, <2>1
<1>5. \A i, j \in S : <<i, j>> \in R => Cardinality(Before(i)) < Cardinality(Before(j))
  <2> TAKE i \in S, j \in S
  <2> HAVE <<i, j>> \in R
  <2>1. Before(i) \in SUBSET Before(j)  BY DEF Linear
  <2>2. Before(i) # Before(j)
    <3>1. i \in Before(j)  OBVIOUS
    <3> QED BY <3>1, <1>3
  <2> HIDE DEF Before
  <2>3. Cardinality(Before(i)) <= Cardinality(Before(j)) /\ Cardinality(Before(i)) # Cardinality(Before(j))
    BY <1>2, <2>1, <2>2, FS_Subset
  <2> QED BY <1>2, <2>3
<1>6. \A i, j \in S : Cardinality(Before(i)) = Cardinality(Before(j)) => i = j
  <2> TAKE i \in S, j \in S
  <2> HAVE Cardinality(Before(i)) = Cardinality(Before(j))
  <2>1. i # j => <<i, j>> \in R \/ <<j, i>> \in R  BY DEF Linear
  <2> HIDE DEF Before
  <2> QED BY <2>1, <1>5, <1>2
<1>7. \A k \in 1 .. n : \E i \in S : Cardinality(Before(i)) = k - 1
  <2> DEFINE f == [i \in S |-> Cardinality(Before(i))]
             T == 0 .. n - 1
  <2>1. f \in [S -> T]
    BY <1>4
  <2>2. f \in Injection(S, T)
    <3>1. \A i, j \in S : f[i] = f[j] => i = j
      BY <1>6
    <3> QED BY <2>1, <3>1, Fun_IsInj DEF Injection, IsInjective
  <2>3. IsFiniteSet(T) /\ Cardinality(T) = n
    <3>1. 0 \in Int /\ n - 1 \in Int /\ (0 > n - 1 <=> n = 0) /\ (n - 1) - 0 + 1 = n
      BY <1>1
    <3> QED BY <3>1, FS_Interval
  <2> HIDE DEF T
  <2>4. f \in Surjection(S, T)
    BY <2>2, <2>3, FS_Injection
  <2>5. \A x \in T : \E i \in S : f[i] = x
    BY <2>4 DEF Surjection
  <2> QED BY <2>5, <1>1 DEF T
<1> QED BY <1>1, <1>4, <1>5, <1>6, <1>7 DEF RankOf, RanksUsed

\* p gives the members of 1 .. n by their ranks.
ByRank(p, R, n) == \A k \in 1 .. n : p[k] \in 1 .. n /\ RankOf(R, 1 .. n, p[k]) = k - 1

\* p gives them in their order.
InOrder(p, R, n) ==
  /\ \A k, l \in 1 .. n : k < l => <<p[k], p[l]>> \in R
  /\ \A i \in 1 .. n : \E k \in 1 .. n : p[k] = i

\* The members by their ranks are in order, and all there.
LEMMA PlacesSort ==
  ASSUME NEW n \in Nat, NEW R, Linear(R, 1 .. n), NEW p, ByRank(p, R, n)
  PROVE  InOrder(p, R, n)
<1> DEFINE S == 1 .. n
<1>1. IsFiniteSet(S) /\ Cardinality(S) = n
  BY FS_Interval
<1>2. \A k \in 1 .. n : p[k] \in S /\ RankOf(R, S, p[k]) = k - 1
  BY DEF ByRank
<1>3. Linear(R, S)
  OBVIOUS
<1> HIDE DEF S
<1>4. /\ \A i \in S : RankOf(R, S, i) \in 0 .. Cardinality(S) - 1
      /\ \A i, j \in S : <<i, j>> \in R => RankOf(R, S, i) < RankOf(R, S, j)
      /\ \A i, j \in S : RankOf(R, S, i) = RankOf(R, S, j) => i = j
  BY <1>1, <1>3, RanksRun
<1>5. \A i \in S : RankOf(R, S, i) \in 0 .. n - 1
  BY <1>1, <1>4
<1>6. \A k, l \in 1 .. n : k < l => <<p[k], p[l]>> \in R
  <2> TAKE k \in 1 .. n, l \in 1 .. n
  <2> HAVE k < l
  <2>1. RankOf(R, S, p[k]) = k - 1 /\ RankOf(R, S, p[l]) = l - 1 /\ p[k] \in S /\ p[l] \in S
    BY <1>2
  <2>2. p[k] # p[l] /\ <<p[l], p[k]>> \notin R
    BY <2>1, <1>4
  <2> QED BY <2>1, <2>2, <1>3 DEF Linear
<1>7. \A i \in S : \E k \in 1 .. n : p[k] = i
  <2> TAKE i \in S
  <2>1. RankOf(R, S, i) + 1 \in 1 .. n /\ (RankOf(R, S, i) + 1) - 1 = RankOf(R, S, i)
    BY <1>5
  <2>2. RankOf(R, S, p[RankOf(R, S, i) + 1]) = RankOf(R, S, i) /\ p[RankOf(R, S, i) + 1] \in S
    BY <2>1, <1>2
  <2> QED BY <2>1, <2>2, <1>4
<1> QED BY <1>6, <1>7 DEF S, InOrder

\* Less, as a relation of the places of s, made total by the places themselves.
Stable(s, less) ==
  {p \in (DOMAIN s) \X (DOMAIN s) : p \in less \/ (<<p[2], p[1]>> \notin less /\ p[1] < p[2])}

\* The relation less of the places of s is a strict weak order.
WeakOrder(s, less) ==
  /\ less \subseteq (DOMAIN s) \X (DOMAIN s)
  /\ \A i, j \in DOMAIN s : <<i, j>> \in less => <<j, i>> \notin less
  /\ \A i, j, k \in DOMAIN s : <<i, j>> \in less => <<i, k>> \in less \/ <<k, j>> \in less

\* Less and the places together order the places.
LEMMA StableOrders ==
  ASSUME NEW s, NEW n \in Nat, DOMAIN s = 1 .. n, NEW less, WeakOrder(s, less)
  PROVE  Linear(Stable(s, less), 1 .. n)
<1> DEFINE R == Stable(s, less)
<1>1. \A i, j \in 1 .. n : <<i, j>> \in R <=> <<i, j>> \in less \/ (<<j, i>> \notin less /\ i < j)
  BY DEF Stable
<1> HIDE DEF R
<1>2. \A i, j \in 1 .. n : i # j => <<i, j>> \in R \/ <<j, i>> \in R
  BY <1>1
<1>3. \A i, j \in 1 .. n : <<i, j>> \in R => <<j, i>> \notin R
  BY <1>1 DEF WeakOrder
<1>4. \A i, j, k \in 1 .. n : <<i, j>> \in R /\ <<j, k>> \in R => <<i, k>> \in R
  <2> TAKE i \in 1 .. n, j \in 1 .. n, k \in 1 .. n
  <2> HAVE <<i, j>> \in R /\ <<j, k>> \in R
  <2>1. \A a, b \in 1 .. n : <<a, b>> \in less => <<b, a>> \notin less
    BY DEF WeakOrder
  <2>2. \A a, b, c \in 1 .. n : <<a, b>> \in less => <<a, c>> \in less \/ <<c, b>> \in less
    BY DEF WeakOrder
  <2>3. <<j, i>> \notin less /\ <<k, j>> \notin less
    BY <1>1, <2>1
  <2>4. <<k, i>> \notin less
    BY <2>2, <2>3
  <2>5. <<i, j>> \in less \/ <<j, k>> \in less => <<i, k>> \in less
    BY <2>2, <2>3
  <2>6. <<i, j>> \notin less /\ <<j, k>> \notin less => i < k
    <3> SUFFICES ASSUME <<i, j>> \notin less, <<j, k>> \notin less PROVE i < k
      OBVIOUS
    <3>1. i < j /\ j < k
      BY <1>1
    <3> QED BY <3>1
  <2> QED BY <1>1, <2>4, <2>5, <2>6
<1> QED BY <1>2, <1>3, <1>4 DEF R, Linear

\* t is s sorted by less: an arrangement of it in which nobody comes before a lesser one.
Sorts(t, s, less, at) ==
  /\ \A k \in DOMAIN s : at[k] \in DOMAIN s
  /\ t = [k \in DOMAIN s |-> s[at[k]]]
  /\ \A i \in DOMAIN s : \E k \in DOMAIN s : at[k] = i
  /\ \A k, l \in DOMAIN s : at[k] = at[l] => k = l
  /\ \A k, l \in DOMAIN s : k < l => <<at[l], at[k]>> \notin less

\* A list by the ranks of its places is sorted, and has lost nothing.
LEMMA StableSorts ==
  ASSUME NEW s, NEW n \in Nat, DOMAIN s = 1 .. n, NEW less, WeakOrder(s, less),
         NEW at, ByRank(at, Stable(s, less), n)
  PROVE  Sorts([k \in DOMAIN s |-> s[at[k]]], s, less, at)
<1> DEFINE R == Stable(s, less)
<1>1. Linear(R, 1 .. n)
  BY StableOrders
<1>2. \A i, j \in 1 .. n : <<i, j>> \in R => <<j, i>> \notin less
  BY DEF Stable, WeakOrder
<1>3. ByRank(at, R, n)
  OBVIOUS
<1> HIDE DEF R
<1>4. InOrder(at, R, n)
  BY <1>1, <1>3, PlacesSort
<1>5. \A k \in 1 .. n : at[k] \in 1 .. n
  BY <1>3 DEF ByRank
<1>6. \A k, l \in 1 .. n : at[k] = at[l] => k = l
  <2>1. \A k, l \in 1 .. n : at[k] = at[l] => k - 1 = l - 1
    BY <1>3 DEF ByRank
  <2> QED BY <2>1
<1> QED BY <1>2, <1>4, <1>5, <1>6 DEF Sorts, InOrder

\* The number of places before each of s, as StableSort counts them, are the ranks.
LEMMA CountsRank ==
  ASSUME NEW n \in Nat, NEW R, Linear(R, 1 .. n), NEW p, NEW count,
         \A i \in 1 .. n : count[i] = RankOf(R, 1 .. n, i),
         \A k \in 1 .. n : p[k] = CHOOSE i \in 1 .. n : count[i] = k - 1
  PROVE  ByRank(p, R, n)
<1> DEFINE S == 1 .. n
<1>1. IsFiniteSet(S) /\ Cardinality(S) = n
  BY FS_Interval
<1>2. Linear(R, S) /\ \A i \in S : count[i] = RankOf(R, S, i)
  OBVIOUS
<1>3. \A k \in 1 .. n : p[k] = CHOOSE i \in S : count[i] = k - 1
  OBVIOUS
<1> HIDE DEF S
<1>4. RanksUsed(R, S)
  BY <1>1, <1>2, RanksRun
<1>5. \A k \in 1 .. n : \E i \in S : count[i] = k - 1
  BY <1>1, <1>2, <1>4 DEF RanksUsed
<1>6. \A k \in 1 .. n : p[k] \in S /\ RankOf(R, S, p[k]) = k - 1
  BY <1>2, <1>3, <1>5
<1> QED BY <1>6 DEF ByRank, S

\* What StableSort makes of a list when Less is the relation less of its places.
SortedBy(s, less) ==
  [k \in DOMAIN s |-> s[(CHOOSE i \in DOMAIN s : RankOf(Stable(s, less), DOMAIN s, i) = k - 1)]]

\* It sorts.
LEMMA SortedBySorts ==
  ASSUME NEW s, NEW n \in Nat, DOMAIN s = 1 .. n, NEW less, WeakOrder(s, less)
  PROVE  \E at : Sorts(SortedBy(s, less), s, less, at)
<1> DEFINE S == DOMAIN s
           R == Stable(s, less)
           at == [k \in S |-> CHOOSE i \in S : RankOf(R, S, i) = k - 1]
           count == [i \in S |-> RankOf(R, S, i)]
<1>1. Linear(R, 1 .. n)
  BY StableOrders
<1>2. SortedBy(s, less) = [k \in S |-> s[at[k]]]
  BY DEF SortedBy
<1>3. \A i \in 1 .. n : count[i] = RankOf(R, 1 .. n, i)
  OBVIOUS
<1>4. \A k \in 1 .. n : at[k] = CHOOSE i \in 1 .. n : count[i] = k - 1
  <2> TAKE k \in 1 .. n
  <2>1. at[k] = CHOOSE i \in S : RankOf(R, S, i) = k - 1
    OBVIOUS
  <2>2. \A i \in S : count[i] = RankOf(R, S, i)
    OBVIOUS
  <2> HIDE DEF at, count
  <2> QED BY <2>1, <2>2
<1> HIDE DEF at, count
<1>5. ByRank(at, Stable(s, less), n)
  BY <1>1, <1>3, <1>4, CountsRank, Zenon
<1>6. Sorts([k \in DOMAIN s |-> s[at[k]]], s, less, at)
  BY <1>5, StableSorts, Zenon
<1> QED BY <1>2, <1>6

Ascending(s) == {p \in (DOMAIN s) \X (DOMAIN s) : s[p[1]] < s[p[2]]}

\* StableSort sorts numbers.
LEMMA NumbersSorted ==
  ASSUME NEW s \in Seq(Int)
  PROVE  \E at : Sorts(StableSort(s, LAMBDA a, b : a < b), s, Ascending(s), at)
<1> DEFINE less == Ascending(s)
           before(i) == {j \in DOMAIN s : s[j] < s[i] \/ (~(s[i] < s[j]) /\ j < i)}
<1>1. Len(s) \in Nat /\ DOMAIN s = 1 .. Len(s)
  OBVIOUS
<1>2. WeakOrder(s, less)
  BY <1>1 DEF WeakOrder, Ascending
<1>3. \A i \in DOMAIN s : Cardinality(before(i)) = RankOf(Stable(s, less), DOMAIN s, i)
  <2> TAKE i \in DOMAIN s
  <2>1. before(i) = {j \in DOMAIN s : <<j, i>> \in Stable(s, less)}
    BY DEF Stable, Ascending
  <2> QED BY <2>1 DEF RankOf
<1> DEFINE at == [k \in 1 .. Cardinality(DOMAIN s) |-> CHOOSE i \in DOMAIN s : Cardinality(before(i)) = k - 1]
<1>4. StableSort(s, LAMBDA a, b : a < b) = [k \in DOMAIN s |-> s[at[k]]]
  BY DEF StableSort, Ranked
<1> HIDE DEF less, before
<1>5. \A k \in DOMAIN s : at[k] = CHOOSE i \in DOMAIN s : RankOf(Stable(s, less), DOMAIN s, i) = k - 1
  <2>1. Cardinality(DOMAIN s) = Len(s)
    BY <1>1, FS_Interval
  <2> TAKE k \in DOMAIN s
  <2>2. at[k] = CHOOSE i \in DOMAIN s : Cardinality(before(i)) = k - 1
    BY <1>1, <2>1
  <2> HIDE DEF at
  <2> QED BY <1>3, <2>2
<1> HIDE DEF at
<1>6. StableSort(s, LAMBDA a, b : a < b) = SortedBy(s, less)
  BY <1>4, <1>5 DEF SortedBy
<1>7. \E q : Sorts(SortedBy(s, less), s, less, q)
  BY <1>1, <1>2, SortedBySorts
<1> QED BY <1>6, <1>7 DEF less

-----------------------------------------------------------------------------
(* Numbers and finite sets                                                 *)

\* The image of a finite set.
LEMMA ImageFinite ==
  ASSUME NEW f, IsFiniteSet(DOMAIN f)
  PROVE  IsFiniteSet({f[x] : x \in DOMAIN f})
<1> DEFINE T == {f[x] : x \in DOMAIN f}
           g == [x \in DOMAIN f |-> f[x]]
<1>1. g \in Surjection(DOMAIN f, T)
  BY DEF Surjection
<1> HIDE DEF T, g
<1>2. IsFiniteSet(T)
  BY <1>1, FS_Surjection
<1> QED BY <1>2 DEF T

\* The functions between finite sets are finitely many.
LEMMA FunctionsFinite ==
  ASSUME NEW S, IsFiniteSet(S), NEW T, IsFiniteSet(T)
  PROVE  IsFiniteSet([S -> T])
<1> DEFINE P == SUBSET (S \X T)
           g == [f \in [S -> T] |-> {<<x, f[x]>> : x \in S}]
<1>1. IsFiniteSet(P)
  BY FS_Product, FS_SUBSET
<1>2. g \in [[S -> T] -> P]
  OBVIOUS
<1>3. \A f, h \in [S -> T] : g[f] = g[h] => f = h
  <2> TAKE f \in [S -> T], h \in [S -> T]
  <2> HAVE g[f] = g[h]
  <2>1. {<<x, f[x]>> : x \in S} = {<<x, h[x]>> : x \in S}
    OBVIOUS
  <2>2. \A x \in S : f[x] = h[x]
    <3> TAKE x \in S
    <3>1. <<x, f[x]>> \in {<<y, h[y]>> : y \in S}
      BY <2>1
    <3> QED BY <3>1
  <2> QED BY <2>2
<1>4. g \in Injection([S -> T], P)
  BY <1>2, <1>3 DEF Injection, IsInjective
<1> HIDE DEF P, g
<1> QED BY <1>1, <1>4, FS_Injection

\* The lesser of two numbers.
LEMMA MinOfTwo ==
  ASSUME NEW a \in Nat, NEW b \in Nat
  PROVE  Min({a, b}) \in {a, b} /\ Min({a, b}) <= a /\ Min({a, b}) <= b
<1>1. \E x \in {a, b} : \A y \in {a, b} : x <= y
  OBVIOUS
<1> QED BY <1>1 DEF Min

\* A set of natural numbers has a least element n: the interval 0 .. n is minimal among the
\* intervals of its elements up to some b.
LEMMA LeastNumber ==
  ASSUME NEW S \in SUBSET Nat, S # {}
  PROVE  \E n \in S : \A m \in S : n <= m
<1> PICK b \in S : TRUE
  OBVIOUS
<1> DEFINE U == {n \in S : n <= b}
           T == {0 .. n : n \in U}
           R == StrictSubsetOrdering(0 .. b)
<1>1. IsFiniteSet(0 .. b) /\ b \in U
  BY FS_Interval
<1>2. IsWellFoundedOn(R, FiniteSubsetsOf(0 .. b))
  BY <1>1, FS_StrictSubsetOrderingWellFounded
<1>3. T # {} /\ T \subseteq FiniteSubsetsOf(0 .. b)
  <2>1. T # {}  BY <1>1
  <2>2. \A n \in U : 0 .. n \subseteq 0 .. b /\ IsFiniteSet(0 .. n)  BY FS_Interval
  <2> QED BY <2>1, <2>2 DEF FiniteSubsetsOf
<1>4. \E x \in T : \A y \in T : ~(<<y, x>> \in R)
  <2> HIDE DEF T, R
  <2> QED BY <1>2, <1>3, WFMin
<1>5. PICK u \in U : \A v \in U : ~(<<0 .. v, 0 .. u>> \in R)
  BY <1>4
<1>6. \A v \in U : u <= v
  <2> SUFFICES ASSUME NEW v \in U, v < u PROVE FALSE  OBVIOUS
  <2>1. 0 .. v \subseteq 0 .. u /\ 0 .. v # 0 .. u
    <3>1. u \in 0 .. u /\ u \notin 0 .. v OBVIOUS
    <3> QED BY <3>1
  <2>2. 0 .. v \subseteq 0 .. b /\ 0 .. u \subseteq 0 .. b OBVIOUS
  <2> QED BY <1>5, <2>1, <2>2 DEF StrictSubsetOrdering
<1> QED BY <1>6

\* What holds of 0, and of every number up to n that follows one it holds of, holds up to n.
LEMMA UpTo ==
  ASSUME NEW n \in Nat, NEW Good, 0 \in Good, \A i \in 1 .. n : i - 1 \in Good => i \in Good
  PROVE  \A i \in 0 .. n : i \in Good
<1> DEFINE Bad == {i \in 0 .. n : i \notin Good}
<1>1. SUFFICES ASSUME Bad # {} PROVE FALSE
  OBVIOUS
<1>2. Bad \in SUBSET Nat
  OBVIOUS
<1>3. PICK i \in Bad : \A j \in Bad : i <= j
  <2> HIDE DEF Bad
  <2> QED BY <1>1, <1>2, LeastNumber
<1>4. i \in 1 .. n /\ i - 1 \in 0 .. n /\ ~(i <= i - 1)
  BY <1>3
<1>5. i - 1 \notin Bad
  BY <1>3, <1>4
<1> QED BY <1>3, <1>4, <1>5

-----------------------------------------------------------------------------
(* Picked                                                                  *)

\* The first values of the function that Picked is read off.
Picks(f, s, places, m) ==
  f = [n \in 0 .. m |-> IF n = 0 THEN <<>> ELSE IF n \in places THEN Append(f[n - 1], s[n]) ELSE f[n - 1]]

\* The recursion of Picked has a solution: if the first m values had none, they had none for
\* a least m.
LEMMA PickedEquation ==
  ASSUME NEW s, Len(s) \in Nat, NEW places
  PROVE  \E f : Picks(f, s, places, Len(s)) /\ Picked(s, places) = f[Len(s)]
<1> DEFINE Lost == {m \in Nat : ~\E f : Picks(f, s, places, m)}
<1>1. Lost = {}
  <2> SUFFICES ASSUME Lost # {} PROVE FALSE
    OBVIOUS
  <2>1. PICK m \in Lost : \A k \in Lost : m <= k
    BY LeastNumber
  <2>2. CASE m = 0
    <3> DEFINE f == [n \in 0 .. 0 |-> <<>>]
    <3>1. Picks(f, s, places, 0)
      BY DEF Picks
    <3> QED BY <2>1, <2>2, <3>1
  <2>3. CASE m # 0
    <3>1. m - 1 \in Nat /\ m - 1 \notin Lost
      BY <2>1, <2>3
    <3>2. PICK g : Picks(g, s, places, m - 1)
      BY <3>1
    <3> DEFINE f == [n \in 0 .. m |-> IF n = m THEN IF m \in places THEN Append(g[m - 1], s[m]) ELSE g[m - 1] ELSE g[n]]
    <3>3. \A n \in 0 .. m - 1 : f[n] = g[n]
      BY <3>1
    <3>4. \A n \in 0 .. m - 1 : g[n] = IF n = 0 THEN <<>> ELSE IF n \in places THEN Append(g[n - 1], s[n]) ELSE g[n - 1]
      BY <3>2 DEF Picks
    <3>5. \A n \in 0 .. m : f[n] = IF n = 0 THEN <<>> ELSE IF n \in places THEN Append(f[n - 1], s[n]) ELSE f[n - 1]
      <4> TAKE n \in 0 .. m
      <4>1. CASE n = m  BY <4>1, <3>1, <3>3, <2>3
      <4>2. CASE n # m
        <5>1. n \in 0 .. m - 1 /\ (n # 0 => n - 1 \in 0 .. m - 1)
          BY <4>2, <3>1
        <5>2. f[n] = g[n] /\ (n # 0 => f[n - 1] = g[n - 1])
          BY <5>1, <3>3
        <5> HIDE DEF f
        <5> QED BY <5>1, <5>2, <3>4
      <4> QED BY <4>1, <4>2
    <3>6. Picks(f, s, places, m)
      <4> HIDE DEF f
      <4>1. f = [n \in 0 .. m |-> f[n]]  BY DEF f
      <4> QED BY <3>5, <4>1 DEF Picks
    <3> QED BY <2>1, <3>6
  <2> QED BY <2>2, <2>3
<1>2. \E f : Picks(f, s, places, Len(s))
  BY <1>1
<1> DEFINE h == CHOOSE f : Picks(f, s, places, Len(s))
<1>3. Picks(h, s, places, Len(s))
  BY <1>2
<1>4. Picked(s, places) = h[Len(s)]
  BY DEF Picked, Picks
<1> QED BY <1>3, <1>4

\* q holds the elements of s at places up to m, in the order of s: the i-th is the one at[i].
PicksUpTo(q, s, places, at, m) ==
  /\ at \in [1 .. Len(q) -> {p \in places : p <= m}]
  /\ \A i \in 1 .. Len(q) : q[i] = s[at[i]]
  /\ \A i, j \in 1 .. Len(q) : i < j => at[i] < at[j]
  /\ \A p \in places : p <= m => \E i \in 1 .. Len(q) : at[i] = p

\* What is picked are the elements at the places, in their order.
LEMMA PickedInOrder ==
  ASSUME NEW T, NEW s \in Seq(T), NEW places \in SUBSET DOMAIN s
  PROVE  /\ Picked(s, places) \in Seq(T)
         /\ \E at : PicksUpTo(Picked(s, places), s, places, at, Len(s))
<1>1. PICK f : Picks(f, s, places, Len(s)) /\ Picked(s, places) = f[Len(s)]
  BY PickedEquation
<1>2. \A n \in 0 .. Len(s) : f[n] = IF n = 0 THEN <<>> ELSE IF n \in places THEN Append(f[n - 1], s[n]) ELSE f[n - 1]
  BY <1>1 DEF Picks
<1> DEFINE Good(m) == f[m] \in Seq(T) /\ \E at : PicksUpTo(f[m], s, places, at, m)
           Bad == {m \in 0 .. Len(s) : ~Good(m)}
<1>3. Bad = {}
  <2> SUFFICES ASSUME Bad # {} PROVE FALSE
    OBVIOUS
  <2>1. PICK m \in Bad : \A k \in Bad : m <= k
    <3> Bad \in SUBSET Nat  OBVIOUS
    <3> HIDE DEF Bad
    <3> QED BY LeastNumber
  <2>2. m \in 0 .. Len(s) /\ ~Good(m) /\ places \subseteq 1 .. Len(s)
    OBVIOUS
  <2>3. m # 0
    <3> SUFFICES ASSUME m = 0 PROVE FALSE
      OBVIOUS
    <3>1. f[0] = <<>>
      BY <1>2
    <3> DEFINE at == [i \in 1 .. 0 |-> 0]
    <3>2. PicksUpTo(f[0], s, places, at, 0)
      BY <3>1, <2>2 DEF PicksUpTo
    <3> HIDE DEF at
    <3> QED BY <3>1, <3>2, <2>2
  <2>4. m - 1 \in 0 .. Len(s) /\ m \in 1 .. Len(s) /\ Good(m - 1)
    <3>1. m - 1 \in 0 .. Len(s) /\ m \in 1 .. Len(s) /\ ~(m <= m - 1)
      BY <2>2, <2>3
    <3>2. m - 1 \notin Bad
      <4> HIDE DEF Bad
      <4> QED BY <3>1, <2>1
    <3> QED BY <3>1, <3>2
  <2>5. PICK at : PicksUpTo(f[m - 1], s, places, at, m - 1)
    BY <2>4
  <2> DEFINE q == f[m - 1]
  <2>6. q \in Seq(T) /\ f[m] = IF m \in places THEN Append(q, s[m]) ELSE q
    BY <2>4, <2>3, <1>2
  <2> HIDE DEF q
  <2>a. PicksUpTo(q, s, places, at, m - 1)
    BY <2>5 DEF q
  <2>b. \A i \in 1 .. Len(q) : at[i] \in places /\ at[i] <= m - 1 /\ at[i] \in Nat /\ q[i] = s[at[i]]
    <3>1. \A i \in 1 .. Len(q) : at[i] \in {p \in places : p <= m - 1} /\ q[i] = s[at[i]]
      BY <2>a DEF PicksUpTo
    <3> QED BY <3>1, <2>2
  <2>7. CASE m \notin places
    <3>0. \A p \in places : p <= m <=> p <= m - 1
      <4> TAKE p \in places
      <4>1. p \in Nat /\ m \in Nat /\ p # m  BY <2>2, <2>7
      <4> QED BY <4>1
    <3>1. PicksUpTo(q, s, places, at, m)
      <4>1. {p \in places : p <= m} = {p \in places : p <= m - 1}  BY <3>0
      <4> QED BY <2>a, <3>0, <4>1 DEF PicksUpTo
    <3> QED BY <3>1, <2>6, <2>7, <2>2
  <2>8. CASE m \in places
    <3> DEFINE n == Len(q) + 1
               at2 == [i \in 1 .. n |-> IF i = n THEN m ELSE at[i]]
               q2 == Append(q, s[m])
    <3>1. s[m] \in T /\ q2 \in Seq(T) /\ Len(q2) = n /\ n \in Nat /\ q2[n] = s[m]
          /\ \A i \in 1 .. Len(q) : q2[i] = q[i]
      BY <2>4, <2>6
    <3>2. \A i \in 1 .. n : i # n => i \in 1 .. Len(q)
      BY <2>6
    <3> HIDE DEF q2, n
    <3>3. \A i \in 1 .. n : at2[i] \in places /\ at2[i] <= m /\ q2[i] = s[at2[i]]
      <4> TAKE i \in 1 .. n
      <4>1. CASE i = n  BY <4>1, <3>1, <2>8, <2>4
      <4>2. CASE i # n
        <5>1. i \in 1 .. Len(q) /\ at2[i] = at[i]  BY <4>2, <3>2
        <5>2. at[i] \in places /\ at[i] <= m - 1 /\ at[i] \in Nat /\ q[i] = s[at[i]]  BY <5>1, <2>b
        <5>3. at[i] <= m  BY <5>2, <2>2
        <5> QED BY <5>1, <5>2, <5>3, <3>1
      <4> QED BY <4>1, <4>2
    <3>4. \A i, j \in 1 .. n : i < j => at2[i] < at2[j]
      <4> TAKE i \in 1 .. n, j \in 1 .. n
      <4> HAVE i < j
      <4>0. i # n
        BY <3>1
      <4>1. i \in 1 .. Len(q) /\ at2[i] = at[i] /\ at[i] \in places /\ at[i] <= m - 1 /\ at[i] \in Nat
        BY <4>0, <3>2, <2>b
      <4>2. CASE j = n  BY <4>1, <4>2, <2>4, <2>2
      <4>3. CASE j # n
        <5>1. j \in 1 .. Len(q) /\ at2[j] = at[j]  BY <4>3, <3>2
        <5> QED BY <4>1, <5>1, <2>a DEF PicksUpTo
      <4> QED BY <4>2, <4>3
    <3>5. \A p \in places : p <= m => \E i \in 1 .. n : at2[i] = p
      <4> SUFFICES ASSUME NEW p \in places, p <= m PROVE \E i \in 1 .. n : at2[i] = p
        OBVIOUS
      <4>1. CASE p = m  BY <4>1, <3>1 DEF n
      <4>2. CASE p # m
        <5>1. p <= m - 1  BY <4>2, <2>2, <2>4
        <5>2. PICK i \in 1 .. Len(q) : at[i] = p  BY <5>1, <2>a DEF PicksUpTo
        <5>3. i \in 1 .. n /\ i # n  BY <2>6 DEF n
        <5> QED BY <5>2, <5>3
      <4> QED BY <4>1, <4>2
    <3>6. PicksUpTo(q2, s, places, at2, m)
      <4>1. at2 \in [1 .. Len(q2) -> {p \in places : p <= m}]  BY <3>1, <3>3
      <4> HIDE DEF at2
      <4> QED BY <4>1, <3>1, <3>3, <3>4, <3>5 DEF PicksUpTo
    <3> HIDE DEF at2
    <3> QED BY <3>1, <3>6, <2>6, <2>8, <2>2 DEF q2
  <2> QED BY <2>7, <2>8
<1>4. Good(Len(s))
  BY <1>3
<1> QED BY <1>1, <1>4

\* Place i of q is place at[i] of s, and the places are the chosen ones in their order.
Keeps(q, s, places, at) ==
  /\ at \in [1 .. Len(q) -> places]
  /\ \A i \in 1 .. Len(q) : q[i] = s[at[i]]
  /\ \A i, j \in 1 .. Len(q) : i < j => at[i] < at[j]
  /\ \A p \in places : \E i \in 1 .. Len(q) : at[i] = p

\* What is picked is no longer than the list.
LEMMA PickedKeeps ==
  ASSUME NEW T, NEW s \in Seq(T), NEW places \in SUBSET DOMAIN s
  PROVE  /\ Picked(s, places) \in Seq(T)
         /\ Len(Picked(s, places)) <= Len(s)
         /\ \E at : Keeps(Picked(s, places), s, places, at)
<1> DEFINE q == Picked(s, places)
<1>1. PICK at : q \in Seq(T) /\ PicksUpTo(q, s, places, at, Len(s))
  BY PickedInOrder
<1> HIDE DEF q
<1>2. \A p \in places : p <= Len(s) /\ p \in 1 .. Len(s)
  OBVIOUS
<1>3. Keeps(q, s, places, at)
  <2>1. {p \in places : p <= Len(s)} = places
    BY <1>2
  <2> QED BY <1>1, <1>2, <2>1 DEF Keeps, PicksUpTo
<1>4. Len(q) <= Len(s)
  <2> DEFINE A == 1 .. Len(q)
             B == 1 .. Len(s)
  <2>1. Len(q) \in Nat /\ Len(s) \in Nat
    BY <1>1
  <2>2. IsFiniteSet(A) /\ Cardinality(A) = Len(q) /\ IsFiniteSet(B) /\ Cardinality(B) = Len(s)
    <3>1. \A k \in Nat : IsFiniteSet(1 .. k) /\ Cardinality(1 .. k) = k
      BY FS_Interval
    <3> QED BY <2>1, <3>1
  <2>3. at \in [A -> B]
    BY <1>2, <1>3 DEF Keeps
  <2>4. \A i, j \in A : at[i] = at[j] => i = j
    <3> SUFFICES ASSUME NEW i \in A, NEW j \in A, at[i] = at[j], i # j PROVE FALSE
      OBVIOUS
    <3>1. i < j \/ j < i
      BY <2>1
    <3>2. at[i] < at[j] \/ at[j] < at[i]
      BY <3>1, <1>3 DEF Keeps
    <3> QED BY <3>2, <2>3
  <2> HIDE DEF A, B
  <2>5. at \in Injection(A, B)
    BY <2>3, <2>4 DEF Injection, IsInjective
  <2> QED BY <2>2, <2>5, FS_Injection
<1> QED BY <1>1, <1>3, <1>4 DEF q

\* What is picked are elements of the list.
LEMMA PickedTyped ==
  ASSUME NEW T, NEW s \in Seq(T), NEW places \in SUBSET DOMAIN s, NEW U, \A p \in places : s[p] \in U
  PROVE  Picked(s, places) \in Seq(U)
<1> DEFINE q == Picked(s, places)
<1>1. PICK at : q \in Seq(T) /\ PicksUpTo(q, s, places, at, Len(s))
  BY PickedInOrder
<1> HIDE DEF q
<1>2. \A i \in 1 .. Len(q) : at[i] \in places /\ q[i] = s[at[i]]
  BY <1>1 DEF PicksUpTo
<1>3. q = [i \in 1 .. Len(q) |-> q[i]] /\ Len(q) \in Nat
  BY <1>1
<1>4. q \in Seq(U)
  BY <1>2, <1>3
<1> QED BY <1>4 DEF q

\* A finite set of numbers has a greatest one.
LEMMA GreatestIn ==
  ASSUME NEW S \in SUBSET Int, IsFiniteSet(S), S # {}
  PROVE  \E x \in S : \A y \in S : x >= y
<1> DEFINE R == {p \in S \X S : p[1] < p[2]}
           n == Cardinality(S)
<1>1. Linear(R, S)
  BY DEF Linear
<1>2. n \in Nat /\ n > 0
  BY FS_CardinalityType, FS_EmptySet
<1> HIDE DEF n
<1>3. \A i \in S : RankOf(R, S, i) \in 0 .. n - 1
  BY <1>1, RanksRun DEF n
<1>4. \A i, j \in S : <<i, j>> \in R => RankOf(R, S, i) < RankOf(R, S, j)
  BY <1>1, RanksRun
<1>5. RanksUsed(R, S)
  BY <1>1, RanksRun
<1>6. PICK x \in S : RankOf(R, S, x) = n - 1
  BY <1>2, <1>5 DEF RanksUsed, n
<1>7. \A y \in S : x >= y
  <2> TAKE y \in S
  <2>1. <<x, y>> \notin R
    BY <1>2, <1>3, <1>4, <1>6
  <2> QED BY <2>1
<1> QED BY <1>6, <1>7

\* Max finds it.
LEMMA MaxIn ==
  ASSUME NEW S \in SUBSET Int, IsFiniteSet(S), S # {}
  PROVE  Max(S) \in S /\ \A y \in S : Max(S) >= y
BY GreatestIn DEF Max

-----------------------------------------------------------------------------
(* Keys                                                                    *)

\* Keys of n numbers compare as a strict weak order.
LEMMA KeysOrder ==
  ASSUME NEW n \in Nat, NEW a \in [1 .. n -> Int], NEW b \in [1 .. n -> Int], KeyLess(a, b)
  PROVE  /\ ~KeyLess(b, a)
         /\ \A c \in [1 .. n -> Int] : KeyLess(a, c) \/ KeyLess(c, b)
<1>1. PICK i \in 1 .. n : a[i] < b[i] /\ \A j \in 1 .. i - 1 : a[j] = b[j]
  BY DEF KeyLess
<1>2. ~KeyLess(b, a)
  <2> SUFFICES ASSUME KeyLess(b, a) PROVE FALSE
    OBVIOUS
  <2>1. PICK k \in 1 .. n : b[k] < a[k] /\ \A j \in 1 .. k - 1 : b[j] = a[j]
    BY DEF KeyLess
  <2>2. CASE i < k
    <3>1. i \in 1 .. k - 1
      BY <2>2
    <3> QED BY <1>1, <2>1, <3>1
  <2>3. CASE k < i
    <3>1. k \in 1 .. i - 1
      BY <2>3
    <3> QED BY <1>1, <2>1, <3>1
  <2>4. CASE k = i
    BY <1>1, <2>1, <2>4
  <2> QED BY <2>2, <2>3, <2>4
<1>3. ASSUME NEW c \in [1 .. n -> Int]
      PROVE  KeyLess(a, c) \/ KeyLess(c, b)
  <2> DEFINE Off == {j \in 1 .. i - 1 : c[j] # a[j]}
  <2>1. CASE Off = {}
    <3>1. \A j \in 1 .. i - 1 : c[j] = a[j] /\ c[j] = b[j]
      BY <1>1, <2>1
    <3>2. a[i] < c[i] \/ c[i] < b[i]
      BY <1>1
    <3>3. DOMAIN a = 1 .. n /\ DOMAIN c = 1 .. n
      OBVIOUS
    <3> QED BY <3>1, <3>2, <3>3 DEF KeyLess
  <2>2. CASE Off # {}
    <3>1. PICK j \in Off : \A k \in Off : j <= k
      <4>1. Off \in SUBSET Nat
        OBVIOUS
      <4> HIDE DEF Off
      <4> QED BY <2>2, <4>1, LeastNumber
    <3>2. j \in 1 .. n /\ j \in 1 .. i - 1 /\ c[j] # a[j] /\ a[j] = b[j]
      BY <1>1, <3>1
    <3>3. \A k \in 1 .. j - 1 : c[k] = a[k] /\ c[k] = b[k]
      <4> TAKE k \in 1 .. j - 1
      <4>1. k \in 1 .. i - 1 /\ ~(j <= k)
        BY <3>2
      <4>2. k \notin Off
        BY <3>1, <4>1
      <4> QED BY <1>1, <4>1, <4>2
    <3>4. a[j] < c[j] \/ c[j] < b[j]
      BY <3>2
    <3>5. DOMAIN a = 1 .. n /\ DOMAIN c = 1 .. n
      OBVIOUS
    <3> QED BY <3>2, <3>3, <3>4, <3>5 DEF KeyLess
  <2> QED BY <2>1, <2>2
<1> QED BY <1>2, <1>3

ByKey(keys) == {p \in (DOMAIN keys) \X (DOMAIN keys) : KeyLess(keys[p[1]], keys[p[2]])}

\* So a list may be sorted by the keys of its elements,
LEMMA KeysWeakOrder ==
  ASSUME NEW n \in Nat, NEW m \in Nat, NEW keys \in [1 .. m -> [1 .. n -> Int]], NEW s, DOMAIN s = 1 .. m
  PROVE  WeakOrder(s, ByKey(keys))
<1> DEFINE less == ByKey(keys)
<1>1. \A i, j \in 1 .. m : <<i, j>> \in less <=> KeyLess(keys[i], keys[j])
  BY DEF ByKey
<1>2. less \subseteq (1 .. m) \X (1 .. m)
  BY DEF ByKey
<1> HIDE DEF less
<1>3. \A i, j \in 1 .. m : <<i, j>> \in less => <<j, i>> \notin less
  BY <1>1, KeysOrder
<1>4. \A i, j, k \in 1 .. m : <<i, j>> \in less => <<i, k>> \in less \/ <<k, j>> \in less
  BY <1>1, KeysOrder
<1> QED BY <1>2, <1>3, <1>4 DEF WeakOrder, less

\* and then the first components ascend.
LEMMA FirstOfKeys ==
  ASSUME NEW n \in Nat, n >= 1, NEW a \in [1 .. n -> Int], NEW b \in [1 .. n -> Int], ~KeyLess(b, a)
  PROVE  a[1] <= b[1]
<1> SUFFICES ASSUME b[1] < a[1] PROVE FALSE
  OBVIOUS
<1>1. 1 \in DOMAIN b /\ 1 .. 1 - 1 = {}
  OBVIOUS
<1> QED BY <1>1 DEF KeyLess

-----------------------------------------------------------------------------
(* Folds                                                                   *)

\* The recursion of a fold has a solution: for a first step that cannot be taken, the ones
\* before it can.
LEMMA FoldStages ==
  ASSUME NEW S, NEW start \in S, NEW m \in Nat, NEW step \in [1 .. m -> [S -> S]]
  PROVE  \E f \in [0 .. m -> S] : f[0] = start /\ \A n \in 1 .. m : f[n] = step[n][f[n - 1]]
<1> DEFINE Upto(k, f) == f \in [0 .. k -> S] /\ f[0] = start /\ \A n \in 1 .. k : f[n] = step[n][f[n - 1]]
           Good == {k \in 0 .. m : \E f : Upto(k, f)}
<1>1. 0 \in Good
  <2> DEFINE f == [n \in 0 .. 0 |-> start]
  <2>1. Upto(0, f)
    OBVIOUS
  <2> HIDE DEF Upto, f
  <2> QED BY <2>1
<1>2. \A k \in 1 .. m : k - 1 \in Good => k \in Good
  <2> SUFFICES ASSUME NEW k \in 1 .. m, k - 1 \in Good PROVE k \in Good
    OBVIOUS
  <2>1. PICK g : Upto(k - 1, g)
    OBVIOUS
  <2> DEFINE f == [n \in 0 .. k |-> IF n = k THEN step[k][g[k - 1]] ELSE g[n]]
  <2>2. g[k - 1] \in S
    BY <2>1
  <2>3. step[k][g[k - 1]] \in S
    BY <2>2
  <2>4. f \in [0 .. k -> S] /\ f[0] = start
    BY <2>1, <2>3
  <2>5. \A n \in 1 .. k : f[n] = step[n][f[n - 1]]
    <3> TAKE n \in 1 .. k
    <3>1. CASE n = k
      <4>1. k - 1 \in 0 .. k /\ k - 1 # k /\ k \in 0 .. k
        OBVIOUS
      <4>2. f[k] = step[k][g[k - 1]] /\ f[k - 1] = g[k - 1]
        BY <4>1
      <4> HIDE DEF f
      <4> QED BY <3>1, <4>2
    <3>2. CASE n # k
      <4>1. n \in 1 .. k - 1 /\ n - 1 \in 0 .. k /\ n - 1 # k /\ n \in 0 .. k
        BY <3>2
      <4>2. f[n] = g[n] /\ f[n - 1] = g[n - 1]
        BY <3>2, <4>1
      <4> HIDE DEF f
      <4> QED BY <2>1, <4>1, <4>2
    <3> QED BY <3>1, <3>2
  <2> HIDE DEF f
  <2>6. Upto(k, f)
    BY <2>4, <2>5
  <2> HIDE DEF Upto
  <2> QED BY <2>6
<1> HIDE DEF Good
<1>3. m \in Good
  <2>1. \A k \in 0 .. m : k \in Good
    BY <1>1, <1>2, UpTo
  <2> QED BY <2>1
<1> QED BY <1>3 DEF Good

-----------------------------------------------------------------------------
(* Lists that give the members of a set in an order                        *)

\* s gives what ev makes of the members of S, in the order R: its i-th is of src[i].
Gives(s, S, ev, R, src) ==
  /\ src \in [1 .. Len(s) -> S]
  /\ \A x \in S : \E i \in 1 .. Len(s) : src[i] = x
  /\ \A i \in 1 .. Len(s) : s[i] = ev[src[i]]
  /\ \A i, j \in 1 .. Len(s) : i < j => <<src[i], src[j]>> \in R

\* A sequence of any values
IsList(s) == \E T : s \in Seq(T)

\* s lists the members of S in the order R.
Lists(s, S, ev, R) == IsList(s) /\ \E src : Gives(s, S, ev, R, src)

\* What a list is.
LEMMA ListHas ==
  ASSUME NEW s, IsList(s)
  PROVE  Len(s) \in Nat /\ DOMAIN s = 1 .. Len(s)
<1>1. PICK T : s \in Seq(T)
  BY DEF IsList
<1> QED BY <1>1

\* The empty list lists nothing.
LEMMA NothingListed ==
  ASSUME NEW ev, NEW R
  PROVE  Lists(<<>>, {}, ev, R)
<1> DEFINE s == <<>>
<1>1. s \in Seq({}) /\ Len(s) = 0
  OBVIOUS
<1>2. 1 .. 0 = {}
  OBVIOUS
<1> HIDE DEF s
<1>3. [i \in 1 .. Len(s) |-> i] \in [1 .. Len(s) -> {}]
  BY <1>1, <1>2
<1>4. Gives(s, {}, ev, R, [i \in 1 .. Len(s) |-> i])
  BY <1>1, <1>2, <1>3 DEF Gives
<1>5. Lists(s, {}, ev, R)
  BY <1>1, <1>4 DEF Lists, IsList
<1> QED BY <1>5 DEF s

\* A list of one lists one.
LEMMA OneListed ==
  ASSUME NEW ev, NEW R, NEW x, NEW e, e = ev[x]
  PROVE  Lists(<<e>>, {x}, ev, R)
<1> DEFINE s == <<e>>
<1>1. s \in Seq({e}) /\ Len(s) = 1 /\ s[1] = e
  OBVIOUS
<1>2. 1 .. 1 = {1}
  OBVIOUS
<1> HIDE DEF s
<1> DEFINE src == [i \in 1 .. Len(s) |-> x]
<1>3. src \in [1 .. Len(s) -> {x}] /\ \A i \in 1 .. Len(s) : src[i] = x
  OBVIOUS
<1> HIDE DEF src
<1>4. Gives(s, {x}, ev, R, src)
  <2>1. 1 .. Len(s) = {1}
    BY <1>1, <1>2
  <2> QED BY <1>1, <1>3, <2>1 DEF Gives
<1>5. Lists(s, {x}, ev, R)
  BY <1>1, <1>4 DEF Lists, IsList
<1> QED BY <1>5 DEF s

\* One list after another, when all of the first come before all of the second
LEMMA ListsJoin ==
  ASSUME NEW s, NEW t, NEW S, NEW T, NEW ev, NEW R, Lists(s, S, ev, R), Lists(t, T, ev, R),
         \A x \in S, y \in T : <<x, y>> \in R
  PROVE  Lists(s \o t, S \union T, ev, R)
<1>1. PICK a : Gives(s, S, ev, R, a)
  BY DEF Lists
<1>2. PICK b : Gives(t, T, ev, R, b)
  BY DEF Lists
<1>3. PICK U : s \in Seq(U)
  BY DEF Lists, IsList
<1>4. PICK V : t \in Seq(V)
  BY DEF Lists, IsList
<1> DEFINE W == U \union V
           n == Len(s)
           m == Len(t)
           q == s \o t
<1>5. s \in Seq(W) /\ t \in Seq(W)
  <2>1. U \subseteq W /\ V \subseteq W
    OBVIOUS
  <2> HIDE DEF W
  <2> QED BY <1>3, <1>4, <2>1
<1> HIDE DEF W
<1>6. /\ q \in Seq(W) /\ n \in Nat /\ m \in Nat /\ Len(q) = n + m
      /\ \A i \in 1 .. n : q[i] = s[i]
      /\ \A i \in 1 .. m : q[n + i] = t[i]
  BY <1>5
<1> HIDE DEF q, n, m
<1> DEFINE c == [i \in 1 .. n + m |-> IF i <= n THEN a[i] ELSE b[i - n]]
<1>7. /\ \A i \in 1 .. n : a[i] \in S /\ s[i] = ev[a[i]]
      /\ \A i \in 1 .. m : b[i] \in T /\ t[i] = ev[b[i]]
      /\ \A x \in S : \E i \in 1 .. n : a[i] = x
      /\ \A x \in T : \E i \in 1 .. m : b[i] = x
      /\ \A i, j \in 1 .. n : i < j => <<a[i], a[j]>> \in R
      /\ \A i, j \in 1 .. m : i < j => <<b[i], b[j]>> \in R
  BY <1>1, <1>2 DEF Gives, n, m
<1>8. /\ \A i \in 1 .. n : i \in 1 .. n + m /\ c[i] = a[i]
      /\ \A i \in 1 .. m : n + i \in 1 .. n + m /\ c[n + i] = b[i]
      /\ \A i \in 1 .. n + m : i \in 1 .. n \/ (i - n \in 1 .. m /\ n + (i - n) = i)
  BY <1>6
<1>9. c \in [1 .. n + m -> S \union T]
  BY <1>6, <1>7
<1> HIDE DEF c
<1>10. \A x \in S \union T : \E i \in 1 .. n + m : c[i] = x
  BY <1>7, <1>8
<1>11. \A i \in 1 .. n + m : q[i] = ev[c[i]]
  <2> TAKE i \in 1 .. n + m
  <2>1. CASE i \in 1 .. n
    BY <1>6, <1>7, <1>8, <2>1
  <2>2. CASE i - n \in 1 .. m /\ n + (i - n) = i
    <3> DEFINE k == i - n
    <3>1. k \in 1 .. m /\ n + k = i
      BY <2>2
    <3> HIDE DEF k
    <3>2. q[n + k] = t[k] /\ c[n + k] = b[k] /\ t[k] = ev[b[k]]
      BY <1>6, <1>7, <1>8, <3>1
    <3> QED BY <3>1, <3>2
  <2> QED BY <1>8, <2>1, <2>2
<1>12. \A i, j \in 1 .. n + m : i < j => <<c[i], c[j]>> \in R
  <2> SUFFICES ASSUME NEW i \in 1 .. n + m, NEW j \in 1 .. n + m, i < j PROVE <<c[i], c[j]>> \in R
    OBVIOUS
  <2>1. CASE i \in 1 .. n /\ j \in 1 .. n
    BY <1>7, <1>8, <2>1
  <2>2. CASE i \in 1 .. n /\ j \notin 1 .. n
    <3> DEFINE l == j - n
    <3>1. l \in 1 .. m /\ n + l = j
      BY <1>8, <2>2
    <3> HIDE DEF l
    <3>2. c[i] = a[i] /\ c[n + l] = b[l] /\ a[i] \in S /\ b[l] \in T
      BY <1>7, <1>8, <2>2, <3>1
    <3> QED BY <3>1, <3>2
  <2>3. CASE i \notin 1 .. n
    <3> DEFINE k == i - n
               l == j - n
    <3>1. k \in 1 .. m /\ n + k = i /\ l \in 1 .. m /\ n + l = j /\ k < l
      BY <1>6, <1>8, <2>3
    <3> HIDE DEF k, l
    <3>2. c[n + k] = b[k] /\ c[n + l] = b[l] /\ <<b[k], b[l]>> \in R
      BY <1>7, <1>8, <3>1
    <3> QED BY <3>1, <3>2
  <2> QED BY <2>1, <2>2, <2>3
<1>13. Gives(q, S \union T, ev, R, c)
  BY <1>6, <1>9, <1>10, <1>11, <1>12 DEF Gives
<1>14. IsList(q)
  BY <1>6 DEF IsList
<1> QED BY <1>13, <1>14 DEF Lists, q

\* In an order that says more
LEMMA ListsOrdered ==
  ASSUME NEW s, NEW S, NEW ev, NEW R, Lists(s, S, ev, R), NEW Q, \A x, y \in S : <<x, y>> \in R => <<x, y>> \in Q
  PROVE  Lists(s, S, ev, Q)
BY DEF Lists, Gives

\* A list sorted by less, of whose members those are in the order Q that the sort or, where it
\* sees no difference, the list so far puts one before the other.
LEMMA ListsSorted ==
  ASSUME NEW s, NEW S, NEW ev, NEW R, NEW src, IsList(s), Gives(s, S, ev, R, src),
         NEW less, WeakOrder(s, less), NEW Q,
         \A i, j \in 1 .. Len(s) :
           <<i, j>> \in less \/ (<<j, i>> \notin less /\ i < j) => <<src[i], src[j]>> \in Q
  PROVE  Lists(SortedBy(s, less), S, ev, Q)
<1> DEFINE n == Len(s)
           D == DOMAIN s
           R2 == Stable(s, less)
           at == [k \in D |-> CHOOSE i \in D : RankOf(R2, D, i) = k - 1]
           count == [i \in D |-> RankOf(R2, D, i)]
           q == SortedBy(s, less)
<1>1. n \in Nat /\ D = 1 .. n
  BY ListHas
<1>2. Linear(R2, 1 .. n)
  BY <1>1, StableOrders
<1>3. q = [k \in D |-> s[at[k]]]
  BY DEF SortedBy
<1>4. \A i \in 1 .. n : count[i] = RankOf(R2, 1 .. n, i)
  BY <1>1
<1>5. \A k \in 1 .. n : at[k] = CHOOSE i \in 1 .. n : count[i] = k - 1
  <2> TAKE k \in 1 .. n
  <2>1. at[k] = CHOOSE i \in D : RankOf(R2, D, i) = k - 1
    BY <1>1
  <2>2. \A i \in D : count[i] = RankOf(R2, D, i)
    OBVIOUS
  <2> HIDE DEF at, count
  <2> QED BY <1>1, <2>1, <2>2
<1> HIDE DEF at, count, q
<1>6. ByRank(at, R2, n)
  BY <1>1, <1>2, <1>4, <1>5, CountsRank, Zenon
<1>7. InOrder(at, R2, n) /\ \A k \in 1 .. n : at[k] \in 1 .. n
  BY <1>1, <1>2, <1>6, PlacesSort DEF ByRank
<1>8. \A i, j \in 1 .. n : <<i, j>> \in R2 => <<src[i], src[j]>> \in Q
  <2> SUFFICES ASSUME NEW i \in 1 .. n, NEW j \in 1 .. n, <<i, j>> \in R2 PROVE <<src[i], src[j]>> \in Q
    OBVIOUS
  <2>1. <<i, j>> \in less \/ (<<j, i>> \notin less /\ i < j)
    BY DEF Stable
  <2> QED BY <2>1
<1> HIDE DEF R2
<1> DEFINE c == [k \in 1 .. n |-> src[at[k]]]
<1>9. \A k \in 1 .. n : q[k] = s[at[k]] /\ c[k] = src[at[k]]
  BY <1>1, <1>3
<1>10. PICK T : s \in Seq(T)
  BY DEF IsList
<1>11. q \in Seq(T) /\ Len(q) = n
  <2>1. \A k \in 1 .. n : s[k] \in T
    BY <1>10
  <2>2. \A k \in 1 .. n : q[k] \in T
    BY <1>7, <1>9, <2>1
  <2>3. q = [k \in 1 .. n |-> q[k]]
    BY <1>1, <1>3
  <2> HIDE DEF n
  <2> QED BY <1>1, <2>2, <2>3
<1>12. c \in [1 .. n -> S]
  BY <1>7 DEF Gives
<1> HIDE DEF c, n
<1>13. \A x \in S : \E k \in 1 .. n : c[k] = x
  <2> TAKE x \in S
  <2>1. PICK i \in 1 .. n : src[i] = x
    BY DEF Gives, n
  <2>2. PICK k \in 1 .. n : at[k] = i
    BY <1>7, <2>1 DEF InOrder
  <2> QED BY <1>9, <2>1, <2>2
<1>14. \A k \in 1 .. n : q[k] = ev[c[k]]
  BY <1>7, <1>9 DEF Gives, n
<1>15. \A k, l \in 1 .. n : k < l => <<c[k], c[l]>> \in Q
  BY <1>7, <1>8, <1>9 DEF InOrder
<1>16. Gives(q, S, ev, Q, c)
  BY <1>11, <1>12, <1>13, <1>14, <1>15 DEF Gives
<1> QED BY <1>11, <1>16 DEF Lists, IsList, q

\* The last of a list is of the last member.
LEMMA LastListed ==
  ASSUME NEW s, NEW S, NEW ev, NEW R, Lists(s, S, ev, R), NEW x \in S,
         \A y \in S : <<x, y>> \notin R
  PROVE  Len(s) \in Nat \ {0} /\ s # <<>> /\ Last(s) = ev[x]
<1>1. PICK src : Gives(s, S, ev, R, src)
  BY DEF Lists
<1>2. Len(s) \in Nat
  BY ListHas DEF Lists
<1>3. PICK i \in 1 .. Len(s) : src[i] = x
  BY <1>1 DEF Gives
<1>4. i = Len(s)
  <2> SUFFICES ASSUME i < Len(s) PROVE FALSE
    BY <1>2
  <2>1. Len(s) \in 1 .. Len(s)
    BY <1>2
  <2>2. src[Len(s)] \in S /\ <<x, src[Len(s)]>> \in R
    BY <1>1, <1>3, <2>1 DEF Gives
  <2> QED BY <2>2
<1>5. s[Len(s)] = ev[x] /\ Len(s) # 0
  BY <1>1, <1>2, <1>3, <1>4 DEF Gives
<1>6. s # <<>>
  BY <1>5
<1> QED BY <1>2, <1>5, <1>6 DEF Last

\* What is picked of a list are its places, as the members of a set of numbers.
LEMMA PickedLists ==
  ASSUME NEW T, NEW s \in Seq(T), NEW places \in SUBSET DOMAIN s
  PROVE  Lists(Picked(s, places), places, s, {p \in places \X places : p[1] < p[2]})
<1> DEFINE q == Picked(s, places)
           R == {p \in places \X places : p[1] < p[2]}
<1>1. PICK at : q \in Seq(T) /\ Keeps(q, s, places, at)
  BY PickedKeeps
<1> HIDE DEF q
<1>2. \A x, y \in places : x < y => <<x, y>> \in R
  OBVIOUS
<1> HIDE DEF R
<1>3. Gives(q, places, s, R, at)
  BY <1>1, <1>2 DEF Gives, Keeps
<1>4. Lists(q, places, s, R)
  BY <1>1, <1>3 DEF Lists, IsList
<1> QED BY <1>4 DEF q, R
=============================================================================
