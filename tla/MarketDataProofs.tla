-------------------------- MODULE MarketDataProofs --------------------------
(***************************************************************************)
(* Proofs about the data layer: the markets found (Discovery), the trades  *)
(* and the bars loaded (TradeLoads).  Lists are sorted and picked from by  *)
(* the lemmas of ListProofs; what is said of a load rests on TradesInv,    *)
(* which says at every request what the pages so far have seen of a list   *)
(* that grows meanwhile.  What is said of a result rests on ToldInv, what  *)
(* the services have told of the market up to each request, and on         *)
(* AccountInv, that the fills settle to the account at any price.  What is *)
(* said of a rebuilt book rests on FeedInv, that it is the book of the row *)
(* of the last deltas.                                                     *)
(***************************************************************************)
EXTENDS MarketData, ListProofs

-----------------------------------------------------------------------------
(* A list of numbers, the newest first                                     *)

After(S) == {p \in S \X S : p[1] > p[2]}

\* NewestFirst lists the numbers of S.
LEMMA NewestListed ==
  ASSUME NEW S \in SUBSET Nat, IsFiniteSet(S)
  PROVE  /\ Cardinality(S) \in Nat
         /\ NewestFirst(S) \in [1 .. Cardinality(S) -> S]
<1> DEFINE R == After(S)
           count == [i \in S |-> Cardinality({j \in S : j > i})]
           at == [k \in 1 .. Cardinality(S) |-> CHOOSE i \in S : Cardinality({j \in S : j > i}) = k - 1]
<1>1. Linear(R, S)
  BY DEF Linear, After
<1>2. Cardinality(S) \in Nat /\ RanksUsed(R, S)
  <2> HIDE DEF R
  <2> QED BY <1>1, RanksRun
<1>3. \A i \in S : RankOf(R, S, i) = Cardinality({j \in S : j > i})
  <2> TAKE i \in S
  <2>1. {j \in S : <<j, i>> \in R} = {j \in S : j > i}
    BY DEF After
  <2> QED BY <2>1 DEF RankOf
<1>4. \A k \in 1 .. Cardinality(S) : at[k] \in S
  <2> TAKE k \in 1 .. Cardinality(S)
  <2>1. \E i \in S : Cardinality({j \in S : j > i}) = k - 1
    BY <1>2, <1>3 DEF RanksUsed
  <2> QED BY <2>1
<1>5. NewestFirst(S) = at
  BY DEF NewestFirst, Ranked
<1> HIDE DEF at
<1>6. at = [k \in 1 .. Cardinality(S) |-> at[k]]
  BY DEF at
<1> QED BY <1>2, <1>4, <1>5, <1>6

-----------------------------------------------------------------------------
(* The games found                                                         *)

\* The elements of Collected, as far as they are read off.
Collects(all, collected, page, m) ==
  all = [n \in 0 .. m |->
           IF n = 0 THEN collected
           ELSE IF NewGame(page[n], Slugs(all[n - 1])) THEN Append(all[n - 1], MainMarket(page[n])[1]) ELSE all[n - 1]]

LEMMA CollectedStages ==
  ASSUME NEW collected, NEW page, Len(page) \in Nat
  PROVE  \E all : Collects(all, collected, page, Len(page)) /\ Collected(collected, page) = all[Len(page)]
<1> DEFINE Lost == {m \in Nat : ~\E all : Collects(all, collected, page, m)}
           Next(all, m) == IF NewGame(page[m], Slugs(all)) THEN Append(all, MainMarket(page[m])[1]) ELSE all
<1>0. \A all, m : Collects(all, collected, page, m) <=>
                  all = [n \in 0 .. m |-> IF n = 0 THEN collected ELSE Next(all[n - 1], n)]
  BY DEF Collects
<1> HIDE DEF Next
<1>1. Lost = {}
  <2> SUFFICES ASSUME Lost # {} PROVE FALSE
    OBVIOUS
  <2>1. PICK m \in Lost : \A k \in Lost : m <= k
    BY LeastNumber
  <2>2. CASE m = 0
    <3> DEFINE f == [i \in 0 .. 0 |-> collected]
    <3>1. Collects(f, collected, page, 0)
      BY DEF Collects
    <3> QED BY <2>1, <2>2, <3>1
  <2>3. CASE m # 0
    <3>1. m - 1 \in Nat /\ m - 1 \notin Lost
      BY <2>1, <2>3
    <3>2. PICK g : Collects(g, collected, page, m - 1)
      BY <3>1
    <3> DEFINE f == [i \in 0 .. m |-> IF i = m THEN Next(g[m - 1], m) ELSE g[i]]
    <3>3. \A i \in 0 .. m - 1 : f[i] = g[i]
      BY <3>1
    <3>4. \A i \in 0 .. m - 1 : g[i] = IF i = 0 THEN collected ELSE Next(g[i - 1], i)
      BY <3>2, <1>0
    <3>5. \A i \in 0 .. m : f[i] = IF i = 0 THEN collected ELSE Next(f[i - 1], i)
      <4> TAKE i \in 0 .. m
      <4>1. CASE i = m
        BY <4>1, <3>1, <3>3, <2>3
      <4>2. CASE i # m
        <5>1. i \in 0 .. m - 1 /\ (i # 0 => i - 1 \in 0 .. m - 1)
          BY <4>2, <3>1
        <5>2. f[i] = g[i] /\ (i # 0 => f[i - 1] = g[i - 1])
          BY <5>1, <3>3
        <5> HIDE DEF f
        <5> QED BY <5>1, <5>2, <3>4
      <4> QED BY <4>1, <4>2
    <3>6. Collects(f, collected, page, m)
      <4> HIDE DEF f
      <4>1. f = [i \in 0 .. m |-> f[i]]
        BY DEF f
      <4> QED BY <3>5, <4>1, <1>0
    <3> QED BY <2>1, <3>6
  <2> QED BY <2>2, <2>3
<1> DEFINE h == CHOOSE all : Collects(all, collected, page, Len(page))
<1>2. Collects(h, collected, page, Len(page))
  BY <1>1
<1>3. Collected(collected, page) = h[Len(page)]
  BY DEF Collected, Collects
<1> QED BY <1>2, <1>3

\* Markets of different slugs, each of some volume.
Different(markets) ==
  /\ markets \in Seq(Range(markets))
  /\ \A i, j \in DOMAIN markets : markets[i].slug = markets[j].slug => i = j
  /\ \A i \in DOMAIN markets : EventVolume(markets[i]) \in Int

\* What is kept of numbers is numbers.
LEMMA VolumeCounted ==
  ASSUME NEW m, m.volumes \in Seq(Int)
  PROVE  Volume24h(m) \in Int
<1> DEFINE places == {i \in DOMAIN m.volumes : IF m.venue = "KALSHI" THEN m.volumes[i] > 0 ELSE Known(m.volumes[i])}
           kept == Picked(m.volumes, places)
<1>1. Volume24h(m) = OrZero(IF kept = <<>> THEN None ELSE kept[1])
  BY DEF Volume24h, FirstSuch, Keep
<1>2. kept \in Seq(Int)
  <2>1. places \in SUBSET DOMAIN m.volumes
    OBVIOUS
  <2> HIDE DEF places
  <2> QED BY <2>1, PickedInOrder
<1> HIDE DEF kept
<1>3. kept # <<>> => kept[1] \in Int
  BY <1>2
<1> QED BY <1>1, <1>3 DEF OrZero, None

\* The market of an event has a volume.
LEMMA MainMarketCounted ==
  ASSUME NEW event, IsEvent(event), MainMarket(event) # <<>>
  PROVE  EventVolume(MainMarket(event)[1]) \in Int
<1> DEFINE own == Keep(event.markets, LAMBDA m : m.slug = event.slug)
           places == {i \in DOMAIN event.markets : event.markets[i].slug = event.slug}
           x == own[1]
<1>1. own = Picked(event.markets, places)
  BY DEF Keep
<1>2. own # <<>> /\ MainMarket(event) =
        <<[own[1] EXCEPT !.starts = <<IF @[1] = None THEN event.startTime ELSE @[1]>> \o Tail(@),
                         !.closes = <<IF @[1] = None THEN event.closedTime ELSE @[1]>> \o Tail(@),
                         !.event_total_volume = event.volume]>>
  BY DEF MainMarket
<1>3. own \in Seq(Range(event.markets))
  <2>1. places \in SUBSET DOMAIN event.markets
    OBVIOUS
  <2> HIDE DEF places, own
  <2> QED BY <1>1, <2>1, PickedInOrder DEF IsEvent
<1> HIDE DEF own
<1>4. x \in Range(event.markets)
  BY <1>2, <1>3
<1> HIDE DEF x
<1> DEFINE m == MainMarket(event)[1]
<1>5. m = [x EXCEPT !.starts = <<IF @[1] = None THEN event.startTime ELSE @[1]>> \o Tail(@),
                    !.closes = <<IF @[1] = None THEN event.closedTime ELSE @[1]>> \o Tail(@),
                    !.event_total_volume = event.volume]
  BY <1>2 DEF x
<1>6. m.event_total_volume = event.volume /\ m.volumes = x.volumes
  BY <1>4, <1>5 DEF IsEvent
<1> HIDE DEF m
<1>7. Volume24h(m) \in Int
  BY <1>4, <1>6, VolumeCounted DEF IsEvent
<1> QED BY <1>6, <1>7 DEF EventVolume, IsEvent, m

\* One more market of a new slug.
LEMMA OneMoreDifferent ==
  ASSUME NEW markets, Different(markets), NEW m, m.slug \notin Slugs(markets), EventVolume(m) \in Int
  PROVE  Different(Append(markets, m))
<1> DEFINE more == Append(markets, m)
           T == Range(markets) \union {m}
<1>1. markets \in Seq(T) /\ m \in T
  BY DEF Different, Range
<1> HIDE DEF T
<1>2. /\ more \in Seq(T) /\ Len(more) = Len(markets) + 1 /\ DOMAIN more = 1 .. Len(markets) + 1
      /\ \A i \in 1 .. Len(markets) : more[i] = markets[i]
      /\ more[Len(markets) + 1] = m
      /\ Len(markets) \in Nat /\ DOMAIN markets = 1 .. Len(markets)
  BY <1>1
<1> HIDE DEF more
<1>3. \A i \in DOMAIN more : \/ i \in DOMAIN markets /\ more[i] = markets[i]
                             \/ i = Len(markets) + 1 /\ more[i] = m
  BY <1>2
<1>4. \A i, j \in DOMAIN more : more[i].slug = more[j].slug => i = j
  BY <1>3 DEF Different, Slugs
<1>5. \A i \in DOMAIN more : EventVolume(more[i]) \in Int
  BY <1>3 DEF Different
<1>6. more \in Seq(Range(more))
  BY <1>2 DEF Range
<1> QED BY <1>4, <1>5, <1>6 DEF Different, more

\* What a page adds are other games.
LEMMA CollectedDifferent ==
  ASSUME NEW collected, Different(collected), NEW page, Len(page) \in Nat,
         \A i \in 1 .. Len(page) : IsEvent(page[i])
  PROVE  Different(Collected(collected, page))
<1>1. PICK all : Collects(all, collected, page, Len(page)) /\ Collected(collected, page) = all[Len(page)]
  BY CollectedStages
<1> DEFINE n == Len(page)
           Good == {i \in 0 .. n : Different(all[i])}
<1>2. n \in Nat
  OBVIOUS
<1>3. all[0] = collected
  BY <1>1, <1>2 DEF Collects
<1>4. ASSUME NEW i \in 1 .. n
      PROVE  all[i] = IF NewGame(page[i], Slugs(all[i - 1])) THEN Append(all[i - 1], MainMarket(page[i])[1])
                      ELSE all[i - 1]
  <2>1. i \in 0 .. n /\ i # 0
    BY <1>2
  <2> QED BY <1>1, <2>1 DEF Collects
<1>5. 0 \in Good
  BY <1>2, <1>3
<1>6. ASSUME NEW i \in 1 .. n, i - 1 \in Good
      PROVE  i \in Good
  <2>1. Different(all[i - 1]) /\ i \in 0 .. n /\ IsEvent(page[i])
    BY <1>2, <1>6
  <2>2. CASE NewGame(page[i], Slugs(all[i - 1]))
    <3> DEFINE m == MainMarket(page[i])[1]
    <3>1. EventVolume(m) \in Int
      BY <2>1, <2>2, MainMarketCounted DEF NewGame
    <3>2. m.slug \notin Slugs(all[i - 1])
      BY <2>2 DEF NewGame
    <3> HIDE DEF m
    <3>3. Different(Append(all[i - 1], m))
      BY <2>1, <3>1, <3>2, OneMoreDifferent
    <3> QED BY <2>1, <2>2, <3>3, <1>4 DEF m
  <2>3. CASE ~NewGame(page[i], Slugs(all[i - 1]))
    BY <2>1, <2>3, <1>4
  <2> QED BY <2>2, <2>3
<1> HIDE DEF Good
<1>7. \A i \in 0 .. n : i \in Good
  BY <1>2, <1>5, <1>6, UpTo
<1>8. n \in Good
  BY <1>2, <1>7
<1> QED BY <1>1, <1>8 DEF Good

ByVolume(s) == {p \in (DOMAIN s) \X (DOMAIN s) : EventVolume(s[p[1]]) > EventVolume(s[p[2]])}

\* The games are sorted by their volumes, none is lost and none comes twice.
LEMMA VolumesSorted ==
  ASSUME NEW s, Different(s)
  PROVE  \E at : Sorts(StableSort(s, LAMBDA m, n : EventVolume(m) > EventVolume(n)), s, ByVolume(s), at)
<1> DEFINE less == ByVolume(s)
           n == Len(s)
           v(i) == EventVolume(s[i])
           count == [i \in DOMAIN s |-> Cardinality({j \in DOMAIN s : v(j) > v(i) \/ (~(v(i) > v(j)) /\ j < i)})]
           at == [k \in 1 .. Cardinality(DOMAIN s) |-> CHOOSE i \in DOMAIN s :
                    Cardinality({j \in DOMAIN s : v(j) > v(i) \/ (~(v(i) > v(j)) /\ j < i)}) = k - 1]
<1>1. n \in Nat /\ DOMAIN s = 1 .. n /\ \A i \in DOMAIN s : v(i) \in Int
  BY DEF Different
<1>2. StableSort(s, LAMBDA a, b : EventVolume(a) > EventVolume(b)) = [k \in DOMAIN s |-> s[at[k]]]
  <2> HIDE DEF n, less, count
  <2> QED BY DEF StableSort, Ranked
<1>3. \A i, j \in DOMAIN s : <<j, i>> \in Stable(s, less) <=> (v(j) > v(i) \/ (~(v(i) > v(j)) /\ j < i))
  BY DEF Stable, ByVolume
<1>4. less = {p \in (DOMAIN s) \X (DOMAIN s) : v(p[1]) > v(p[2])}
  BY DEF ByVolume
<1> HIDE DEF v
<1>5. n \in Nat /\ DOMAIN s = 1 .. n /\ Cardinality(DOMAIN s) = n
  <2> HIDE DEF n
  <2> QED BY <1>1, FS_Interval
<1>6. WeakOrder(s, less)
  <2> HIDE DEF less
  <2> QED BY <1>1, <1>4 DEF WeakOrder
<1>7. \A i \in 1 .. n : count[i] = RankOf(Stable(s, less), 1 .. n, i)
  <2> TAKE i \in 1 .. n
  <2>1. {j \in DOMAIN s : v(j) > v(i) \/ (~(v(i) > v(j)) /\ j < i)} = {j \in 1 .. n : <<j, i>> \in Stable(s, less)}
    BY <1>3, <1>5
  <2> QED BY <2>1, <1>5 DEF RankOf
<1>8. \A k \in 1 .. n : at[k] = CHOOSE i \in 1 .. n : count[i] = k - 1
  BY <1>5
<1>9. Linear(Stable(s, less), 1 .. n)
  BY <1>5, <1>6, StableOrders
<1> HIDE DEF count, at, less
<1>10. ByRank(at, Stable(s, less), n)
  BY <1>5, <1>7, <1>8, <1>9, CountsRank, Zenon
<1>11. Sorts([k \in DOMAIN s |-> s[at[k]]], s, less, at)
  BY <1>5, <1>6, <1>10, StableSorts, Zenon
<1> QED BY <1>2, <1>11 DEF less

\* A page holds events.
LEMMA PageEvents ==
  ASSUME "games" \in Kinds, NEW numbers \in SUBSET DOMAIN Catalog, NEW offset \in Nat, NEW limit \in Nat
  PROVE  /\ Len(PageOf(Entries(numbers), offset, limit)) \in Nat
         /\ \A i \in 1 .. Len(PageOf(Entries(numbers), offset, limit)) :
              IsEvent(PageOf(Entries(numbers), offset, limit)[i])
<1> DEFINE s == NewestFirst(numbers)
           n == Cardinality(numbers)
           T == {Catalog[k] : k \in numbers}
           entries == Entries(numbers)
           last == Min({n, offset + limit})
           page == PageOf(entries, offset, limit)
<1>1. numbers \in SUBSET Nat /\ IsFiniteSet(numbers)
  BY DiscoveryAssumption, FS_Subset
<1>2. n \in Nat /\ s \in [1 .. n -> numbers]
  <2> HIDE DEF s, n
  <2> QED BY <1>1, NewestListed DEF s, n
<1>3. entries = [i \in DOMAIN s |-> Catalog[s[i]]]
  BY DEF Entries
<1> HIDE DEF s, n, entries
<1>4. DOMAIN entries = 1 .. n /\ \A i \in 1 .. n : entries[i] \in T
  BY <1>2, <1>3
<1>5. \A e \in T : IsEvent(e)
  BY DiscoveryAssumption
<1> HIDE DEF T
<1>6. entries \in [1 .. n -> T]
  BY <1>3, <1>4
<1>7. entries \in Seq(T) /\ Len(entries) = n
  BY <1>2, <1>6
<1>8. last \in Nat /\ last <= n
  BY <1>2, MinOfTwo
<1>9. page = SubSeq(entries, offset + 1, last)
  BY <1>7 DEF PageOf
<1> HIDE DEF last, page
<1>10. page \in Seq(T)
  <2>1. CASE offset + 1 <= last
    <3>1. offset + 1 \in 1 .. Len(entries) + 1 /\ last \in 0 .. Len(entries)
      BY <2>1, <1>7, <1>8, <1>2
    <3> QED BY <3>1, <1>7, <1>9
  <2>2. CASE ~(offset + 1 <= last)
    <3>1. page = <<>>
      BY <2>2, <1>7, <1>8, <1>9
    <3> QED BY <3>1
  <2> QED BY <2>1, <2>2
<1>11. Len(page) \in Nat /\ \A i \in 1 .. Len(page) : page[i] \in T
  BY <1>10
<1> QED BY <1>5, <1>11 DEF page, entries

SearchFields == {"kind", "pc", "series", "offset", "pages", "cursor", "collected", "found"}

FoundDifferent(found) == \A i, j \in DOMAIN found : found[i].slug = found[j].slug => i = j

\* A search of games: where it is, and that what it has collected are different games.
GamesInv ==
  /\ "games" \in Kinds
  /\ DOMAIN search = SearchFields /\ search.kind = "games"
  /\ search.pc \in {"sports", "pages", "sort", "done"}
  /\ search.pc = "sports" => search.series = 1 /\ search.offset = 0
  /\ search.pc = "pages" => search.series \in DOMAIN Series /\ search.offset \in Nat /\ search.offset < PerSeriesLimit
  /\ listing.of \in [Range(Series) -> SUBSET DOMAIN Catalog]
  /\ Different(search.collected)
  /\ FoundDifferent(search.found)

LEMMA LimitPositive == PerSeriesLimit \in Nat /\ PerSeriesLimit >= 1
BY DiscoveryAssumption, MinOfTwo DEF PerSeriesLimit

LEMMA GamesInit ==
  ASSUME DiscoveryInit, search.kind = "games"
  PROVE  GamesInv
<1>1. PICK kind \in Kinds :
        /\ listing = [of |-> [s \in SeriesOf(kind) |-> {n \in DOMAIN Catalog : s \in Catalog[n].series}],
                      changes |-> 0]
        /\ search = [kind |-> kind, pc |-> IF kind = "games" THEN "sports" ELSE "pages",
                     series |-> 1, offset |-> 0, pages |-> 0, cursor |-> None,
                     collected |-> <<>>, found |-> <<>>]
  BY DEF DiscoveryInit
<1>2. kind = "games"
  BY <1>1
<1>3. listing.of \in [Range(Series) -> SUBSET DOMAIN Catalog]
  BY <1>1, <1>2 DEF SeriesOf
<1>4. Different(<<>>) /\ FoundDifferent(<<>>)
  BY DEF Different, FoundDifferent, Range
<1>5. /\ DOMAIN search = SearchFields /\ search.pc = "sports" /\ search.series = 1 /\ search.offset = 0
      /\ search.collected = <<>> /\ search.found = <<>>
  BY <1>1, <1>2 DEF SearchFields
<1> QED BY <1>2, <1>3, <1>4, <1>5 DEF GamesInv

\* MoveTo changes some fields and leaves the others.
LEMMA Moves ==
  ASSUME NEW fields, MoveTo(fields), DOMAIN search = SearchFields
  PROVE  /\ DOMAIN search' = SearchFields
         /\ \A k \in SearchFields : search'[k] = IF k \in DOMAIN fields THEN fields[k] ELSE search[k]
BY DEF MoveTo, Get

\* The step from one series to the next.
LEMMA NextSeriesKeeps ==
  ASSUME GamesInv, search.pc = "pages", NEW collected, Different(collected), NextSeries(collected),
         UNCHANGED listing
  PROVE  GamesInv'
<1> DEFINE f == [collected |-> collected, series |-> search.series + 1, offset |-> 0,
                 pc |-> IF search.series = Len(Series) \/ Len(collected) >= TargetBuffer THEN "sort" ELSE "pages"]
<1>1. MoveTo(f)
  BY DEF NextSeries
<1>2. /\ DOMAIN search' = SearchFields
      /\ \A k \in SearchFields : search'[k] = IF k \in DOMAIN f THEN f[k] ELSE search[k]
  <2> HIDE DEF f
  <2> QED BY <1>1, Moves DEF GamesInv
<1>3. /\ search'.collected = collected /\ search'.series = search.series + 1 /\ search'.offset = 0
      /\ search'.kind = search.kind /\ search'.found = search.found
      /\ search'.pc \in {"sort", "pages"} /\ (search'.pc = "pages" => search.series # Len(Series))
  BY <1>2 DEF SearchFields
<1>4. search.series # Len(Series) => search.series + 1 \in DOMAIN Series
  BY DiscoveryAssumption DEF GamesInv
<1> QED BY <1>2, <1>3, <1>4, LimitPositive DEF GamesInv

\* What is cut off a sorted list of different games.
LEMMA FirstDifferent ==
  ASSUME NEW s, Different(s)
  PROVE  FoundDifferent(FirstOf(StableSort(s, LAMBDA m, n : EventVolume(m) > EventVolume(n)), CandidateLimit))
<1> DEFINE t == StableSort(s, LAMBDA m, n : EventVolume(m) > EventVolume(n))
           first == FirstOf(t, CandidateLimit)
           c == IF CandidateLimit < Len(t) THEN CandidateLimit ELSE Len(t)
<1>1. PICK at : Sorts(t, s, ByVolume(s), at)
  BY VolumesSorted
<1>2. first = SubSeq(t, 1, c)
  BY DEF FirstOf
<1> HIDE DEF t
<1>3. /\ DOMAIN t = DOMAIN s /\ \A k \in DOMAIN s : at[k] \in DOMAIN s /\ t[k] = s[at[k]]
      /\ \A k, l \in DOMAIN s : at[k] = at[l] => k = l
  BY <1>1 DEF Sorts
<1>4. Len(s) \in Nat /\ DOMAIN s = 1 .. Len(s) /\ \A i \in DOMAIN s : s[i] \in Range(s)
  BY DEF Different
<1>5. t \in Seq(Range(s)) /\ Len(t) = Len(s)
  <2>1. \A k \in 1 .. Len(s) : t[k] \in Range(s)
    BY <1>3, <1>4
  <2>2. t = [k \in 1 .. Len(s) |-> t[k]]
    BY <1>1, <1>4 DEF Sorts
  <2>3. t \in [1 .. Len(s) -> Range(s)]
    BY <2>1, <2>2
  <2> QED BY <1>4, <2>3
<1>6. c \in 0 .. Len(t)
  BY <1>4, <1>5, DiscoveryAssumption
<1> HIDE DEF c
<1>7. DOMAIN first = 1 .. c /\ \A k \in 1 .. c : first[k] = t[k]
  BY <1>2, <1>5, <1>6
<1> HIDE DEF first
<1>8. ASSUME NEW k \in 1 .. c, NEW l \in 1 .. c, first[k].slug = first[l].slug
      PROVE  k = l
  <2>1. k \in DOMAIN s /\ l \in DOMAIN s
    BY <1>4, <1>5, <1>6
  <2>2. s[at[k]].slug = s[at[l]].slug
    BY <1>3, <1>7, <1>8, <2>1
  <2>3. at[k] = at[l]
    BY <1>3, <2>1, <2>2 DEF Different
  <2> QED BY <1>3, <2>1, <2>3
<1> QED BY <1>7, <1>8 DEF FoundDifferent, first, t

\* Every step of a search of games.
LEMMA GamesKept ==
  ASSUME GamesInv, DiscoveryNext
  PROVE  GamesInv'
<1>1. CASE ListChanges
  <2>1. PICK s \in DOMAIN listing.of, n \in DOMAIN Catalog :
          listing' = [of |-> [listing.of EXCEPT ![s] = IF n \in @ THEN @ \ {n} ELSE @ \union {n}],
                      changes |-> listing.changes + 1]
    BY <1>1 DEF ListChanges
  <2>2. listing'.of \in [Range(Series) -> SUBSET DOMAIN Catalog] /\ UNCHANGED search
    BY <1>1, <2>1 DEF ListChanges, GamesInv
  <2> QED BY <2>2 DEF GamesInv
<1>2. CASE SportsAnswered
  <2>1. search.pc = "sports" /\ UNCHANGED listing
    BY <1>2 DEF SportsAnswered
  <2>2. CASE MoveTo([pc |-> IF Series = <<>> THEN "sort" ELSE "pages"])
    <3> DEFINE f == [pc |-> IF Series = <<>> THEN "sort" ELSE "pages"]
    <3>1. /\ DOMAIN search' = SearchFields
          /\ \A k \in SearchFields : search'[k] = IF k \in DOMAIN f THEN f[k] ELSE search[k]
      <4> HIDE DEF f
      <4> QED BY <2>2, Moves DEF GamesInv, f
    <3>2. /\ search'.pc \in {"sort", "pages"} /\ (search'.pc = "pages" => Series # <<>>)
          /\ search'.kind = search.kind /\ search'.found = search.found /\ search'.series = search.series
          /\ search'.offset = search.offset /\ search'.collected = search.collected
      BY <3>1 DEF SearchFields
    <3>3. Series # <<>> => 1 \in DOMAIN Series
      BY DiscoveryAssumption
    <3> QED BY <2>1, <3>1, <3>2, <3>3, LimitPositive DEF GamesInv
  <2>3. CASE MoveTo([pc |-> "done"])
    <3> DEFINE f == [pc |-> "done"]
    <3>1. /\ DOMAIN search' = SearchFields
          /\ \A k \in SearchFields : search'[k] = IF k \in DOMAIN f THEN f[k] ELSE search[k]
      <4> HIDE DEF f
      <4> QED BY <2>3, Moves DEF GamesInv, f
    <3>2. /\ search'.pc = "done"
          /\ search'.kind = search.kind /\ search'.found = search.found /\ search'.collected = search.collected
      BY <3>1 DEF SearchFields
    <3> QED BY <2>1, <3>1, <3>2 DEF GamesInv
  <2> QED BY <1>2, <2>2, <2>3 DEF SportsAnswered
<1>3. CASE GamesPage
  <2> DEFINE limit == Min({PageLimit, PerSeriesLimit - search.offset})
             page == PageOf(Entries(listing.of[Series[search.series]]), search.offset, limit)
             collected == Collected(search.collected, page)
  <2>1. search.pc = "pages" /\ UNCHANGED listing
    BY <1>3 DEF GamesPage, GamesSearch
  <2>2. \/ /\ search.offset + limit < PerSeriesLimit
           /\ MoveTo([collected |-> collected, offset |-> search.offset + limit])
        \/ NextSeries(collected)
    BY <1>3 DEF GamesPage
  <2>3. limit \in Nat
    <3>1. PageLimit \in Nat /\ PerSeriesLimit - search.offset \in Nat
      BY <2>1, LimitPositive, DiscoveryAssumption DEF GamesInv
    <3> QED BY <3>1, MinOfTwo
  <2> HIDE DEF limit
  <2>4. listing.of[Series[search.series]] \in SUBSET DOMAIN Catalog
    <3>1. Series[search.series] \in Range(Series)
      BY <2>1, DiscoveryAssumption DEF GamesInv
    <3> QED BY <3>1 DEF GamesInv
  <2>5. Len(page) \in Nat /\ \A i \in 1 .. Len(page) : IsEvent(page[i])
    BY <2>1, <2>3, <2>4, PageEvents DEF GamesInv
  <2> HIDE DEF page
  <2>6. Different(collected)
    BY <2>5, CollectedDifferent DEF GamesInv
  <2> HIDE DEF collected
  <2>7. CASE /\ search.offset + limit < PerSeriesLimit
             /\ MoveTo([collected |-> collected, offset |-> search.offset + limit])
    <3> DEFINE f == [collected |-> collected, offset |-> search.offset + limit]
    <3>1. /\ DOMAIN search' = SearchFields
          /\ \A k \in SearchFields : search'[k] = IF k \in DOMAIN f THEN f[k] ELSE search[k]
      <4> HIDE DEF f
      <4> QED BY <2>7, Moves DEF GamesInv, f
    <3>2. /\ search'.pc = search.pc /\ search'.series = search.series /\ search'.offset = search.offset + limit
          /\ search'.kind = search.kind /\ search'.found = search.found /\ search'.collected = collected
      BY <3>1 DEF SearchFields
    <3>3. search.offset + limit \in Nat
      BY <2>1, <2>3 DEF GamesInv
    <3> QED BY <2>1, <2>6, <2>7, <3>1, <3>2, <3>3 DEF GamesInv
  <2>8. CASE NextSeries(collected)
    BY <2>1, <2>6, <2>8, NextSeriesKeeps
  <2> QED BY <2>2, <2>7, <2>8
<1>4. CASE GamesPageFails
  <2>1. search.pc = "pages" /\ NextSeries(search.collected) /\ UNCHANGED listing /\ Different(search.collected)
    BY <1>4 DEF GamesPageFails, GamesSearch, GamesInv
  <2> QED BY <2>1, NextSeriesKeeps
<1>5. CASE GamesSorted
  <2> DEFINE found == FirstOf(StableSort(search.collected, LAMBDA m, n : EventVolume(m) > EventVolume(n)), CandidateLimit)
             f == [found |-> found, pc |-> "done"]
  <2>1. MoveTo(f) /\ UNCHANGED listing
    BY <1>5 DEF GamesSorted
  <2>2. FoundDifferent(found)
    BY FirstDifferent DEF GamesInv
  <2> HIDE DEF found
  <2>3. /\ DOMAIN search' = SearchFields
        /\ \A k \in SearchFields : search'[k] = IF k \in DOMAIN f THEN f[k] ELSE search[k]
    <3> HIDE DEF f
    <3> QED BY <2>1, Moves DEF GamesInv
  <2>4. /\ search'.pc = "done" /\ search'.found = found
        /\ search'.kind = search.kind /\ search'.collected = search.collected
    BY <2>3 DEF SearchFields
  <2> QED BY <2>1, <2>2, <2>3, <2>4 DEF GamesInv
<1>6. ~(GammaPage \/ GammaPageFails \/ KalshiPage \/ KalshiPageFails \/ Filtered)
  BY DEF GamesInv, GammaPage, GammaPageFails, GammaSearch, KalshiPage, KalshiPageFails, KalshiSearch, Filtered
<1> QED BY <1>1, <1>2, <1>3, <1>4, <1>5, <1>6 DEF DiscoveryNext

\* No step turns one search into another.
LEMMA KindKept ==
  ASSUME DiscoveryNext, DOMAIN search = SearchFields
  PROVE  search'.kind = search.kind /\ DOMAIN search' = SearchFields
<1>1. ASSUME NEW fields, MoveTo(fields), "kind" \notin DOMAIN fields
      PROVE  search'.kind = search.kind /\ DOMAIN search' = SearchFields
  BY <1>1, Moves DEF SearchFields
<1> QED
  BY <1>1 DEF DiscoveryNext, ListChanges, GammaPage, GammaPageFails, SportsAnswered, GamesPage, NextSeries,
     GamesPageFails, GamesSorted, KalshiPage, KalshiPageFails, Filtered

\* There is one search, of games or of something else, or none.
SearchInv ==
  /\ activity = "search" => DOMAIN search = SearchFields /\ (search.kind = "games" => GamesInv)
  /\ activity # "search" => search.kind = "none"

\* The search of the games promises each game once, for any lists of any series, however they
\* change between two pages, whichever requests fail and wherever the search stops.
THEOREM GamesFoundOnce == DataSpec => []FoundOnce
<1>1. DataInit => SearchInv
  <2> SUFFICES ASSUME DataInit PROVE SearchInv
    OBVIOUS
  <2>1. CASE activity = "search"
    <3>1. DiscoveryInit
      BY <2>1 DEF DataInit
    <3>2. DOMAIN search = SearchFields
      BY <3>1 DEF DiscoveryInit, SearchFields
    <3> QED BY <2>1, <3>1, <3>2, GamesInit DEF SearchInv
  <2>2. CASE activity # "search"
    BY <2>2 DEF DataInit, SearchInv
  <2> QED BY <2>1, <2>2
<1>2. SearchInv /\ [DataNext]_dataVars => SearchInv'
  <2> SUFFICES ASSUME SearchInv, [DataNext]_dataVars PROVE SearchInv'
    OBVIOUS
  <2>1. CASE activity = "search" /\ DiscoveryNext /\ UNCHANGED activity
    <3>1. search'.kind = search.kind /\ DOMAIN search' = SearchFields
      BY <2>1, KindKept DEF SearchInv
    <3>2. search.kind = "games" => GamesInv'
      BY <2>1, GamesKept DEF SearchInv
    <3> QED BY <2>1, <3>1, <3>2 DEF SearchInv
  <2>2. CASE UNCHANGED <<activity, listing, search>>
    BY <2>2 DEF SearchInv, GamesInv
  <2> QED BY <2>1, <2>2 DEF DataNext, dataVars
<1>3. SearchInv => FoundOnce
  BY DEF SearchInv, GamesInv, FoundOnce, FoundDifferent
<1> QED BY <1>1, <1>2, <1>3, PTL DEF DataSpec

-----------------------------------------------------------------------------
(* The bars of a window                                                    *)

\* Bars of some candlesticks: all that had trades, in the order of their ends.
BarsOf(list, S) ==
  /\ list \in Seq(Range(list))
  /\ \A i \in DOMAIN list : \E c \in S : list[i].ts = c.end
  /\ \A c \in S : Traded(c) => \E i \in DOMAIN list : list[i].ts = c.end
  /\ \A i, j \in DOMAIN list : i < j => list[i].ts <= list[j].ts

ByEnd(s) == {p \in (DOMAIN s) \X (DOMAIN s) : s[p[1]].end < s[p[2]].end}

\* Candlesticks sorted by their ends.
LEMMA CandlesSorted ==
  ASSUME NEW s, Len(s) \in Nat, DOMAIN s = 1 .. Len(s), \A i \in DOMAIN s : s[i].end \in Int
  PROVE  \E at : Sorts(StableSort(s, LAMBDA c, d : c.end < d.end), s, ByEnd(s), at)
<1> DEFINE less == ByEnd(s)
           v(i) == s[i].end
           before(i) == {j \in DOMAIN s : v(j) < v(i) \/ (~(v(i) < v(j)) /\ j < i)}
           at == [k \in 1 .. Cardinality(DOMAIN s) |-> CHOOSE i \in DOMAIN s : Cardinality(before(i)) = k - 1]
<1>1. StableSort(s, LAMBDA c, d : c.end < d.end) = [k \in DOMAIN s |-> s[at[k]]]
  BY DEF StableSort, Ranked
<1>2. WeakOrder(s, less)
  BY DEF WeakOrder, ByEnd
<1>3. \A i \in DOMAIN s : Cardinality(before(i)) = RankOf(Stable(s, less), DOMAIN s, i)
  <2> TAKE i \in DOMAIN s
  <2>1. before(i) = {j \in DOMAIN s : <<j, i>> \in Stable(s, less)}
    BY DEF Stable, ByEnd
  <2> QED BY <2>1 DEF RankOf
<1> HIDE DEF less, before
<1>4. \A k \in DOMAIN s : at[k] = CHOOSE i \in DOMAIN s : RankOf(Stable(s, less), DOMAIN s, i) = k - 1
  <2>1. Cardinality(DOMAIN s) = Len(s)
    BY FS_Interval
  <2> TAKE k \in DOMAIN s
  <2>2. at[k] = CHOOSE i \in DOMAIN s : Cardinality(before(i)) = k - 1
    BY <2>1
  <2> HIDE DEF at
  <2> QED BY <1>3, <2>2
<1> HIDE DEF at
<1>5. StableSort(s, LAMBDA c, d : c.end < d.end) = SortedBy(s, less)
  BY <1>1, <1>4 DEF SortedBy
<1>6. \E at2 : Sorts(SortedBy(s, less), s, less, at2)
  BY <1>2, SortedBySorts
<1> QED BY <1>5, <1>6 DEF less

\* A chunk is answered with the bars of the candlesticks between its ends.
LEMMA ChunkBars ==
  ASSUME NEW start, NEW end
  PROVE  BarsOf(LoadBars(Answer(start, end)), {c \in Range(Candles) : start <= c.end /\ c.end <= end})
<1> DEFINE S == {c \in Range(Candles) : start <= c.end /\ c.end <= end}
           in == {i \in DOMAIN Candles : start <= Candles[i].end /\ Candles[i].end <= end}
           answer == Picked(Candles, in)
           sorted == StableSort(answer, LAMBDA c, d : c.end < d.end)
           traded == {i \in DOMAIN sorted : Traded(sorted[i])}
           kept == Picked(sorted, traded)
           list == LoadBars(Answer(start, end))
<1>1. list = [i \in DOMAIN kept |->
                [ts    |-> kept[i].end, open |-> CandlePrice(kept[i].open),
                 high  |-> CandlePrice(kept[i].high), low |-> CandlePrice(kept[i].low),
                 close |-> CandlePrice(kept[i].close), volume |-> kept[i].volume]]
  BY DEF LoadBars, Answer, ParseCandlesticks, Keep
<1>2. \A c \in S : c.end \in Int
  BY BarsAssumption
<1>3. answer \in Seq(S) /\ \A c \in S : \E i \in DOMAIN answer : answer[i] = c
  <2>1. in \in SUBSET DOMAIN Candles /\ \A p \in in : Candles[p] \in S
    BY BarsAssumption DEF Range
  <2>2. \A c \in S : \E p \in in : Candles[p] = c
    BY DEF Range
  <2> HIDE DEF in, S
  <2>3. answer \in Seq(S)
    BY <2>1, BarsAssumption, PickedTyped
  <2>4. PICK at : Keeps(answer, Candles, in, at)
    BY <2>1, BarsAssumption, PickedKeeps
  <2>5. \A c \in S : \E i \in 1 .. Len(answer) : answer[i] = c
    BY <2>2, <2>4 DEF Keeps
  <2> QED BY <2>3, <2>5
<1> HIDE DEF answer, S
<1>4. Len(answer) \in Nat /\ DOMAIN answer = 1 .. Len(answer)
      /\ \A i \in DOMAIN answer : answer[i] \in S /\ answer[i].end \in Int
  BY <1>2, <1>3
<1>5. PICK at : Sorts(sorted, answer, ByEnd(answer), at)
  BY <1>4, CandlesSorted, Zenon
<1> HIDE DEF sorted
<1>6. DOMAIN sorted = DOMAIN answer /\ \A k \in DOMAIN answer : at[k] \in DOMAIN answer /\ sorted[k] = answer[at[k]]
  BY <1>5 DEF Sorts
<1>7. sorted \in Seq(S)
  <2>1. \A k \in 1 .. Len(answer) : sorted[k] \in S
    BY <1>3, <1>4, <1>6
  <2>2. sorted = [k \in 1 .. Len(answer) |-> sorted[k]]
    BY <1>3, <1>5 DEF Sorts
  <2> QED BY <1>3, <2>1, <2>2
<1>8. \A c \in S : \E k \in DOMAIN sorted : sorted[k] = c
  <2> TAKE c \in S
  <2>1. PICK i \in DOMAIN answer : answer[i] = c
    BY <1>3
  <2>2. PICK k \in DOMAIN answer : at[k] = i
    BY <1>5 DEF Sorts
  <2> QED BY <1>6, <2>1, <2>2
<1>9. \A k, l \in DOMAIN sorted : k < l => sorted[k].end <= sorted[l].end
  <2> TAKE k \in DOMAIN sorted, l \in DOMAIN sorted
  <2> HAVE k < l
  <2>1. <<at[l], at[k]>> \notin ByEnd(answer)
    BY <1>5, <1>6 DEF Sorts
  <2>2. ~(answer[at[l]].end < answer[at[k]].end)
    BY <1>6, <2>1 DEF ByEnd
  <2> QED BY <1>4, <1>6, <2>2
<1>10. PICK pl : Keeps(kept, sorted, traded, pl)
  <2>1. traded \in SUBSET DOMAIN sorted
    OBVIOUS
  <2> HIDE DEF traded
  <2> QED BY <1>7, <2>1, PickedKeeps
<1>11. kept \in Seq(S)
  <2>1. traded \in SUBSET DOMAIN sorted
    OBVIOUS
  <2> HIDE DEF traded
  <2> QED BY <1>7, <2>1, PickedKeeps
<1> HIDE DEF kept
<1>12. DOMAIN kept = 1 .. Len(kept) /\ \A i \in 1 .. Len(kept) : kept[i] \in S /\ pl[i] \in traded /\ kept[i] = sorted[pl[i]]
  BY <1>10, <1>11 DEF Keeps
<1>13. DOMAIN list = DOMAIN kept /\ \A i \in DOMAIN kept : list[i].ts = kept[i].end
  BY <1>1
<1>14. list \in Seq(Range(list))
  <2> DEFINE T == {list[i] : i \in DOMAIN kept}
  <2>1. list = [i \in 1 .. Len(kept) |-> list[i]]
    BY <1>1, <1>12
  <2>2. Len(kept) \in Nat
    BY <1>11
  <2> HIDE DEF list
  <2> QED BY <1>12, <1>13, <2>1, <2>2 DEF Range
<1> HIDE DEF list
<1>15. \A c \in S : Traded(c) => \E i \in DOMAIN list : list[i].ts = c.end
  <2> SUFFICES ASSUME NEW c \in S, Traded(c) PROVE \E i \in DOMAIN list : list[i].ts = c.end
    OBVIOUS
  <2>1. PICK k \in DOMAIN sorted : sorted[k] = c
    BY <1>8
  <2>2. k \in traded
    BY <2>1
  <2>3. PICK i \in 1 .. Len(kept) : pl[i] = k
    BY <1>10, <2>2 DEF Keeps
  <2> QED BY <1>12, <1>13, <2>1, <2>3
<1>16. \A i, j \in DOMAIN list : i < j => list[i].ts <= list[j].ts
  <2> TAKE i \in DOMAIN list, j \in DOMAIN list
  <2> HAVE i < j
  <2>1. pl[i] < pl[j] /\ pl[i] \in DOMAIN sorted /\ pl[j] \in DOMAIN sorted
    BY <1>10, <1>12, <1>13 DEF Keeps
  <2> QED BY <1>9, <1>12, <1>13, <2>1
<1>17. \A i \in DOMAIN list : \E c \in S : list[i].ts = c.end
  BY <1>12, <1>13
<1> QED BY <1>14, <1>15, <1>16, <1>17 DEF BarsOf, list, S

\* What has been loaded: the bars up to the start of the next chunk, in order.
BarsInv ==
  /\ DOMAIN bars = {"pc", "start", "attempt", "bars"}
  /\ bars.start \in Int /\ BarStart <= bars.start /\ bars.start <= BarEnd
  /\ bars.bars \in Seq(Range(bars.bars))
  /\ \A i \in DOMAIN bars.bars : bars.bars[i].ts \in Int /\ bars.bars[i].ts <= bars.start
  /\ bars.start # BarStart =>
       \A c \in Range(Candles) : Traded(c) /\ BarStart <= c.end /\ c.end <= bars.start =>
         \E i \in DOMAIN bars.bars : bars.bars[i].ts = c.end
  /\ \A i, j \in DOMAIN bars.bars : i < j => bars.bars[i].ts <= bars.bars[j].ts
  /\ bars.pc = "loaded" => bars.start = BarEnd

LEMMA BarsBegin == BarsInit => BarsInv
<1> SUFFICES ASSUME BarsInit PROVE BarsInv
  OBVIOUS
<1>1. bars = [pc |-> "chunks", start |-> BarStart, attempt |-> 0, bars |-> <<>>]
  BY DEF BarsInit, NoBars
<1>2. DOMAIN bars = {"pc", "start", "attempt", "bars"} /\ bars.pc = "chunks" /\ bars.start = BarStart /\ bars.bars = <<>>
  BY <1>1
<1>3. <<>> \in Seq(Range(<<>>)) /\ DOMAIN <<>> = {}
  BY DEF Range
<1> QED BY <1>2, <1>3, BarsAssumption DEF BarsInv

\* A chunk goes on where the last one ended.
LEMMA ChunkAdds ==
  ASSUME BarsInv, ChunkAnswered
  PROVE  BarsInv'
<1> DEFINE S == {c \in Range(Candles) : bars.start <= c.end /\ c.end <= ChunkEnd}
           more == LoadBars(Answer(bars.start, ChunkEnd))
           all == bars.bars \o more
           n == Len(bars.bars)
<1>1. /\ bars.pc = "chunks" /\ bars.start < BarEnd
      /\ bars' = [bars EXCEPT !.bars = all, !.start = ChunkEnd, !.attempt = 0]
  BY DEF ChunkAnswered, NextChunk
<1>2. /\ DOMAIN bars' = {"pc", "start", "attempt", "bars"}
      /\ bars'.pc = "chunks" /\ bars'.bars = all /\ bars'.start = ChunkEnd
  BY <1>1 DEF BarsInv
<1>3. BarsOf(more, S)
  BY ChunkBars
<1> HIDE DEF more
<1>4. /\ ChunkEnd \in Int /\ bars.start < ChunkEnd /\ ChunkEnd <= BarEnd
  BY <1>1, BarsAssumption DEF ChunkEnd, BarsInv
<1>5. /\ bars.bars \in Seq(Range(bars.bars)) /\ more \in Seq(Range(more))
  BY <1>3 DEF BarsInv, BarsOf
<1> DEFINE T == Range(bars.bars) \union Range(more)
<1>6. bars.bars \in Seq(T) /\ more \in Seq(T)
  BY <1>5 DEF Range
<1>7. n \in Nat /\ Len(more) \in Nat
  BY <1>5
<1> HIDE DEF T
<1>8. /\ Len(all) = n + Len(more) /\ all \in Seq(T)
      /\ \A i \in 1 .. n : all[i] = bars.bars[i]
      /\ \A i \in 1 .. Len(more) : all[n + i] = more[i]
  BY <1>6
<1>9. DOMAIN all = 1 .. n + Len(more) /\ DOMAIN bars.bars = 1 .. n /\ DOMAIN more = 1 .. Len(more)
  BY <1>6, <1>8
<1> HIDE DEF all, n
<1>10. \A i \in DOMAIN all : \/ i \in 1 .. n /\ all[i] = bars.bars[i]
                             \/ i - n \in 1 .. Len(more) /\ all[i] = more[i - n]
  <2> TAKE i \in DOMAIN all
  <2>1. CASE i <= n
    BY <2>1, <1>7, <1>8, <1>9
  <2>2. CASE i > n
    <3>1. i - n \in 1 .. Len(more) /\ n + (i - n) = i
      BY <2>2, <1>7, <1>9
    <3> QED BY <3>1, <1>8
  <2> QED BY <2>1, <2>2, <1>7, <1>9
<1>11. \A i \in 1 .. n : bars.bars[i].ts \in Int /\ bars.bars[i].ts <= bars.start
  BY <1>9 DEF BarsInv
<1>12. \A i \in 1 .. Len(more) : more[i].ts \in Int /\ bars.start <= more[i].ts /\ more[i].ts <= ChunkEnd
  <2> TAKE i \in 1 .. Len(more)
  <2>1. PICK c \in S : more[i].ts = c.end
    BY <1>3, <1>9 DEF BarsOf
  <2> QED BY <2>1, BarsAssumption
<1>13. bars.start \in Int
  BY DEF BarsInv
<1>14. \A i \in DOMAIN all : all[i].ts \in Int /\ all[i].ts <= ChunkEnd
  <2> TAKE i \in DOMAIN all
  <2>1. CASE i \in 1 .. n /\ all[i] = bars.bars[i]
    BY <2>1, <1>4, <1>11, <1>13
  <2>2. CASE i - n \in 1 .. Len(more) /\ all[i] = more[i - n]
    BY <2>2, <1>12
  <2> QED BY <2>1, <2>2, <1>10
<1>15. \A i, j \in DOMAIN all : i < j => all[i].ts <= all[j].ts
  <2> TAKE i \in DOMAIN all, j \in DOMAIN all
  <2> HAVE i < j
  <2>1. i \in Nat /\ j \in Nat
    BY <1>7, <1>9
  <2>2. CASE i \in 1 .. n /\ all[i] = bars.bars[i] /\ j \in 1 .. n /\ all[j] = bars.bars[j]
    BY <2>2, <1>9 DEF BarsInv
  <2>3. CASE i \in 1 .. n /\ all[i] = bars.bars[i] /\ j - n \in 1 .. Len(more) /\ all[j] = more[j - n]
    BY <2>3, <1>11, <1>12, <1>13
  <2>4. CASE i - n \in 1 .. Len(more) /\ all[i] = more[i - n] /\ j \in 1 .. n
    BY <2>1, <2>4, <1>7
  <2>5. CASE i - n \in 1 .. Len(more) /\ all[i] = more[i - n] /\ j - n \in 1 .. Len(more) /\ all[j] = more[j - n]
    <3>1. i - n < j - n
      BY <2>1, <1>7
    <3> QED BY <2>5, <3>1, <1>3, <1>9 DEF BarsOf
  <2> QED BY <2>2, <2>3, <2>4, <2>5, <1>10
<1>16. ASSUME NEW c \in Range(Candles), Traded(c), BarStart <= c.end, c.end <= ChunkEnd
       PROVE  \E i \in DOMAIN all : all[i].ts = c.end
  <2>1. c.end \in Int /\ BarStart \in Int
    BY BarsAssumption
  <2>2. CASE bars.start <= c.end
    <3>1. PICK i \in DOMAIN more : more[i].ts = c.end
      BY <2>2, <1>3, <1>16 DEF BarsOf
    <3>2. n + i \in DOMAIN all /\ all[n + i] = more[i]
      BY <1>7, <1>8, <1>9
    <3> QED BY <3>1, <3>2
  <2>3. CASE c.end < bars.start
    <3>1. bars.start # BarStart
      BY <2>3, <2>1, <1>16
    <3>2. PICK i \in DOMAIN bars.bars : bars.bars[i].ts = c.end
      BY <2>3, <3>1, <2>1, <1>13, <1>16 DEF BarsInv
    <3>3. i \in DOMAIN all /\ all[i] = bars.bars[i]
      BY <1>7, <1>8, <1>9
    <3> QED BY <3>2, <3>3
  <2> QED BY <2>1, <2>2, <2>3, <1>13
<1>17. all \in Seq(Range(all))
  BY <1>8 DEF Range
<1>18. BarStart <= ChunkEnd
  BY <1>4, BarsAssumption DEF BarsInv
<1> QED BY <1>2, <1>4, <1>14, <1>15, <1>16, <1>17, <1>18 DEF BarsInv

\* Every step keeps what has been loaded.
LEMMA BarsKept ==
  ASSUME BarsInv, BarsNext
  PROVE  BarsInv'
<1>1. CASE ChunkAnswered
  BY <1>1, ChunkAdds
<1>2. CASE UNCHANGED <<bars.start, bars.bars>> /\ DOMAIN bars' = DOMAIN bars /\ (bars'.pc = "loaded" => bars.start = BarEnd)
  BY <1>2 DEF BarsInv
<1>3. CASE RateLimited
  <2>1. DOMAIN bars = {"pc", "start", "attempt", "bars"} /\ (bars.pc = "loaded" => bars.start = BarEnd)
    BY DEF BarsInv
  <2>2. CASE bars' = [bars EXCEPT !.attempt = @ + 1]
    BY <2>1, <2>2, <1>2
  <2>3. CASE bars' = [bars EXCEPT !.pc = "skipped"]
    BY <2>1, <2>3, <1>2
  <2> QED BY <1>3, <2>2, <2>3 DEF RateLimited
<1>4. CASE ChunkFails
  <2>1. DOMAIN bars = {"pc", "start", "attempt", "bars"} /\ bars' = [bars EXCEPT !.pc = "skipped"]
    BY <1>4 DEF ChunkFails, BarsInv
  <2> QED BY <2>1, <1>2
<1>5. CASE BarsLoaded
  <2>1. PICK pc : bars' = [bars EXCEPT !.pc = pc] /\ bars.start >= BarEnd
    BY <1>5 DEF BarsLoaded
  <2>2. DOMAIN bars = {"pc", "start", "attempt", "bars"} /\ bars.start = BarEnd
    BY <2>1, BarsAssumption DEF BarsInv
  <2> QED BY <2>1, <2>2, <1>2
<1> QED BY <1>1, <1>3, <1>4, <1>5 DEF BarsNext

\* A history of bars that is not given up has every period of the window that had trades, in
\* order, for any candlesticks in any order, chunks of any length and refusals of the venue.
THEOREM BarsComplete == DataSpec => []BarsWhole
<1>1. DataInit => BarsInv
  BY BarsBegin DEF DataInit
<1>2. BarsInv /\ [DataNext]_dataVars => BarsInv'
  <2> SUFFICES ASSUME BarsInv, [DataNext]_dataVars PROVE BarsInv'
    OBVIOUS
  <2>1. CASE BarsNext
    BY <2>1, BarsKept
  <2>2. CASE UNCHANGED bars
    BY <2>2 DEF BarsInv
  <2> QED BY <2>1, <2>2 DEF DataNext, dataVars
<1>3. BarsInv => BarsWhole
  <2> SUFFICES ASSUME BarsInv PROVE BarsWhole
    OBVIOUS
  <2>1. bars.pc = "loaded" => bars.start = BarEnd /\ bars.start # BarStart
    BY BarsAssumption DEF BarsInv
  <2> QED BY <2>1 DEF BarsInv, BarsWhole
<1> QED BY <1>1, <1>2, <1>3, PTL DEF DataSpec

-----------------------------------------------------------------------------
(* Numbers                                                                 *)

\* A time within a second is less than any of a later second.
LEMMA SecondsApart ==
  ASSUME NEW a \in Int, NEW b \in Int, a < b, NEW s \in Nat, NEW p \in 0 .. s - 1, NEW q \in Nat
  PROVE  a * s + p < b * s + q
<1>1. b = a + 1 + (b - a - 1) /\ b - a - 1 \in Nat
  OBVIOUS
<1>2. b * s = a * s + s + (b - a - 1) * s
  BY <1>1
<1>3. (b - a - 1) * s >= 0
  BY <1>1
<1>4. a * s \in Int /\ b * s \in Int /\ (b - a - 1) * s \in Int
  OBVIOUS
<1> QED BY <1>2, <1>3, <1>4

\* The second of a time.
LEMMA SecondOf ==
  ASSUME NEW a \in Int, NEW s \in Nat, NEW p \in 0 .. s - 1
  PROVE  (a * s + p) \div s = a /\ (a * s + p) % s = p
<1>1. a * s \in Int
  OBVIOUS
<1>2. (a * s + p) \div s = a
  OBVIOUS
<1>3. (a * s + p) % s = p
  OBVIOUS
<1> QED BY <1>2, <1>3

-----------------------------------------------------------------------------
(* Rows of one key                                                         *)

\* How many earlier rows have the key grows from one to the next that has it.
LEMMA Occurrences ==
  ASSUME NEW n \in Nat, NEW keys
  PROVE  /\ \A i \in 1 .. n : Occurrence(keys, i) \in 0 .. i - 1
         /\ \A i, j \in 1 .. n : i < j /\ keys[i] = keys[j] => Occurrence(keys, i) < Occurrence(keys, j)
<1> DEFINE same(i) == {j \in 1 .. i - 1 : keys[j] = keys[i]}
<1>1. \A i \in Nat : IsFiniteSet(1 .. i) /\ Cardinality(1 .. i) = i
  BY FS_Interval
<1>2. \A i \in 1 .. n : /\ IsFiniteSet(same(i)) /\ Cardinality(same(i)) \in Nat /\ Cardinality(same(i)) <= i - 1
                        /\ Occurrence(keys, i) = Cardinality(same(i))
  <2> TAKE i \in 1 .. n
  <2>1. same(i) \in SUBSET (1 .. i - 1) /\ i - 1 \in Nat
    OBVIOUS
  <2>2. Occurrence(keys, i) = Cardinality(same(i))
    BY DEF Occurrence
  <2>3. IsFiniteSet(1 .. i - 1) /\ Cardinality(1 .. i - 1) = i - 1
    BY <1>1, <2>1
  <2> HIDE DEF same
  <2> QED BY <2>1, <2>2, <2>3, FS_Subset, FS_CardinalityType
<1>3. ASSUME NEW i \in 1 .. n, NEW j \in 1 .. n, i < j, keys[i] = keys[j]
      PROVE  Occurrence(keys, i) < Occurrence(keys, j)
  <2>1. same(i) \in SUBSET same(j) /\ same(i) # same(j)
    <3>1. i \in same(j) /\ i \notin same(i)
      BY <1>3
    <3>2. same(i) \subseteq same(j)
      BY <1>3
    <3> QED BY <3>1, <3>2
  <2> HIDE DEF same
  <2>2. Cardinality(same(i)) <= Cardinality(same(j)) /\ Cardinality(same(i)) # Cardinality(same(j))
    BY <1>2, <2>1, FS_Subset
  <2> QED BY <1>2, <2>2
<1>4. \A i \in 1 .. n : Occurrence(keys, i) \in 0 .. i - 1
  <2> HIDE DEF same
  <2> QED BY <1>2
<1> QED BY <1>3, <1>4

\* Numbered in this way, two rows have different identifiers.
LEMMA NumberedApart ==
  ASSUME NEW n \in Nat, NEW m \in Nat, NEW T, NEW keys \in [1 .. n -> [1 .. m -> T]],
         NEW i \in 1 .. n, NEW j \in 1 .. n, i < j
  PROVE  keys[i] \o <<Occurrence(keys, i)>> # keys[j] \o <<Occurrence(keys, j)>>
<1> DEFINE U == T \union Nat
           a == keys[i]
           b == keys[j]
           p == Occurrence(keys, i)
           q == Occurrence(keys, j)
<1>1. p \in Nat /\ q \in Nat /\ (a = b => p < q)
  <2>1. /\ \A k \in 1 .. n : Occurrence(keys, k) \in 0 .. k - 1
        /\ \A k, l \in 1 .. n : k < l /\ keys[k] = keys[l] => Occurrence(keys, k) < Occurrence(keys, l)
    BY Occurrences
  <2>2. p \in 0 .. i - 1 /\ q \in 0 .. j - 1
    BY <2>1
  <2> QED BY <2>1, <2>2
<1>2. a \in [1 .. m -> U] /\ b \in [1 .. m -> U] /\ p \in U /\ q \in U
  BY <1>1
<1> HIDE DEF a, b, p, q, U
<1>3. a \in Seq(U) /\ b \in Seq(U) /\ Len(a) = m /\ Len(b) = m /\ <<p>> \in Seq(U) /\ <<q>> \in Seq(U)
  BY <1>2
<1> SUFFICES ASSUME a \o <<p>> = b \o <<q>> PROVE FALSE
  BY DEF a, b, p, q
<1>4. (a \o <<p>>)[m + 1] = p /\ (b \o <<q>>)[m + 1] = q
  BY <1>3
<1>5. \A k \in 1 .. m : (a \o <<p>>)[k] = a[k] /\ (b \o <<q>>)[k] = b[k]
  BY <1>3
<1>6. a = b
  BY <1>2, <1>5
<1> QED BY <1>1, <1>4, <1>6

\* A number makes a key one longer.
LEMMA NumberedLength ==
  ASSUME NEW m \in Nat, NEW T, NEW key \in [1 .. m -> T], NEW o
  PROVE  Len(key \o <<o>>) = m + 1
<1>1. key \in Seq(T) /\ Len(key) = m
  OBVIOUS
<1> QED BY <1>1

-----------------------------------------------------------------------------
(* Polymarket's rows in their order                                        *)

InTime(n) == InWindow(Tape[n].ts, Start, End)

Rows == {PolymarketRow(n) : n \in DOMAIN Tape}

\* The fields of a trade
LEMMA TapeTyped ==
  ASSUME NEW n \in DOMAIN Tape
  PROVE  /\ Tape[n].ts \in Nat /\ Tape[n].within \in 0 .. Second - 1 /\ Tape[n].named \in BOOLEAN
         /\ Tape[n].hash \in Int /\ Tape[n].asset \in Int /\ Tape[n].side \in Int /\ Tape[n].price \in Int
         /\ Tape[n].size \in Int
<1>1. Tape[n] \in Range(Tape)
  BY DEF Range
<1> QED BY <1>1, LoadsAssumption DEF IsTrade

\* The fields of Polymarket's row, and its key
LEMMA RowTyped ==
  ASSUME NEW r \in Rows
  PROVE  r.ts \in Nat /\ TradeSortKey(r) \in [1 .. 6 -> Int] /\ TradeSortKey(r)[1] = r.ts
<1>1. PICK n \in DOMAIN Tape : r = PolymarketRow(n)
  BY DEF Rows
<1>2. /\ r.ts = Tape[n].ts /\ r.hash = Tape[n].hash /\ r.asset = Tape[n].asset /\ r.side = Tape[n].side
      /\ r.price = Tape[n].price /\ r.size = Tape[n].size
  BY <1>1 DEF PolymarketRow
<1>3. /\ r.ts \in Nat /\ r.hash \in Int /\ r.asset \in Int /\ r.side \in Int /\ r.price \in Int /\ r.size \in Int
  BY <1>2, TapeTyped
<1>4. TradeSortKey(r) = <<r.ts, r.hash, r.asset, r.side, r.price, r.size>>
  BY DEF TradeSortKey
<1>5. <<r.ts, r.hash, r.asset, r.side, r.price, r.size>> \in [1 .. 6 -> Int]
  <2> DEFINE a == r.ts
             b == r.hash
             c == r.asset
             d == r.side
             e == r.price
             f == r.size
  <2>1. a \in Int /\ b \in Int /\ c \in Int /\ d \in Int /\ e \in Int /\ f \in Int
    BY <1>3
  <2> HIDE DEF a, b, c, d, e, f
  <2>2. <<a, b, c, d, e, f>> \in [1 .. 6 -> Int]
    BY <2>1
  <2> QED BY <2>2 DEF a, b, c, d, e, f
<1>6. <<r.ts, r.hash, r.asset, r.side, r.price, r.size>>[1] = r.ts
  OBVIOUS
<1> QED BY <1>3, <1>4, <1>5, <1>6

TradeKeys(s) == [i \in DOMAIN s |-> TradeSortKey(s[i])]

\* Rows sorted by their keys
LEMMA RowsSorted ==
  ASSUME NEW s \in Seq(Rows)
  PROVE  \E at : Sorts(StableSort(s, LAMBDA t, u : KeyLess(TradeSortKey(t), TradeSortKey(u))), s, ByKey(TradeKeys(s)), at)
<1> DEFINE less == ByKey(TradeKeys(s))
           key(i) == TradeSortKey(s[i])
           before(i) == {j \in DOMAIN s : KeyLess(key(j), key(i)) \/ (~KeyLess(key(i), key(j)) /\ j < i)}
           at == [k \in 1 .. Cardinality(DOMAIN s) |-> CHOOSE i \in DOMAIN s : Cardinality(before(i)) = k - 1]
           sorted == StableSort(s, LAMBDA t, u : KeyLess(TradeSortKey(t), TradeSortKey(u)))
<1>1. sorted = [k \in DOMAIN s |-> s[at[k]]]
  BY DEF StableSort, Ranked
<1>2. Len(s) \in Nat /\ DOMAIN s = 1 .. Len(s)
  OBVIOUS
<1>3. WeakOrder(s, less)
  <2>1. TradeKeys(s) \in [1 .. Len(s) -> [1 .. 6 -> Int]]
    BY <1>2, RowTyped DEF TradeKeys
  <2> QED BY <1>2, <2>1, KeysWeakOrder
<1>4. \A i \in DOMAIN s : Cardinality(before(i)) = RankOf(Stable(s, less), DOMAIN s, i)
  <2> TAKE i \in DOMAIN s
  <2>1. \A j, k \in DOMAIN s : <<j, k>> \in less <=> KeyLess(key(j), key(k))
    BY DEF ByKey, TradeKeys
  <2> HIDE DEF less, key
  <2>2. before(i) = {j \in DOMAIN s : <<j, i>> \in Stable(s, less)}
    BY <2>1 DEF Stable
  <2> QED BY <2>2 DEF RankOf
<1> HIDE DEF less, before
<1>5. \A k \in DOMAIN s : at[k] = CHOOSE i \in DOMAIN s : RankOf(Stable(s, less), DOMAIN s, i) = k - 1
  <2>1. Cardinality(DOMAIN s) = Len(s)
    BY <1>2, FS_Interval
  <2> TAKE k \in DOMAIN s
  <2>2. at[k] = CHOOSE i \in DOMAIN s : Cardinality(before(i)) = k - 1
    BY <1>2, <2>1
  <2> HIDE DEF at
  <2> QED BY <1>4, <2>2
<1> HIDE DEF at, sorted
<1>6. sorted = SortedBy(s, less)
  BY <1>1, <1>5 DEF SortedBy
<1>7. \E at2 : Sorts(SortedBy(s, less), s, less, at2)
  BY <1>2, <1>3, SortedBySorts
<1> QED BY <1>6, <1>7 DEF less, sorted

\* An arrangement of a list holds the same.
LEMMA SortsAll ==
  ASSUME NEW T, NEW s \in Seq(T), NEW t, NEW less, NEW at, Sorts(t, s, less, at)
  PROVE  /\ t \in Seq(T) /\ Len(t) = Len(s) /\ Range(t) = Range(s)
         /\ \A k, l \in 1 .. Len(s) : at[k] \in 1 .. Len(s) /\ t[k] = s[at[k]] /\ (at[k] = at[l] => k = l)
<1>1. Len(s) \in Nat /\ DOMAIN s = 1 .. Len(s) /\ DOMAIN t = 1 .. Len(s)
  BY DEF Sorts
<1>2. \A k \in 1 .. Len(s) : at[k] \in 1 .. Len(s) /\ t[k] = s[at[k]]
  BY <1>1 DEF Sorts
<1>3. t \in Seq(T) /\ Len(t) = Len(s)
  <2>1. \A k \in 1 .. Len(s) : t[k] \in T
    BY <1>1, <1>2
  <2>2. t = [k \in 1 .. Len(s) |-> t[k]]
    BY <1>1 DEF Sorts
  <2> QED BY <1>1, <2>1, <2>2
<1>4. Range(t) = Range(s)
  <2>1. \A i \in DOMAIN s : \E k \in DOMAIN t : t[k] = s[i]
    BY <1>1, <1>2 DEF Sorts
  <2>2. \A k \in DOMAIN t : \E i \in DOMAIN s : t[k] = s[i]
    BY <1>1, <1>2
  <2> QED BY <2>1, <2>2 DEF Range
<1>5. \A k, l \in 1 .. Len(s) : at[k] = at[l] => k = l
  BY <1>1 DEF Sorts
<1> QED BY <1>2, <1>3, <1>4, <1>5

\* What load_trades leaves of the rows: those of the token and the window, by their times.
LEMMA TokenRows ==
  ASSUME NEW s \in Seq(Rows), NEW token
  PROVE  /\ TokenTrades(s, token, Start, End) \in Seq(Rows)
         /\ Len(TokenTrades(s, token, Start, End)) <= Len(s)
         /\ \A r \in Range(s) : r.asset = token /\ InWindow(r.ts, Start, End) =>
              r \in Range(TokenTrades(s, token, Start, End))
         /\ \A i, j \in DOMAIN TokenTrades(s, token, Start, End) :
              i < j => TokenTrades(s, token, Start, End)[i].ts <= TokenTrades(s, token, Start, End)[j].ts
<1> DEFINE places == {i \in DOMAIN s : s[i].asset = token /\ InWindow(s[i].ts, Start, End)}
           kept == Picked(s, places)
           sorted == StableSort(kept, LAMBDA t, u : KeyLess(TradeSortKey(t), TradeSortKey(u)))
<1>1. TokenTrades(s, token, Start, End) = sorted
  BY DEF TokenTrades, Keep
<1>2. places \in SUBSET DOMAIN s
  OBVIOUS
<1>3. \A r \in Range(s) : r.asset = token /\ InWindow(r.ts, Start, End) => \E p \in places : s[p] = r
  BY DEF Range
<1> HIDE DEF places
<1>4. kept \in Seq(Rows) /\ Len(kept) <= Len(s)
  BY <1>2, PickedKeeps
<1>5. PICK pl : Keeps(kept, s, places, pl)
  BY <1>2, PickedKeeps
<1> HIDE DEF kept
<1>6. DOMAIN kept = 1 .. Len(kept)
  BY <1>4
<1>7. \A p \in places : s[p] \in Range(kept)
  BY <1>5, <1>6 DEF Keeps, Range
<1>8. PICK at : Sorts(sorted, kept, ByKey(TradeKeys(kept)), at)
  BY <1>4, RowsSorted
<1> HIDE DEF sorted
<1>9. /\ sorted \in Seq(Rows) /\ Len(sorted) = Len(kept) /\ Range(sorted) = Range(kept)
      /\ \A k, l \in 1 .. Len(kept) : at[k] \in 1 .. Len(kept) /\ sorted[k] = kept[at[k]] /\ (at[k] = at[l] => k = l)
  BY <1>4, <1>8, SortsAll
<1>10. ASSUME NEW i \in DOMAIN sorted, NEW j \in DOMAIN sorted, i < j
       PROVE  sorted[i].ts <= sorted[j].ts
  <2>1. i \in 1 .. Len(kept) /\ j \in 1 .. Len(kept) /\ i \in DOMAIN kept /\ j \in DOMAIN kept
    BY <1>6, <1>9
  <2>2. at[i] \in DOMAIN kept /\ at[j] \in DOMAIN kept /\ sorted[i] = kept[at[i]] /\ sorted[j] = kept[at[j]]
    BY <1>6, <1>9, <2>1
  <2>3. <<at[j], at[i]>> \notin ByKey(TradeKeys(kept))
    BY <1>8, <1>10, <2>1 DEF Sorts
  <2>4. ~KeyLess(TradeSortKey(kept[at[j]]), TradeSortKey(kept[at[i]]))
    BY <2>2, <2>3 DEF ByKey, TradeKeys
  <2>5. kept[at[i]] \in Rows /\ kept[at[j]] \in Rows
    BY <1>4, <2>2
  <2>6. TradeSortKey(kept[at[i]])[1] <= TradeSortKey(kept[at[j]])[1]
    <3> DEFINE a == TradeSortKey(kept[at[i]])
               b == TradeSortKey(kept[at[j]])
    <3>1. a \in [1 .. 6 -> Int] /\ b \in [1 .. 6 -> Int] /\ ~KeyLess(b, a)
      BY <2>4, <2>5, RowTyped
    <3> HIDE DEF a, b
    <3>2. 6 \in Nat /\ 6 >= 1
      OBVIOUS
    <3>3. a[1] <= b[1]
      BY <3>1, <3>2, FirstOfKeys, Zenon
    <3> QED BY <3>3 DEF a, b
  <2> QED BY <2>2, <2>5, <2>6, RowTyped
<1>11. Len(sorted) <= Len(s)
  BY <1>4, <1>9
<1>12. \A r \in Range(s) : r.asset = token /\ InWindow(r.ts, Start, End) => r \in Range(sorted)
  BY <1>3, <1>7, <1>9
<1> QED BY <1>1, <1>9, <1>10, <1>11, <1>12

-----------------------------------------------------------------------------
(* Polymarket's ticks                                                      *)

\* Ticks of different times and identifiers, by their times.
InTurn(ticks) ==
  \A i, j \in DOMAIN ticks : i < j => ticks[i].ts < ticks[j].ts /\ ticks[i].id # ticks[j].id

\* The ticks of a list hold what a row tells.
TickOf(ticks, size, ts) == \E i \in DOMAIN ticks : ticks[i].size = size /\ ticks[i].ts \div Second = ts

\* Polymarket: a row of the token is a tick, and the ticks are in turn, when no second has more
\* rows than nanoseconds.
LEMMA TokenTicks ==
  ASSUME NEW s \in Seq(Rows), Len(s) <= Second, NEW token,
         \A i, j \in DOMAIN s : i < j => s[i].ts <= s[j].ts
  PROVE  /\ InTurn(ParseTrades(s, token, Second))
         /\ \A r \in Range(s) : r.asset = token => TickOf(ParseTrades(s, token, Second), r.size, r.ts)
<1> DEFINE places == {i \in DOMAIN s : s[i].asset = token}
           of == Picked(s, places)
           ids == [i \in DOMAIN of |-> <<of[i].hash, of[i].asset>>]
           times == [i \in DOMAIN of |-> of[i].ts]
           n == Len(of)
           late == [i \in DOMAIN of |-> AtMost(Occurrence(times, i), Second - 1)]
           ticks == ParseTrades(s, token, Second)
<1>1. ticks = [i \in DOMAIN of |->
                 [ts    |-> of[i].ts * Second + late[i],
                  id    |-> ids[i] \o <<Occurrence(ids, i)>>,
                  side  |-> AggressorSide(of[i].side, BUY, SELL),
                  price |-> of[i].price, size |-> of[i].size]]
  BY DEF ParseTrades, Keep
<1>2. places \in SUBSET DOMAIN s /\ \A r \in Range(s) : r.asset = token => \E p \in places : s[p] = r
  BY DEF Range
<1> HIDE DEF places
<1>3. of \in Seq(Rows) /\ n <= Len(s)
  BY <1>2, PickedKeeps
<1>4. PICK at : Keeps(of, s, places, at)
  BY <1>2, PickedKeeps
<1>5. /\ \A i \in 1 .. n : at[i] \in places /\ of[i] = s[at[i]]
      /\ \A x \in places : \E i \in 1 .. n : at[i] = x
  BY <1>4 DEF Keeps
<1> HIDE DEF of
<1>6. n \in Nat /\ DOMAIN of = 1 .. n /\ n <= Second /\ Second \in Nat
  BY <1>3, LoadsAssumption
<1>7. \A i \in 1 .. n : of[i] \in Rows /\ of[i].ts \in Nat
  BY <1>3, <1>6, RowTyped
<1>8. \A i, j \in 1 .. n : i < j => of[i].ts <= of[j].ts
  BY <1>2, <1>4 DEF Keeps
<1>9. \A i \in 1 .. n : Occurrence(times, i) \in 0 .. i - 1
  <2> HIDE DEF times
  <2> QED BY <1>6, Occurrences
<1>10. \A i \in 1 .. n : late[i] = Occurrence(times, i) /\ late[i] \in 0 .. Second - 1
  <2> TAKE i \in 1 .. n
  <2> HIDE DEF times
  <2>1. Occurrence(times, i) \in 0 .. i - 1
    BY <1>9
  <2>2. Occurrence(times, i) \in 0 .. Second - 1
    BY <2>1, <1>6
  <2>3. late[i] = AtMost(Occurrence(times, i), Second - 1)
    BY <1>6
  <2> HIDE DEF late
  <2> QED BY <2>2, <2>3, <1>6 DEF AtMost
<1>11. \A i, j \in 1 .. n : i < j /\ of[i].ts = of[j].ts => late[i] < late[j]
  <2> TAKE i \in 1 .. n, j \in 1 .. n
  <2> HAVE i < j /\ of[i].ts = of[j].ts
  <2>1. times[i] = times[j]
    BY <1>6
  <2> HIDE DEF times
  <2>2. Occurrence(times, i) < Occurrence(times, j)
    BY <2>1, <1>6, Occurrences
  <2> HIDE DEF late
  <2> QED BY <2>2, <1>10
<1>12. \A i, j \in 1 .. n : i < j => ids[i] \o <<Occurrence(ids, i)>> # ids[j] \o <<Occurrence(ids, j)>>
  <2>1. ids \in [1 .. n -> [1 .. 2 -> Int]]
    <3>1. \A i \in 1 .. n : of[i].hash \in Int /\ of[i].asset \in Int
      <4> TAKE i \in 1 .. n
      <4>1. PICK m \in DOMAIN Tape : of[i] = PolymarketRow(m)
        BY <1>7 DEF Rows
      <4> QED BY <4>1, TapeTyped DEF PolymarketRow
    <3>2. \A a, b \in Int : <<a, b>> \in [1 .. 2 -> Int]
      OBVIOUS
    <3> QED BY <3>1, <3>2, <1>6
  <2> HIDE DEF ids
  <2> QED BY <2>1, <1>6, NumberedApart
<1> HIDE DEF late, ids, times, n
<1>13. DOMAIN ticks = 1 .. n
       /\ \A i \in 1 .. n : /\ ticks[i].ts = of[i].ts * Second + late[i]
                            /\ ticks[i].id = ids[i] \o <<Occurrence(ids, i)>>
                            /\ ticks[i].size = of[i].size
  BY <1>1, <1>6
<1> HIDE DEF ticks
<1>14. ASSUME NEW i \in 1 .. n, NEW j \in 1 .. n, i < j
       PROVE  ticks[i].ts < ticks[j].ts
  <2>1. of[i].ts \in Nat /\ of[j].ts \in Nat /\ of[i].ts <= of[j].ts
    BY <1>7, <1>8, <1>14
  <2>2. late[i] \in 0 .. Second - 1 /\ late[j] \in 0 .. Second - 1
    BY <1>10
  <2>3. CASE of[i].ts < of[j].ts
    <3> DEFINE a == of[i].ts
               b == of[j].ts
               p == late[i]
               q == late[j]
    <3>1. a \in Int /\ b \in Int /\ a < b /\ p \in 0 .. Second - 1 /\ q \in Nat /\ Second \in Nat
      BY <2>1, <2>2, <2>3, <1>6
    <3> HIDE DEF a, b, p, q
    <3>2. a * Second + p < b * Second + q
      BY <3>1, SecondsApart
    <3> QED BY <3>2, <1>13, <1>14 DEF a, b, p, q
  <2>4. CASE of[i].ts = of[j].ts
    <3>1. late[i] < late[j]
      BY <2>4, <1>11, <1>14
    <3> DEFINE a == of[i].ts
               p == late[i]
               q == late[j]
    <3>2. a \in Int /\ p \in Int /\ q \in Int /\ p < q /\ Second \in Int
      BY <2>1, <2>2, <3>1, <1>6
    <3>3. ticks[i].ts = a * Second + p /\ ticks[j].ts = a * Second + q
      BY <2>4, <1>13, <1>14
    <3> HIDE DEF a, p, q
    <3>4. a * Second + p < a * Second + q
      BY <3>2
    <3> QED BY <3>3, <3>4
  <2> QED BY <2>1, <2>3, <2>4
<1>15. InTurn(ticks)
  <2>1. \A i, j \in 1 .. n : i < j => ticks[i].id # ticks[j].id
    BY <1>12, <1>13
  <2>2. DOMAIN ticks = 1 .. n
    BY <1>13
  <2> QED BY <2>1, <2>2, <1>14 DEF InTurn
<1>16. ASSUME NEW r \in Range(s), r.asset = token
       PROVE  TickOf(ticks, r.size, r.ts)
  <2>1. PICK x \in places : s[x] = r
    BY <1>2, <1>16
  <2>2. PICK i \in 1 .. n : at[i] = x
    BY <1>5, <2>1
  <2>3. of[i] = r
    BY <1>5, <2>1, <2>2
  <2>4. ticks[i].ts \div Second = r.ts
    <3> DEFINE a == of[i].ts
               p == late[i]
    <3>1. a \in Int /\ p \in 0 .. Second - 1 /\ Second \in Nat
      BY <1>6, <1>7, <1>10, <2>2
    <3> HIDE DEF a, p
    <3>2. (a * Second + p) \div Second = a
      BY <3>1, SecondOf
    <3> QED BY <3>2, <2>3, <1>13 DEF a, p
  <2> QED BY <2>3, <2>4, <1>13 DEF TickOf
<1> QED BY <1>15, <1>16 DEF ticks

-----------------------------------------------------------------------------
(* Kalshi's rows in their order                                            *)

KalshiRows(index) == {KalshiRow(n, index) : n \in DOMAIN Tape}

\* A time, its second and what is within the second
LEMMA TimeTyped ==
  ASSUME NEW n \in DOMAIN Tape
  PROVE  Time(n) \in Nat /\ Time(n) \div Second = Tape[n].ts /\ Time(n) % Second = Tape[n].within
<1> DEFINE a == Tape[n].ts
           p == Tape[n].within
<1>1. a \in Nat /\ p \in 0 .. Second - 1 /\ Second \in Nat
  BY TapeTyped, LoadsAssumption
<1>2. Time(n) = a * Second + p
  BY DEF Time
<1> HIDE DEF a, p
<1>3. (a * Second + p) \div Second = a /\ (a * Second + p) % Second = p
  BY <1>1, SecondOf
<1>4. a * Second + p \in Nat
  BY <1>1
<1> QED BY <1>2, <1>3, <1>4 DEF a, p

\* The prices Kalshi sends are numbers.
LEMMA YesPriceTyped ==
  ASSUME NEW r, NEW x \in Int, r.yes_price_dollars = NoPrice,
         r.yes_price = [hundredths |-> 100 * x, decimal |-> FALSE]
  PROVE  YesPrice(r) \in Int
<1> DEFINE h == 100 * x
<1>1. h \in Int /\ h # -1 /\ h \div 100 \in Int
  OBVIOUS
<1>2. r.yes_price_dollars.hundredths = -1 /\ r.yes_price.hundredths = h /\ r.yes_price.decimal = FALSE
  BY DEF NoPrice, None
<1> HIDE DEF h
<1>3. ~Given(r.yes_price_dollars) /\ Given(r.yes_price)
  BY <1>1, <1>2 DEF Given, None
<1>4. YesPrice(r) = NormalizePrice(r.yes_price)
  BY <1>3 DEF YesPrice
<1> QED BY <1>1, <1>2, <1>4 DEF NormalizePrice

\* The fields of Kalshi's row, its key and its time
LEMMA KalshiRowTyped ==
  ASSUME NEW index, NEW n \in DOMAIN Tape
  PROVE  LET r == KalshiRow(n, index)
         IN  /\ TradeTimestamp(r, Second) = Time(n)
             /\ KalshiTradeSortKey(r, Second) \in [1 .. 6 -> Int]
             /\ KalshiTradeSortKey(r, Second)[1] = Time(n)
             /\ TradeKey(r) \in [1 .. 4 -> Int]
             /\ r.trade_id \in {n, None} /\ r.count = Tape[n].size /\ r.ts = Tape[n].ts
<1> DEFINE r == KalshiRow(n, index)
           x == IF index = 1 THEN Tape[n].price ELSE 100 - Tape[n].price
<1>1. /\ r.created = Time(n) /\ r.ts = Tape[n].ts /\ r.trade_id \in {n, None} /\ r.count = Tape[n].size
      /\ r.yes_price_dollars = NoPrice /\ r.yes_price = [hundredths |-> 100 * x, decimal |-> FALSE]
      /\ r.taker_side \in {TAKER_YES, TAKER_NO}
  BY DEF KalshiRow
<1>2. x \in Int
  BY TapeTyped
<1> HIDE DEF r, x
<1>3. YesPrice(r) \in Int
  BY <1>1, <1>2, YesPriceTyped
<1>4. Time(n) \in Nat /\ r.ts \in Int /\ r.count \in Int /\ r.trade_id \in Int /\ r.taker_side \in Int /\ r.created \in Int
      /\ r.created # None
  BY <1>1, TimeTyped, TapeTyped, LoadsAssumption DEF None, TAKER_YES, TAKER_NO
<1>5. TradeTimestamp(r, Second) = Time(n)
  BY <1>1, <1>4 DEF TradeTimestamp
<1> DEFINE a == Time(n)
           b == r.trade_id
           c == r.created
           d == YesPrice(r)
           e == r.count
           f == r.taker_side
<1>6. a \in Int /\ b \in Int /\ c \in Int /\ d \in Int /\ e \in Int /\ f \in Int
  BY <1>3, <1>4
<1>7. KalshiTradeSortKey(r, Second) = <<a, b, c, d, e, f>> /\ TradeKey(r) = <<c, d, e, f>>
  BY <1>4, <1>5 DEF KalshiTradeSortKey, TradeKey
<1> HIDE DEF a, b, c, d, e, f
<1>8. <<a, b, c, d, e, f>> \in [1 .. 6 -> Int] /\ <<a, b, c, d, e, f>>[1] = a
  BY <1>6
<1>9. <<c, d, e, f>> \in [1 .. 4 -> Int]
  BY <1>6
<1> QED BY <1>1, <1>5, <1>7, <1>8, <1>9 DEF a, r

KalshiKeys(s) == [i \in DOMAIN s |-> KalshiTradeSortKey(s[i], Second)]

\* Rows sorted by their keys
LEMMA KalshiRowsSorted ==
  ASSUME NEW index, NEW s \in Seq(KalshiRows(index))
  PROVE  \E at : Sorts(StableSort(s, LAMBDA t, u : KeyLess(KalshiTradeSortKey(t, Second), KalshiTradeSortKey(u, Second))),
                       s, ByKey(KalshiKeys(s)), at)
<1> DEFINE less == ByKey(KalshiKeys(s))
           key(i) == KalshiTradeSortKey(s[i], Second)
           before(i) == {j \in DOMAIN s : KeyLess(key(j), key(i)) \/ (~KeyLess(key(i), key(j)) /\ j < i)}
           at == [k \in 1 .. Cardinality(DOMAIN s) |-> CHOOSE i \in DOMAIN s : Cardinality(before(i)) = k - 1]
           sorted == StableSort(s, LAMBDA t, u : KeyLess(KalshiTradeSortKey(t, Second), KalshiTradeSortKey(u, Second)))
<1>1. sorted = [k \in DOMAIN s |-> s[at[k]]]
  BY DEF StableSort, Ranked
<1>2. Len(s) \in Nat /\ DOMAIN s = 1 .. Len(s)
  OBVIOUS
<1>3. WeakOrder(s, less)
  <2>1. \A i \in DOMAIN s : KalshiTradeSortKey(s[i], Second) \in [1 .. 6 -> Int]
    <3> TAKE i \in DOMAIN s
    <3>1. PICK n \in DOMAIN Tape : s[i] = KalshiRow(n, index)
      BY DEF KalshiRows
    <3> QED BY <3>1, KalshiRowTyped
  <2>2. KalshiKeys(s) \in [1 .. Len(s) -> [1 .. 6 -> Int]]
    BY <1>2, <2>1 DEF KalshiKeys
  <2> QED BY <1>2, <2>2, KeysWeakOrder
<1>4. \A i \in DOMAIN s : Cardinality(before(i)) = RankOf(Stable(s, less), DOMAIN s, i)
  <2> TAKE i \in DOMAIN s
  <2>1. \A j, k \in DOMAIN s : <<j, k>> \in less <=> KeyLess(key(j), key(k))
    BY DEF ByKey, KalshiKeys
  <2> HIDE DEF less, key
  <2>2. before(i) = {j \in DOMAIN s : <<j, i>> \in Stable(s, less)}
    BY <2>1 DEF Stable
  <2> QED BY <2>2 DEF RankOf
<1> HIDE DEF less, before
<1>5. \A k \in DOMAIN s : at[k] = CHOOSE i \in DOMAIN s : RankOf(Stable(s, less), DOMAIN s, i) = k - 1
  <2>1. Cardinality(DOMAIN s) = Len(s)
    BY <1>2, FS_Interval
  <2> TAKE k \in DOMAIN s
  <2>2. at[k] = CHOOSE i \in DOMAIN s : Cardinality(before(i)) = k - 1
    BY <1>2, <2>1
  <2> HIDE DEF at
  <2> QED BY <1>4, <2>2
<1> HIDE DEF at, sorted
<1>6. sorted = SortedBy(s, less)
  BY <1>1, <1>5 DEF SortedBy
<1>7. \E at2 : Sorts(SortedBy(s, less), s, less, at2)
  BY <1>2, <1>3, SortedBySorts
<1> QED BY <1>6, <1>7 DEF less, sorted

\* The rows of the trades m, each once, by their times.
KalshiList(s, index, m) ==
  /\ s \in Seq(KalshiRows(index)) /\ m \in [1 .. Len(s) -> DOMAIN Tape]
  /\ \A i \in 1 .. Len(s) : s[i] = KalshiRow(m[i], index)
  /\ \A i, j \in 1 .. Len(s) : m[i] = m[j] => i = j
  /\ \A i, j \in 1 .. Len(s) : i < j => Time(m[i]) <= Time(m[j])

\* What load_trades leaves of the rows.
LEMMA WindowRows ==
  ASSUME NEW rows \in Seq(DOMAIN Tape), \A i, j \in DOMAIN rows : rows[i] = rows[j] => i = j, NEW index
  PROVE  \E m : /\ KalshiList(KalshiTrades([i \in DOMAIN rows |-> KalshiRow(rows[i], index)],
                                           Start * Second, End * Second, Second), index, m)
                /\ \A n \in Range(rows) : InWindow(Time(n), Start * Second, End * Second) => n \in Range(m)
<1> DEFINE s == [i \in DOMAIN rows |-> KalshiRow(rows[i], index)]
           places == {i \in DOMAIN s : InWindow(TradeTimestamp(s[i], Second), Start * Second, End * Second)}
           kept == Picked(s, places)
           sorted == StableSort(kept, LAMBDA t, u : KeyLess(KalshiTradeSortKey(t, Second), KalshiTradeSortKey(u, Second)))
<1>1. KalshiTrades(s, Start * Second, End * Second, Second) = sorted
  BY DEF KalshiTrades, Keep
<1>2. Len(rows) \in Nat /\ DOMAIN rows = 1 .. Len(rows) /\ \A i \in DOMAIN rows : rows[i] \in DOMAIN Tape
  OBVIOUS
<1>3. \A i \in DOMAIN rows : KalshiRow(rows[i], index) \in KalshiRows(index)
  BY <1>2 DEF KalshiRows
<1>4. /\ s \in Seq(KalshiRows(index)) /\ DOMAIN s = DOMAIN rows
      /\ \A i \in DOMAIN rows : s[i] = KalshiRow(rows[i], index)
  <2>1. s = [i \in 1 .. Len(rows) |-> KalshiRow(rows[i], index)]
    BY <1>2
  <2> QED BY <1>2, <1>3, <2>1
<1> HIDE DEF s
<1>5. places \in SUBSET DOMAIN s
  OBVIOUS
<1>6. \A i \in DOMAIN rows : InWindow(Time(rows[i]), Start * Second, End * Second) => i \in places
  <2> TAKE i \in DOMAIN rows
  <2>1. TradeTimestamp(s[i], Second) = Time(rows[i])
    BY <1>2, <1>4, KalshiRowTyped
  <2> QED BY <1>4, <2>1
<1> HIDE DEF places
<1>7. kept \in Seq(KalshiRows(index))
  BY <1>4, <1>5, PickedKeeps
<1>8. PICK pl : Keeps(kept, s, places, pl)
  BY <1>4, <1>5, PickedKeeps
<1> HIDE DEF kept
<1>9. PICK at : Sorts(sorted, kept, ByKey(KalshiKeys(kept)), at)
  BY <1>7, KalshiRowsSorted
<1> HIDE DEF sorted
<1> DEFINE n == Len(kept)
<1>10. /\ sorted \in Seq(KalshiRows(index)) /\ Len(sorted) = n /\ n \in Nat /\ DOMAIN kept = 1 .. n
       /\ \A k, l \in 1 .. n : at[k] \in 1 .. n /\ sorted[k] = kept[at[k]] /\ (at[k] = at[l] => k = l)
  BY <1>7, <1>9, SortsAll
<1>11. \A i \in 1 .. n : pl[i] \in places /\ kept[i] = s[pl[i]]
  BY <1>8 DEF Keeps
<1>12. \A i, j \in 1 .. n : pl[i] = pl[j] => i = j
  <2> SUFFICES ASSUME NEW i \in 1 .. n, NEW j \in 1 .. n, pl[i] = pl[j], i # j PROVE FALSE
    OBVIOUS
  <2>1. i < j \/ j < i
    BY <1>10
  <2>2. pl[i] < pl[j] \/ pl[j] < pl[i]
    BY <2>1, <1>8 DEF Keeps
  <2>3. pl[i] \in 1 .. Len(rows)
    BY <1>2, <1>4, <1>5, <1>11
  <2> QED BY <2>2, <2>3
<1>13. \A p \in places : \E i \in 1 .. n : pl[i] = p
  BY <1>8 DEF Keeps
<1>14. \A i \in 1 .. n : \E k \in 1 .. n : at[k] = i
  BY <1>9, <1>10 DEF Sorts
<1>15. \A k, l \in 1 .. n : k < l => <<at[l], at[k]>> \notin ByKey(KalshiKeys(kept))
  BY <1>9, <1>10 DEF Sorts
<1> HIDE DEF n
<1> DEFINE m == [k \in 1 .. n |-> rows[pl[at[k]]]]
<1>16. \A k \in 1 .. n : /\ at[k] \in 1 .. n /\ pl[at[k]] \in DOMAIN rows
                         /\ sorted[k] = KalshiRow(rows[pl[at[k]]], index)
  BY <1>4, <1>5, <1>10, <1>11
<1>17. m \in [1 .. n -> DOMAIN Tape] /\ \A k \in 1 .. n : m[k] = rows[pl[at[k]]] /\ sorted[k] = KalshiRow(m[k], index)
  BY <1>2, <1>16
<1> HIDE DEF m
<1>18. \A k, l \in 1 .. n : m[k] = m[l] => k = l
  <2> TAKE k \in 1 .. n, l \in 1 .. n
  <2> HAVE m[k] = m[l]
  <2>1. pl[at[k]] = pl[at[l]]
    BY <1>16, <1>17
  <2> QED BY <2>1, <1>10, <1>12
<1>19. \A k, l \in 1 .. n : k < l => Time(m[k]) <= Time(m[l])
  <2> TAKE k \in 1 .. n, l \in 1 .. n
  <2> HAVE k < l
  <2> DEFINE a == KalshiTradeSortKey(sorted[k], Second)
             b == KalshiTradeSortKey(sorted[l], Second)
  <2>1. ~KeyLess(b, a)
    <3>1. <<at[l], at[k]>> \notin ByKey(KalshiKeys(kept))
      BY <1>15
    <3>2. ~KeyLess(KalshiTradeSortKey(kept[at[l]], Second), KalshiTradeSortKey(kept[at[k]], Second))
      BY <3>1, <1>10 DEF ByKey, KalshiKeys
    <3> QED BY <3>2, <1>10
  <2>2. a \in [1 .. 6 -> Int] /\ a[1] = Time(m[k]) /\ b \in [1 .. 6 -> Int] /\ b[1] = Time(m[l])
    <3>1. \A x \in DOMAIN Tape : /\ KalshiTradeSortKey(KalshiRow(x, index), Second) \in [1 .. 6 -> Int]
                                 /\ KalshiTradeSortKey(KalshiRow(x, index), Second)[1] = Time(x)
      BY KalshiRowTyped
    <3>2. m[k] \in DOMAIN Tape /\ m[l] \in DOMAIN Tape
      BY <1>17
    <3> QED BY <3>1, <3>2, <1>17
  <2>3. 6 \in Nat /\ 6 >= 1
    OBVIOUS
  <2> HIDE DEF a, b
  <2>4. a[1] <= b[1]
    BY <2>1, <2>2, <2>3, FirstOfKeys, Zenon
  <2> QED BY <2>2, <2>4
<1>20. ASSUME NEW x \in Range(rows), InWindow(Time(x), Start * Second, End * Second)
       PROVE  x \in Range(m)
  <2>1. PICK i \in DOMAIN rows : rows[i] = x
    BY DEF Range
  <2>2. i \in places
    BY <1>6, <1>20, <2>1
  <2>3. PICK k \in 1 .. n : pl[k] = i
    BY <1>13, <2>2
  <2>4. PICK l \in 1 .. n : at[l] = k
    BY <1>14, <2>3
  <2>5. m[l] = x /\ l \in DOMAIN m
    BY <1>17, <2>1, <2>3, <2>4
  <2> QED BY <2>5 DEF Range
<1>21. KalshiList(sorted, index, m)
  BY <1>10, <1>17, <1>18, <1>19 DEF KalshiList
<1>22. KalshiTrades(s, Start * Second, End * Second, Second) = KalshiTrades([i \in DOMAIN rows |-> KalshiRow(rows[i], index)], Start * Second, End * Second, Second)
  BY DEF s
<1> QED BY <1>1, <1>20, <1>21, <1>22

-----------------------------------------------------------------------------
(* Kalshi's ticks                                                          *)

Together(n) == Cardinality({k \in DOMAIN Tape : Time(k) = Time(n)})

\* A trade has fewer earlier rows of its time than there are trades of that time.
LEMMA FewTogether ==
  ASSUME NEW n \in Nat, NEW m \in [1 .. n -> DOMAIN Tape], \A i, j \in 1 .. n : m[i] = m[j] => i = j,
         NEW times, \A i \in 1 .. n : times[i] = Time(m[i]), NEW i \in 1 .. n
  PROVE  Together(m[i]) \in Nat /\ Occurrence(times, i) < Together(m[i])
<1> DEFINE A == {j \in 1 .. i - 1 : times[j] = times[i]}
           B == {k \in DOMAIN Tape : Time(k) = Time(m[i])}
           C == A \union {i}
           f == [j \in C |-> m[j]]
<1>1. IsFiniteSet(DOMAIN Tape) /\ IsFiniteSet(1 .. i - 1)
  <2>1. \A k \in Nat : IsFiniteSet(1 .. k)
    BY FS_Interval
  <2>2. Len(Tape) \in Nat /\ DOMAIN Tape = 1 .. Len(Tape) /\ i - 1 \in Nat
    BY LoadsAssumption
  <2> QED BY <2>1, <2>2
<1>2. IsFiniteSet(B) /\ Cardinality(B) \in Nat
  <2>1. B \in SUBSET DOMAIN Tape
    OBVIOUS
  <2> HIDE DEF B
  <2> QED BY <1>1, <2>1, FS_Subset, FS_CardinalityType
<1>3. i \notin A /\ A \in SUBSET (1 .. i - 1)
  OBVIOUS
<1>4. f \in [C -> B] /\ \A x, y \in C : f[x] = f[y] => x = y
  <2>1. \A j \in C : j \in 1 .. n /\ Time(m[j]) = Time(m[i])
    OBVIOUS
  <2> QED BY <2>1
<1>5. Occurrence(times, i) = Cardinality(A)
  BY DEF Occurrence
<1>6. Together(m[i]) = Cardinality(B)
  BY DEF Together
<1> HIDE DEF A, B, f
<1>7. IsFiniteSet(A) /\ Cardinality(A) \in Nat
  BY <1>1, <1>3, FS_Subset, FS_CardinalityType
<1>8. Cardinality(C) = Cardinality(A) + 1
  BY <1>3, <1>7, FS_AddElement
<1>9. f \in Injection(C, B)
  BY <1>4 DEF Injection, IsInjective
<1>10. Cardinality(C) <= Cardinality(B)
  BY <1>2, <1>9, FS_Injection
<1> QED BY <1>2, <1>5, <1>6, <1>7, <1>8, <1>10

\* Kalshi: every row is a tick, and the ticks are in turn.
LEMMA KalshiTicks ==
  ASSUME NEW s, NEW index, NEW m, KalshiList(s, index, m)
  PROVE  /\ InTurn(ParseKalshiTrades(s, Second))
         /\ \A n \in Range(m) : TickOf(ParseKalshiTrades(s, Second), Tape[n].size, Tape[n].ts)
<1> DEFINE times == [i \in DOMAIN s |-> TradeTimestamp(s[i], Second)]
           keys == [i \in DOMAIN s |-> TradeKey(s[i])]
           late == [i \in DOMAIN s |-> AtMost(Occurrence(times, i), Second - 1 - (times[i] % Second))]
           ids == [i \in DOMAIN s |-> IF s[i].trade_id # None THEN <<s[i].trade_id>>
                                      ELSE keys[i] \o <<Occurrence(keys, i)>>]
           n == Len(s)
           ticks == ParseKalshiTrades(s, Second)
<1>1. ticks = [i \in DOMAIN s |->
                 [ts    |-> times[i] + late[i], id |-> ids[i],
                  side  |-> AggressorSide(s[i].taker_side, TAKER_YES, TAKER_NO),
                  price |-> YesPrice(s[i]), size |-> s[i].count]]
  BY DEF ParseKalshiTrades
<1>2. n \in Nat /\ DOMAIN s = 1 .. n /\ Second \in Nat
  BY LoadsAssumption DEF KalshiList
<1>3. /\ m \in [1 .. n -> DOMAIN Tape]
      /\ \A i \in 1 .. n : s[i] = KalshiRow(m[i], index)
      /\ \A i, j \in 1 .. n : m[i] = m[j] => i = j
      /\ \A i, j \in 1 .. n : i < j => Time(m[i]) <= Time(m[j])
  BY DEF KalshiList
<1>4. \A x \in DOMAIN Tape : /\ TradeTimestamp(KalshiRow(x, index), Second) = Time(x)
                             /\ TradeKey(KalshiRow(x, index)) \in [1 .. 4 -> Int]
                             /\ KalshiRow(x, index).trade_id \in {x, None}
                             /\ KalshiRow(x, index).count = Tape[x].size
  BY KalshiRowTyped
<1>5. \A i \in 1 .. n : /\ m[i] \in DOMAIN Tape /\ times[i] = Time(m[i])
                        /\ keys[i] \in [1 .. 4 -> Int] /\ s[i].trade_id \in {m[i], None}
                        /\ s[i].count = Tape[m[i]].size
  BY <1>2, <1>3, <1>4
<1>6. \A i \in 1 .. n : late[i] = AtMost(Occurrence(times, i), Second - 1 - (times[i] % Second))
  BY <1>2
<1>7. keys \in [1 .. n -> [1 .. 4 -> Int]]
  BY <1>2, <1>5
<1>8. \A i \in 1 .. n : ids[i] = IF s[i].trade_id # None THEN <<s[i].trade_id>> ELSE keys[i] \o <<Occurrence(keys, i)>>
  BY <1>2
<1> HIDE DEF times, keys, late, ids, n
<1>9. DOMAIN ticks = 1 .. n
      /\ \A i \in 1 .. n : ticks[i].ts = times[i] + late[i] /\ ticks[i].id = ids[i] /\ ticks[i].size = s[i].count
  BY <1>1, <1>2
<1> HIDE DEF ticks
<1>10. \A i \in 1 .. n : /\ Occurrence(times, i) \in Nat /\ Together(m[i]) \in Nat /\ Occurrence(times, i) < Together(m[i])
  <2>1. \A i \in 1 .. n : Occurrence(times, i) \in 0 .. i - 1
    BY <1>2, Occurrences
  <2>2. \A i \in 1 .. n : times[i] = Time(m[i])
    BY <1>5
  <2>3. \A i \in 1 .. n : Together(m[i]) \in Nat /\ Occurrence(times, i) < Together(m[i])
    BY <1>2, <1>3, <2>2, FewTogether
  <2> QED BY <1>2, <2>1, <2>3
<1>11. \A x \in DOMAIN Tape : /\ Tape[x].within + Together(x) <= Second
                              /\ \A k \in DOMAIN Tape : Time(x) < Time(k) => Time(x) + Together(x) <= Time(k)
  BY SpacedAssumption DEF Together
<1>12. \A i \in 1 .. n : late[i] = Occurrence(times, i) /\ late[i] \in Nat /\ Tape[m[i]].within + late[i] \in 0 .. Second - 1
  <2> TAKE i \in 1 .. n
  <2> DEFINE o == Occurrence(times, i)
             w == Tape[m[i]].within
             g == Together(m[i])
  <2>1. times[i] % Second = w
    BY <1>5, TimeTyped
  <2>2. w \in 0 .. Second - 1
    BY <1>5, TapeTyped
  <2>3. o \in Nat /\ g \in Nat /\ o < g /\ w + g <= Second
    BY <1>5, <1>10, <1>11
  <2>4. late[i] = AtMost(o, Second - 1 - w)
    BY <1>6, <2>1
  <2> HIDE DEF o, w, g
  <2>5. ~(o > Second - 1 - w)
    BY <1>2, <2>2, <2>3
  <2>6. late[i] = o
    BY <2>4, <2>5 DEF AtMost
  <2>7. w + o \in 0 .. Second - 1
    BY <1>2, <2>2, <2>3
  <2> QED BY <2>3, <2>6, <2>7 DEF o, w
<1>13. ASSUME NEW i \in 1 .. n, NEW j \in 1 .. n, i < j
       PROVE  ticks[i].ts < ticks[j].ts
  <2> DEFINE a == Time(m[i])
             b == Time(m[j])
             p == late[i]
             q == late[j]
             g == Together(m[i])
  <2>1. a \in Nat /\ b \in Nat /\ a <= b /\ p \in Nat /\ q \in Nat /\ g \in Nat /\ p < g
    BY <1>3, <1>5, <1>10, <1>12, <1>13, TimeTyped
  <2>2. a < b => a + g <= b
    BY <1>5, <1>11, <1>13
  <2>3. a = b => p < q
    <3>1. a = b => times[i] = times[j]
      BY <1>5, <1>13
    <3>2. times[i] = times[j] => Occurrence(times, i) < Occurrence(times, j)
      BY <1>2, <1>13, Occurrences
    <3>3. late[i] = Occurrence(times, i) /\ late[j] = Occurrence(times, j)
      BY <1>12, <1>13
    <3> QED BY <3>1, <3>2, <3>3
  <2>4. ticks[i].ts = a + p /\ ticks[j].ts = b + q
    BY <1>5, <1>9, <1>13
  <2> HIDE DEF a, b, p, q, g
  <2>5. a + p < b + q
    BY <2>1, <2>2, <2>3
  <2> QED BY <2>4, <2>5
<1>14. ASSUME NEW i \in 1 .. n, NEW j \in 1 .. n, i < j
       PROVE  ticks[i].id # ticks[j].id
  <2> DEFINE x == s[i].trade_id
             y == s[j].trade_id
             a == keys[i] \o <<Occurrence(keys, i)>>
             b == keys[j] \o <<Occurrence(keys, j)>>
  <2>1. ids[i] = (IF x # None THEN <<x>> ELSE a) /\ ids[j] = (IF y # None THEN <<y>> ELSE b)
    BY <1>8, <1>14
  <2>2. x # None /\ y # None => x # y
    BY <1>2, <1>3, <1>5, <1>14
  <2>3. 4 \in Nat /\ n \in Nat /\ i \in 1 .. n /\ j \in 1 .. n
    BY <1>2, <1>14
  <2>4. a # b /\ Len(a) = 4 + 1 /\ Len(b) = 4 + 1
    <3>1. a # b
      BY <2>3, <1>7, <1>14, NumberedApart
    <3>2. keys[i] \in [1 .. 4 -> Int] /\ keys[j] \in [1 .. 4 -> Int]
      BY <1>5, <1>14
    <3> QED BY <2>3, <3>1, <3>2, NumberedLength, Zenon
  <2> HIDE DEF x, y, a, b
  <2>5. <<x>> # a /\ <<x>> # b /\ <<y>> # a /\ <<y>> # b
    <3>1. Len(<<x>>) = 1 /\ Len(<<y>>) = 1 /\ 4 + 1 # 1
      OBVIOUS
    <3> QED BY <2>4, <3>1, Zenon
  <2>6. x # y => <<x>> # <<y>>
    OBVIOUS
  <2>7. ids[i] # ids[j]
    BY <2>1, <2>2, <2>4, <2>5, <2>6, Zenon
  <2> QED BY <2>7, <1>9, <1>14
<1>15. InTurn(ticks)
  BY <1>9, <1>13, <1>14 DEF InTurn
<1>16. ASSUME NEW x \in Range(m)
       PROVE  TickOf(ticks, Tape[x].size, Tape[x].ts)
  <2>1. PICK i \in 1 .. n : m[i] = x
    BY <1>3, <1>16 DEF Range
  <2>2. ticks[i].size = Tape[x].size
    BY <1>5, <1>9, <2>1
  <2>3. ticks[i].ts \div Second = Tape[x].ts
    <3> DEFINE a == Tape[x].ts
               w == Tape[x].within
               p == late[i]
    <3>1. a \in Int /\ w \in Int /\ p \in Int /\ w + p \in 0 .. Second - 1
      BY <1>5, <1>12, <2>1, TapeTyped
    <3>2. ticks[i].ts = (a * Second + w) + p
      BY <1>5, <1>9, <2>1 DEF Time
    <3> HIDE DEF a, w, p
    <3>3. (a * Second + (w + p)) \div Second = a
      BY <1>2, <3>1, SecondOf
    <3>4. (a * Second + w) + p = a * Second + (w + p)
      BY <1>2, <3>1
    <3> QED BY <3>2, <3>3, <3>4 DEF a
  <2> QED BY <1>9, <2>1, <2>2, <2>3 DEF TickOf
<1> QED BY <1>15, <1>16 DEF ticks

-----------------------------------------------------------------------------
(* The invariant of a load                                                 *)

LoadFields == {"pc", "index", "gamma", "quote", "details", "clob", "instrument", "before", "offset", "cursor",
               "rows", "partial", "ticks"}
Early == {"market", "members", "details", "fee", "event"}

\* No page has been asked for.
Fresh ==
  /\ load.before = None /\ load.offset = 0 /\ load.cursor = None
  /\ load.rows = <<>> /\ load.partial = FALSE /\ load.ticks = <<>>

MarketTyped == {"venue", "printed"} \subseteq DOMAIN market

LoadTyped ==
  /\ DOMAIN load = LoadFields
  /\ market.venue \in {"POLYMARKET", "KALSHI"} /\ market.printed \in 0 .. Len(Tape)
  /\ load.partial \in BOOLEAN
  /\ load.pc \in Early => Fresh
  /\ load.pc # "loaded" => load.ticks = <<>>
  /\ load.pc \in {"pages", "ticks"} =>
       load.rows \in Seq(DOMAIN Tape) /\ (load.before = None \/ load.before \in 0 .. market.printed)
  /\ load.pc = "pages" => load.partial = FALSE /\ (load.before = None => Fresh)

\* The rows have every trade of the window after the k-th that had happened when the first
\* page was asked for.
Seen(k) == \A n \in 1 .. Before : n > k /\ InTime(n) => n \in Range(load.rows)

\* Polymarket: a place in the list moves back when a trade happens, so what comes before the
\* offset has been seen at any time.
PlacesSeen ==
  market.venue = "POLYMARKET" /\ load.pc \in {"pages", "ticks"} =>
    /\ load.offset \in 0 .. market.printed /\ load.offset <= Ceiling + PageSize
    /\ Len(load.rows) <= load.offset
    /\ load.pc = "pages" => Seen(market.printed - load.offset)

\* Kalshi: what is no older than the cursor has been seen, each trade once.
CursorSeen ==
  market.venue = "KALSHI" /\ load.pc \in {"pages", "ticks"} =>
    /\ \A i, j \in DOMAIN load.rows : i < j => load.rows[i] > load.rows[j]
    /\ load.pc = "pages" =>
         IF load.cursor = None THEN load.rows = <<>>
         ELSE /\ load.cursor \in DOMAIN Tape /\ Seen(load.cursor - 1)
              /\ \A i \in DOMAIN load.rows : load.rows[i] >= load.cursor

LoadInv ==
  /\ MarketTyped /\ LoadTyped /\ PlacesSeen /\ CursorSeen
  /\ load.pc = "ticks" /\ ~load.partial => load.before # None /\ Seen(0)
  /\ TradesComplete /\ TicksOrdered

TradesInv ==
  IF activity = "replay" THEN LoadInv ELSE load = [pc |-> "none", ticks |-> <<>>]

\* To changes some fields and leaves the others.
LEMMA LoadMoves ==
  ASSUME NEW fields, To(fields), DOMAIN load = LoadFields
  PROVE  /\ DOMAIN load' = LoadFields
         /\ \A k \in LoadFields : load'[k] = IF k \in DOMAIN fields THEN fields[k] ELSE load[k]
BY DEF To, Get

LEMMA TapeLength == Len(Tape) \in Nat /\ DOMAIN Tape = 1 .. Len(Tape)
BY LoadsAssumption

\* What a load is before its first page
BeforePages ==
  /\ MarketTyped /\ Fresh /\ DOMAIN load = LoadFields /\ load.pc \in Early \union {"pages"}
  /\ market.venue \in {"POLYMARKET", "KALSHI"} /\ market.printed \in 0 .. Len(Tape)

\* A load that has not asked for a page is good.
LEMMA FreshGood == BeforePages => LoadInv
<1> SUFFICES ASSUME BeforePages PROVE LoadInv
  OBVIOUS
<1> USE DEF BeforePages
<1>1. LoadTyped
  <2>1. load.before = None /\ load.rows = <<>> /\ load.partial = FALSE /\ load.ticks = <<>>
    BY DEF Fresh
  <2>2. load.rows \in Seq(DOMAIN Tape) /\ load.partial \in BOOLEAN
    <3>1. <<>> \in Seq(DOMAIN Tape) /\ FALSE \in BOOLEAN
      OBVIOUS
    <3> QED BY <2>1, <3>1, Zenon
  <2> QED BY <2>1, <2>2, Zenon DEF LoadTyped
<1>2. load.pc # "loaded" /\ load.pc # "ticks"
  BY DEF Early
<1>3. load.offset = 0 /\ load.rows = <<>> /\ load.cursor = None /\ load.ticks = <<>> /\ Before = market.printed
  BY DEF Fresh, Before
<1>4. Seen(market.printed - load.offset)
  BY <1>3, TapeLength DEF Seen
<1>5. PlacesSeen
  <2>1. 0 \in 0 .. market.printed /\ 0 <= Ceiling + PageSize /\ Len(<<>>) <= 0
    BY LoadsAssumption
  <2> QED BY <1>3, <1>4, <2>1 DEF PlacesSeen
<1>6. CursorSeen
  BY <1>3 DEF CursorSeen
<1>7. TradesComplete /\ TicksOrdered
  BY <1>2, <1>3 DEF TradesComplete, TicksOrdered
<1> QED BY <1>1, <1>2, <1>5, <1>6, <1>7 DEF LoadInv

\* A load that fails has no ticks.
Failed ==
  /\ MarketTyped /\ DOMAIN load = LoadFields /\ load.pc = "failed" /\ load.ticks = <<>> /\ load.partial \in BOOLEAN
  /\ market.venue \in {"POLYMARKET", "KALSHI"} /\ market.printed \in 0 .. Len(Tape)

LEMMA FailedGood == Failed => LoadInv
BY DEF Failed, LoadInv, LoadTyped, PlacesSeen, CursorSeen, TradesComplete, TicksOrdered, Early

\* A load begins well.
LEMMA LoadBegins ==
  ASSUME MarketInit, NEW index, load = Load(index)
  PROVE  LoadInv
<1>1. DOMAIN load = LoadFields /\ load.pc = "market" /\ Fresh
  BY DEF Load, LoadFields, Fresh
<1>2. market.venue \in {"POLYMARKET", "KALSHI"} /\ market.printed \in 0 .. Len(Tape)
  BY LoadsAssumption DEF MarketInit
<1>3. MarketTyped
  BY DEF MarketInit, MarketTyped
<1> QED BY <1>1, <1>2, <1>3, FreshGood DEF Early, BeforePages

-----------------------------------------------------------------------------
(* The pages of a list that grows at its head                              *)

\* The trades of the window that a page keeps.
LEMMA KeptTrades ==
  ASSUME NEW page \in Seq(DOMAIN Tape)
  PROVE  /\ Keep(page, LAMBDA n : InWindow(Tape[n].ts, Start, End)) \in Seq(DOMAIN Tape)
         /\ Len(Keep(page, LAMBDA n : InWindow(Tape[n].ts, Start, End))) <= Len(page)
         /\ \A n \in Range(page) : InTime(n) => n \in Range(Keep(page, LAMBDA m : InWindow(Tape[m].ts, Start, End)))
<1> DEFINE places == {i \in DOMAIN page : InWindow(Tape[page[i]].ts, Start, End)}
           kept == Picked(page, places)
<1>1. Keep(page, LAMBDA n : InWindow(Tape[n].ts, Start, End)) = kept
  BY DEF Keep
<1>2. places \in SUBSET DOMAIN page
  OBVIOUS
<1>3. \A n \in Range(page) : InTime(n) => \E p \in places : page[p] = n
  BY DEF Range, InTime
<1> HIDE DEF places
<1>4. kept \in Seq(DOMAIN Tape) /\ Len(kept) <= Len(page)
  BY <1>2, PickedKeeps
<1>5. PICK at : Keeps(kept, page, places, at)
  BY <1>2, PickedKeeps
<1> HIDE DEF kept
<1>6. ASSUME NEW n \in Range(page), InTime(n) PROVE n \in Range(kept)
  <2>1. PICK p \in places : page[p] = n
    BY <1>3, <1>6
  <2>2. PICK i \in 1 .. Len(kept) : at[i] = p
    BY <1>5, <2>1 DEF Keeps
  <2>3. kept[i] = n /\ i \in DOMAIN kept
    BY <1>4, <1>5, <2>1, <2>2 DEF Keeps
  <2> QED BY <2>3 DEF Range
<1> QED BY <1>1, <1>4, <1>6

\* A page of the newest trades holds those between two places.
LEMMA PageTrades ==
  ASSUME NEW p \in 0 .. Len(Tape), NEW o \in 0 .. p, NEW size \in Nat
  PROVE  LET h == Min({p, o + size})
             page == SubSeq([i \in 1 .. p |-> p + 1 - i], o + 1, h)
         IN  /\ h \in o .. p /\ (h = p \/ h = o + size) /\ h <= o + size /\ page \in Seq(DOMAIN Tape) /\ Len(page) = h - o
             /\ \A n \in p - h + 1 .. p - o : n \in Range(page)
             /\ \A i \in DOMAIN page : page[i] = p + 1 - (o + i)
<1> DEFINE h == Min({p, o + size})
           list == [i \in 1 .. p |-> p + 1 - i]
           page == SubSeq(list, o + 1, h)
<1>1. h \in {p, o + size} /\ h <= p /\ h <= o + size
  <2>1. p \in Nat /\ o + size \in Nat
    BY TapeLength
  <2> QED BY <2>1, MinOfTwo
<1>2. h \in o .. p /\ (h = p \/ h = o + size) /\ h <= o + size
  BY <1>1, TapeLength
<1> HIDE DEF h
<1>3. list \in Seq(1 .. p) /\ Len(list) = p /\ \A i \in 1 .. p : list[i] = p + 1 - i
  BY TapeLength
<1> HIDE DEF list
<1>4. /\ page \in Seq(1 .. p) /\ Len(page) = h - o
      /\ \A i \in 1 .. h - o : page[i] = list[o + i]
  <2>1. o \in Nat /\ p \in Nat /\ h \in Nat /\ o <= h /\ h <= p
    BY <1>2, TapeLength
  <2>2. \A i \in o + 1 .. h : i \in 1 .. Len(list)
    BY <1>3, <2>1
  <2>3. Len(page) = h - o
    BY <1>3, <2>1
  <2>4. page \in Seq(1 .. p)
    BY <1>3, <2>1, <2>2
  <2>5. \A i \in 1 .. h - o : page[i] = list[o + i]
    BY <1>3, <2>1
  <2> QED BY <2>3, <2>4, <2>5
<1> HIDE DEF page
<1>5. h - o \in Nat /\ DOMAIN page = 1 .. h - o
  BY <1>2, <1>4, TapeLength
<1>6. \A i \in DOMAIN page : page[i] = p + 1 - (o + i)
  <2> TAKE i \in DOMAIN page
  <2>1. o + i \in 1 .. p
    BY <1>2, <1>5, TapeLength
  <2> QED BY <1>3, <1>4, <1>5, <2>1
<1>7. page \in Seq(DOMAIN Tape)
  <2>1. \A i \in 1 .. Len(page) : page[i] \in DOMAIN Tape
    BY <1>4, <1>5, TapeLength
  <2> QED BY <1>4, <2>1
<1>8. ASSUME NEW n \in p - h + 1 .. p - o PROVE n \in Range(page)
  <2>1. p + 1 - n - o \in DOMAIN page
    BY <1>2, <1>5, TapeLength
  <2>2. page[p + 1 - n - o] = n
    BY <1>6, <2>1, TapeLength
  <2> QED BY <2>1, <2>2 DEF Range
<1> QED BY <1>2, <1>4, <1>6, <1>7, <1>8 DEF h, list, page

\* Two lists, one after the other
LEMMA RangeOfBoth ==
  ASSUME NEW T, NEW s \in Seq(T), NEW t \in Seq(T)
  PROVE  /\ s \o t \in Seq(T) /\ Len(s \o t) = Len(s) + Len(t)
         /\ \A x \in Range(s) : x \in Range(s \o t)
         /\ \A x \in Range(t) : x \in Range(s \o t)
<1>1. s \o t \in Seq(T) /\ Len(s \o t) = Len(s) + Len(t) /\ Len(s) \in Nat /\ Len(t) \in Nat
  OBVIOUS
<1>2. DOMAIN s = 1 .. Len(s) /\ DOMAIN t = 1 .. Len(t) /\ DOMAIN (s \o t) = 1 .. Len(s) + Len(t)
  BY <1>1
<1>3. \A i \in DOMAIN s : i \in DOMAIN (s \o t) /\ (s \o t)[i] = s[i]
  BY <1>1, <1>2
<1>4. \A i \in DOMAIN t : Len(s) + i \in DOMAIN (s \o t) /\ (s \o t)[Len(s) + i] = t[i]
  BY <1>1, <1>2
<1> QED BY <1>1, <1>3, <1>4 DEF Range

\* An element of the two is one of either.
LEMMA FromEither ==
  ASSUME NEW T, NEW s \in Seq(T), NEW t \in Seq(T), NEW i \in DOMAIN (s \o t)
  PROVE  (s \o t)[i] \in Range(s) \/ (s \o t)[i] \in Range(t)
<1>1. Len(s) \in Nat /\ Len(t) \in Nat /\ DOMAIN s = 1 .. Len(s) /\ DOMAIN t = 1 .. Len(t)
  OBVIOUS
<1>2. DOMAIN (s \o t) = 1 .. Len(s) + Len(t)
  BY <1>1
<1>3. CASE i \in DOMAIN s
  <2>1. (s \o t)[i] = s[i]
    BY <1>1, <1>2, <1>3
  <2> QED BY <1>3, <2>1 DEF Range
<1>4. CASE i - Len(s) \in DOMAIN t
  <2>1. (s \o t)[i] = t[i - Len(s)]
    BY <1>1, <1>2, <1>4
  <2> QED BY <1>4, <2>1 DEF Range
<1> QED BY <1>1, <1>2, <1>3, <1>4

\* Polymarket: whatever trades happened since the last page, the next one begins where what has
\* been seen ends, or before that.
LEMMA PageSeen ==
  ASSUME LoadInv, FetchPage
  PROVE  LoadInv'
<1> DEFINE p == market.printed
           o == load.offset
           h == Min({p, o + PageSize})
           page == SubSeq(Newest, o + 1, h)
           kept == Keep(page, LAMBDA n : InWindow(Tape[n].ts, Start, End))
           f == [before |-> Before, rows |-> load.rows \o kept, offset |-> o + Len(page),
                 pc |-> IF MorePages(page, kept, Start) THEN "pages" ELSE "ticks"]
<1>1. /\ load.pc = "pages" /\ market.venue = "POLYMARKET" /\ o <= Ceiling /\ To(f) /\ UNCHANGED market
  BY DEF FetchPage
<1>2. /\ DOMAIN load = LoadFields /\ p \in 0 .. Len(Tape) /\ load.partial = FALSE /\ load.ticks = <<>>
      /\ load.rows \in Seq(DOMAIN Tape) /\ (load.before = None \/ load.before \in 0 .. p)
  BY <1>1 DEF LoadInv, LoadTyped
<1>3. o \in 0 .. p /\ Len(load.rows) <= o /\ Seen(p - o)
  BY <1>1 DEF LoadInv, PlacesSeen
<1>4. /\ DOMAIN load' = LoadFields
      /\ \A k \in LoadFields : load'[k] = IF k \in DOMAIN f THEN f[k] ELSE load[k]
  <2> HIDE DEF f
  <2> QED BY <1>1, <1>2, LoadMoves
<1>5. /\ load'.before = Before /\ load'.rows = load.rows \o kept /\ load'.offset = o + Len(page)
      /\ load'.pc = (IF MorePages(page, kept, Start) THEN "pages" ELSE "ticks")
      /\ load'.partial = FALSE /\ load'.ticks = <<>>
  <2> HIDE DEF p, o, h, page, kept
  <2> QED BY <1>2, <1>4 DEF LoadFields
<1>6. Newest = [i \in 1 .. p |-> p + 1 - i]
  BY DEF Newest
<1>7. /\ h \in o .. p /\ (h = p \/ h = o + PageSize) /\ h <= o + PageSize /\ page \in Seq(DOMAIN Tape) /\ Len(page) = h - o
      /\ \A n \in p - h + 1 .. p - o : n \in Range(page)
      /\ \A i \in DOMAIN page : page[i] = p + 1 - (o + i)
  <2>1. PageSize \in Nat
    BY LoadsAssumption
  <2> HIDE DEF p, o
  <2> QED BY <1>2, <1>3, <1>6, <2>1, PageTrades
<1> HIDE DEF h, page
<1>8. /\ kept \in Seq(DOMAIN Tape) /\ Len(kept) <= Len(page)
      /\ \A n \in Range(page) : InTime(n) => n \in Range(kept)
  BY <1>7, KeptTrades
<1> HIDE DEF kept, f
<1>9. /\ load'.rows \in Seq(DOMAIN Tape) /\ Len(load'.rows) = Len(load.rows) + Len(kept)
      /\ \A n \in Range(load.rows) : n \in Range(load'.rows)
      /\ \A n \in Range(kept) : n \in Range(load'.rows)
  BY <1>2, <1>5, <1>8, RangeOfBoth
<1>10. Before \in 0 .. p /\ Before # None
  BY <1>2, TapeLength DEF Before, None
<1>11. Before' = Before /\ load'.before = Before
  BY <1>5, <1>10 DEF Before
<1>12. \A n \in 1 .. Before : n > p - h /\ InTime(n) => n \in Range(load'.rows)
  <2> TAKE n \in 1 .. Before
  <2> SUFFICES ASSUME n > p - h, InTime(n) PROVE n \in Range(load'.rows)
    OBVIOUS
  <2>1. CASE n > p - o
    BY <1>3, <1>9, <2>1 DEF Seen
  <2>2. CASE n <= p - o
    <3>1. n \in p - h + 1 .. p - o
      BY <1>2, <1>3, <1>7, <1>10, <2>2, TapeLength
    <3> QED BY <1>7, <1>8, <1>9, <3>1
  <2> QED BY <1>2, <1>3, <1>10, <2>1, <2>2, TapeLength
<1>13. load'.offset = h
  BY <1>3, <1>5, <1>7, TapeLength
<1>14. LoadTyped'
  <2>1. market' = market /\ market.venue \in {"POLYMARKET", "KALSHI"}
    BY <1>1
  <2>2. load'.pc \in {"pages", "ticks"}
    BY <1>5
  <2> HIDE DEF p, o
  <2> QED BY <1>2, <1>4, <1>5, <1>9, <1>10, <1>11, <2>1, <2>2 DEF LoadTyped, Early, p
<1>15. PlacesSeen'
  <2>1. h \in 0 .. p /\ h <= Ceiling + PageSize /\ Len(load'.rows) <= h
    <3>1. Len(load.rows) \in Nat /\ Len(kept) \in Nat /\ Len(load'.rows) = Len(load.rows) + Len(kept)
      BY <1>2, <1>8, <1>9
    <3>2. /\ o \in 0 .. p /\ p \in Nat /\ Len(load.rows) <= o /\ h \in o .. p /\ (h = p \/ h = o + PageSize)
          /\ o <= Ceiling /\ Len(kept) <= h - o /\ h <= o + PageSize
      BY <1>1, <1>2, <1>3, <1>7, <1>8, TapeLength
    <3> HIDE DEF p, o, h, kept
    <3> QED BY <3>1, <3>2, LoadsAssumption
  <2>2. Seen(market.printed - load.offset)'
    BY <1>1, <1>11, <1>12, <1>13 DEF Seen, InTime
  <2> QED BY <1>1, <1>13, <2>1, <2>2 DEF PlacesSeen
<1>16. CursorSeen'
  BY <1>1 DEF CursorSeen
<1>17. ASSUME load'.pc = "ticks" PROVE Seen(0)'
  <2>1. ~MorePages(page, kept, Start)
    BY <1>5, <1>17
  <2>2. CASE Len(page) # PageSize
    <3>1. h = p
      BY <1>3, <1>7, <2>2, TapeLength, LoadsAssumption
    <3> QED BY <1>2, <1>11, <1>12, <3>1, TapeLength DEF Seen, InTime
  <2>3. CASE Len(page) = PageSize
    <3>1. \A i \in DOMAIN page : ~(Tape[page[i]].ts >= Start)
      BY <2>1, <2>3 DEF MorePages
    <3>2. ASSUME NEW n \in 1 .. Before, InTime(n) PROVE n > p - h
      <4> SUFFICES ASSUME n <= p - h PROVE FALSE
        BY <1>2, <1>3, <1>7, <1>10, TapeLength
      <4>1. h - o \in DOMAIN page /\ Len(page) \in Nat /\ DOMAIN page = 1 .. Len(page) /\ Len(page) = h - o
        <5>1. Len(page) \in Nat /\ DOMAIN page = 1 .. Len(page) /\ Len(page) = h - o /\ Len(page) # 0
          BY <1>7, <2>3, LoadsAssumption
        <5> HIDE DEF p, o
        <5> QED BY <5>1
      <4>2. page[h - o] = p + 1 - (o + (h - o))
        BY <1>7, <4>1
      <4>3. o \in 0 .. p /\ h \in o .. p /\ p \in 0 .. Len(Tape) /\ n \in 1 .. Before /\ Before \in 0 .. p
        BY <1>2, <1>3, <1>7, <1>10
      <4>4. p + 1 - h \in DOMAIN Tape /\ n \in DOMAIN Tape /\ n < p + 1 - h /\ page[h - o] = p + 1 - h
        <5> HIDE DEF p, o
        <5> QED BY <4>1, <4>2, <4>3, TapeLength
      <4>5. Tape[n].ts <= Tape[p + 1 - h].ts /\ ~(Tape[p + 1 - h].ts >= Start)
        BY <3>1, <4>1, <4>4, LoadsAssumption
      <4>6. Tape[n].ts \in Nat /\ Tape[p + 1 - h].ts \in Nat
        BY <4>4, TapeTyped
      <4>7. Start <= Tape[n].ts
        BY <3>2, LoadsAssumption DEF InTime, InWindow, None
      <4> QED BY <4>5, <4>6, <4>7, LoadsAssumption
    <3> QED BY <1>11, <1>12, <3>2 DEF Seen, InTime
  <2> QED BY <2>2, <2>3
<1>18. (TradesComplete /\ TicksOrdered)'
  <2>1. load'.pc # "loaded" /\ load'.ticks = <<>>
    BY <1>5
  <2> QED BY <2>1 DEF TradesComplete, TicksOrdered
<1> QED BY <1>1, <1>10, <1>11, <1>14, <1>15, <1>16, <1>17, <1>18 DEF LoadInv, MarketTyped

\* What a cursor leaves of the newest trades: those of the window before it, newest first.
LEMMA LeftTrades ==
  ASSUME NEW p \in 0 .. Len(Tape), NEW Left \in SUBSET Nat
  PROVE  LET list == [i \in 1 .. p |-> p + 1 - i]
             left == Picked(list, {i \in DOMAIN list : list[i] \in Left})
         IN  /\ left \in Seq(DOMAIN Tape)
             /\ \A i \in DOMAIN left : left[i] \in Left
             /\ \A n \in 1 .. p : n \in Left => n \in Range(left)
             /\ \A i, j \in DOMAIN left : i < j => left[i] > left[j]
<1> DEFINE list == [i \in 1 .. p |-> p + 1 - i]
           places == {i \in DOMAIN list : list[i] \in Left}
           left == Picked(list, places)
<1>1. /\ list \in Seq(DOMAIN Tape) /\ DOMAIN list = 1 .. p /\ \A i \in 1 .. p : list[i] = p + 1 - i
  BY TapeLength
<1>2. /\ places \in SUBSET DOMAIN list /\ \A i \in places : list[i] \in Left
      /\ \A i \in 1 .. p : list[i] \in Left => i \in places
  BY <1>1
<1> HIDE DEF list, places
<1>3. left \in Seq(DOMAIN Tape) /\ \E at : Keeps(left, list, places, at)
  BY <1>1, <1>2, PickedKeeps
<1>4. PICK at : Keeps(left, list, places, at)
  BY <1>3
<1> HIDE DEF left
<1>5. Len(left) \in Nat /\ DOMAIN left = 1 .. Len(left)
  BY <1>3
<1>6. \A i \in DOMAIN left : at[i] \in places /\ at[i] \in 1 .. p /\ left[i] = list[at[i]]
  BY <1>1, <1>2, <1>4, <1>5 DEF Keeps
<1>7. \A i, j \in DOMAIN left : i < j => left[i] > left[j]
  <2> TAKE i, j \in DOMAIN left
  <2> SUFFICES ASSUME i < j PROVE left[i] > left[j]
    OBVIOUS
  <2>1. at[i] < at[j]
    BY <1>4, <1>5 DEF Keeps
  <2>2. left[i] = p + 1 - at[i] /\ left[j] = p + 1 - at[j]
    BY <1>1, <1>6
  <2> QED BY <1>6, <2>1, <2>2, TapeLength
<1>8. ASSUME NEW n \in 1 .. p, n \in Left PROVE n \in Range(left)
  <2>1. p + 1 - n \in 1 .. p /\ p + 1 - (p + 1 - n) = n
    BY TapeLength
  <2>2. p + 1 - n \in places /\ list[p + 1 - n] = n
    BY <1>1, <1>2, <1>8, <2>1
  <2>3. PICK i \in 1 .. Len(left) : at[i] = p + 1 - n
    BY <1>4, <2>2 DEF Keeps
  <2>4. left[i] = n
    BY <1>5, <1>6, <2>2, <2>3
  <2> QED BY <1>5, <2>4 DEF Range
<1> QED BY <1>2, <1>3, <1>6, <1>7, <1>8 DEF list, places, left

\* The first of a falling list: what it leaves out is less than its last.
LEMMA FirstPart ==
  ASSUME NEW T \in SUBSET Nat, NEW left \in Seq(T), NEW size \in Nat \ {0},
         \A i, j \in DOMAIN left : i < j => left[i] > left[j]
  PROVE  LET page == FirstOf(left, size)
         IN  /\ page \in Seq(T) /\ \A i \in DOMAIN page : i \in DOMAIN left /\ page[i] = left[i]
             /\ page = <<>> => left = <<>>
             /\ page # <<>> => /\ Len(page) \in DOMAIN page /\ Last(page) = page[Len(page)]
                               /\ \A n \in Range(left) : n >= Last(page) => n \in Range(page)
                               /\ \A i \in DOMAIN page : page[i] >= Last(page)
<1> DEFINE c == IF size < Len(left) THEN size ELSE Len(left)
           page == FirstOf(left, size)
<1>1. page = SubSeq(left, 1, c)
  BY DEF FirstOf
<1>2. Len(left) \in Nat /\ DOMAIN left = 1 .. Len(left) /\ \A i \in DOMAIN left : left[i] \in T
  OBVIOUS
<1>3. c \in 0 .. Len(left) /\ (c = 0 => Len(left) = 0)
  BY <1>2
<1> HIDE DEF c
<1>4. page \in Seq(T) /\ Len(page) = c /\ DOMAIN page = 1 .. c /\ \A i \in 1 .. c : page[i] = left[i]
  BY <1>1, <1>2, <1>3
<1> HIDE DEF page
<1>5. page = <<>> => left = <<>>
  BY <1>2, <1>3, <1>4
<1>6. ASSUME page # <<>>
      PROVE  /\ c \in DOMAIN page /\ Last(page) = page[c]
             /\ \A n \in Range(left) : n >= Last(page) => n \in Range(page)
             /\ \A i \in DOMAIN page : page[i] >= Last(page)
  <2>1. c \in 1 .. c /\ c \in DOMAIN left
    BY <1>2, <1>3, <1>4, <1>6
  <2>2. Last(page) = left[c] /\ Last(page) = page[c]
    BY <1>4, <2>1 DEF Last
  <2>3. \A i \in DOMAIN left : i > c => left[i] < left[c]
    BY <1>2, <2>1
  <2>4. \A i \in DOMAIN left : i <= c => i \in DOMAIN page /\ left[i] = page[i]
    BY <1>2, <1>3, <1>4
  <2>5. \A i \in DOMAIN left : i \in Nat /\ left[i] \in Nat
    <3>1. \A x \in T : x \in Nat
      OBVIOUS
    <3>2. \A i \in 1 .. Len(left) : i \in Nat
      BY <1>2
    <3> QED BY <1>2, <3>1, <3>2, Zenon
  <2>6. ASSUME NEW i \in DOMAIN left PROVE (i <= c => left[i] >= left[c]) /\ (left[i] >= left[c] => i <= c)
    <3>1. i > c => left[i] < left[c]
      BY <2>3
    <3>2. i < c => left[i] > left[c]
      BY <2>1
    <3>3. i \in Nat /\ c \in Nat /\ left[i] \in Nat /\ left[c] \in Nat
      BY <2>1, <2>5, <2>6
    <3> QED BY <3>1, <3>2, <3>3
  <2> QED BY <1>2, <1>3, <1>4, <2>1, <2>2, <2>4, <2>6 DEF Range
<1> QED BY <1>2, <1>3, <1>4, <1>5, <1>6 DEF page

\* A falling list goes on falling.
LEMMA FallingOn ==
  ASSUME NEW T \in SUBSET Nat, NEW s \in Seq(T), NEW t \in Seq(T),
         \A i, j \in DOMAIN s : i < j => s[i] > s[j], \A i, j \in DOMAIN t : i < j => t[i] > t[j],
         \A i \in DOMAIN s, j \in DOMAIN t : s[i] > t[j]
  PROVE  \A i, j \in DOMAIN (s \o t) : i < j => (s \o t)[i] > (s \o t)[j]
<1>1. Len(s) \in Nat /\ Len(t) \in Nat /\ DOMAIN s = 1 .. Len(s) /\ DOMAIN t = 1 .. Len(t)
  OBVIOUS
<1>2. DOMAIN (s \o t) = 1 .. Len(s) + Len(t)
  BY <1>1
<1>3. \A i \in DOMAIN s : (s \o t)[i] = s[i]
  BY <1>1, <1>2
<1>4. \A i \in DOMAIN t : (s \o t)[Len(s) + i] = t[i]
  BY <1>1, <1>2
<1> TAKE i, j \in DOMAIN (s \o t)
<1> SUFFICES ASSUME i < j PROVE (s \o t)[i] > (s \o t)[j]
  OBVIOUS
<1>5. i \in DOMAIN s \/ (i - Len(s) \in DOMAIN t /\ Len(s) + (i - Len(s)) = i)
  BY <1>1, <1>2
<1>6. j \in DOMAIN s \/ (j - Len(s) \in DOMAIN t /\ Len(s) + (j - Len(s)) = j)
  BY <1>1, <1>2
<1>7. i - Len(s) < j - Len(s) /\ (j \in DOMAIN s => i \in DOMAIN s)
  BY <1>1, <1>2
<1> DEFINE u == s \o t
           a == i - Len(s)
           b == j - Len(s)
<1>8. \/ i \in DOMAIN s /\ j \in DOMAIN s /\ u[i] = s[i] /\ u[j] = s[j]
      \/ i \in DOMAIN s /\ b \in DOMAIN t /\ u[i] = s[i] /\ u[j] = t[b]
      \/ a \in DOMAIN t /\ b \in DOMAIN t /\ u[i] = t[a] /\ u[j] = t[b] /\ a < b
  BY <1>3, <1>4, <1>5, <1>6, <1>7
<1> HIDE DEF u, a, b
<1>9. u[i] > u[j]
  BY <1>8
<1> QED BY <1>9 DEF u

\* Kalshi: a page goes on at the cursor, whatever trades happened since.
LEMMA CursorPageSeen ==
  ASSUME LoadInv, FetchCursorPage
  PROVE  LoadInv'
<1> DEFINE p == market.printed
           Left == {n \in Nat : (load.cursor = None \/ n < load.cursor) /\ InTime(n)}
           list == [i \in 1 .. p |-> p + 1 - i]
           left == Picked(list, {i \in DOMAIN list : list[i] \in Left})
           page == FirstOf(left, PageSize)
           f == [before |-> Before, rows |-> load.rows \o page,
                 cursor |-> IF page = <<>> THEN load.cursor ELSE Last(page),
                 pc |-> IF page = left \/ page = <<>> THEN "ticks" ELSE "pages"]
<1>1. load.pc = "pages" /\ market.venue = "KALSHI" /\ UNCHANGED market
  BY DEF FetchCursorPage
<1>2. /\ DOMAIN load = LoadFields /\ p \in 0 .. Len(Tape) /\ load.partial = FALSE /\ load.ticks = <<>>
      /\ load.rows \in Seq(DOMAIN Tape) /\ (load.before = None \/ load.before \in 0 .. p)
  BY <1>1 DEF LoadInv, LoadTyped
<1>3. To(f)
  <2>1. Newest = list
    BY DEF Newest
  <2>2. \A i \in DOMAIN list : list[i] \in Nat
    BY <1>2, TapeLength
  <2>3. {i \in DOMAIN list : /\ load.cursor = None \/ list[i] < load.cursor
                             /\ InWindow(Tape[list[i]].ts, Start, End)} = {i \in DOMAIN list : list[i] \in Left}
    <3> HIDE DEF list
    <3> QED BY <2>2 DEF InTime
  <2>4. Keep(Newest, LAMBDA n : /\ load.cursor = None \/ n < load.cursor
                                /\ InWindow(Tape[n].ts, Start, End)) = left
    <3> HIDE DEF list, Left
    <3> QED BY <2>1, <2>3 DEF Keep
  <2> HIDE DEF left
  <2> QED BY <2>4 DEF FetchCursorPage
<1>4. /\ left \in Seq(DOMAIN Tape)
      /\ \A i \in DOMAIN left : left[i] \in Left
      /\ \A n \in 1 .. p : n \in Left => n \in Range(left)
      /\ \A i, j \in DOMAIN left : i < j => left[i] > left[j]
  <2>1. Left \in SUBSET Nat
    OBVIOUS
  <2> HIDE DEF Left, p
  <2> QED BY <1>2, <2>1, LeftTrades
<1>5. \A n \in Nat : n \in Left <=> (load.cursor = None \/ n < load.cursor) /\ InTime(n)
  OBVIOUS
<1> HIDE DEF left, Left
<1>6. /\ page \in Seq(DOMAIN Tape) /\ \A i \in DOMAIN page : i \in DOMAIN left /\ page[i] = left[i]
      /\ page = <<>> => left = <<>>
      /\ page # <<>> => /\ Len(page) \in DOMAIN page /\ Last(page) = page[Len(page)]
                        /\ \A n \in Range(left) : n >= Last(page) => n \in Range(page)
                        /\ \A i \in DOMAIN page : page[i] >= Last(page)
  <2>1. DOMAIN Tape \in SUBSET Nat /\ PageSize \in Nat \ {0}
    BY TapeLength, LoadsAssumption
  <2> QED BY <1>4, <2>1, FirstPart
<1> HIDE DEF page
<1>7. /\ DOMAIN load' = LoadFields
      /\ \A k \in LoadFields : load'[k] = IF k \in DOMAIN f THEN f[k] ELSE load[k]
  <2> HIDE DEF f
  <2> QED BY <1>2, <1>3, LoadMoves
<1>8. /\ load'.before = Before /\ load'.rows = load.rows \o page
      /\ load'.cursor = (IF page = <<>> THEN load.cursor ELSE Last(page))
      /\ load'.pc = (IF page = left \/ page = <<>> THEN "ticks" ELSE "pages")
      /\ load'.partial = FALSE /\ load'.ticks = <<>>
  <2> HIDE DEF p
  <2> QED BY <1>2, <1>7 DEF LoadFields
<1> HIDE DEF f
<1>9. /\ load'.rows \in Seq(DOMAIN Tape) /\ Len(load'.rows) = Len(load.rows) + Len(page)
      /\ \A n \in Range(load.rows) : n \in Range(load'.rows)
      /\ \A n \in Range(page) : n \in Range(load'.rows)
  BY <1>2, <1>6, <1>8, RangeOfBoth
<1>10. Before \in 0 .. p /\ Before # None
  BY <1>2, TapeLength DEF Before, None
<1>11. Before' = Before /\ load'.before = Before
  BY <1>8, <1>10 DEF Before
<1>12. LoadTyped'
  <2>1. market' = market /\ market.venue \in {"POLYMARKET", "KALSHI"}
    BY <1>1
  <2>2. load'.pc \in {"pages", "ticks"}
    BY <1>8
  <2> HIDE DEF p
  <2> QED BY <1>2, <1>7, <1>8, <1>9, <1>10, <1>11, <2>1, <2>2 DEF LoadTyped, Early, p
<1>13. PlacesSeen'
  BY <1>1 DEF PlacesSeen
<1>14. /\ \A i, j \in DOMAIN load.rows : i < j => load.rows[i] > load.rows[j]
       /\ load.cursor = None => load.rows = <<>>
       /\ load.cursor # None => /\ load.cursor \in DOMAIN Tape /\ Seen(load.cursor - 1)
                                /\ \A i \in DOMAIN load.rows : load.rows[i] >= load.cursor
  BY <1>1 DEF LoadInv, CursorSeen
<1>15. \A i \in DOMAIN page : /\ page[i] \in DOMAIN Tape /\ page[i] \in Nat
                              /\ load.cursor # None => page[i] < load.cursor
  <2> TAKE i \in DOMAIN page
  <2>1. page[i] \in DOMAIN Tape
    BY <1>6
  <2>2. page[i] \in Left
    BY <1>4, <1>6
  <2>3. page[i] \in Nat
    BY <2>1, TapeLength
  <2> QED BY <1>5, <2>1, <2>2, <2>3
<1>16. \A i \in DOMAIN load.rows : load.rows[i] \in DOMAIN Tape /\ load.rows[i] \in Nat
  <2>1. \A i \in DOMAIN load.rows : load.rows[i] \in DOMAIN Tape
    BY <1>2
  <2> QED BY <2>1, TapeLength
<1>17. \A i, j \in DOMAIN load'.rows : i < j => load'.rows[i] > load'.rows[j]
  <2>1. ASSUME NEW i \in DOMAIN load.rows, NEW j \in DOMAIN page PROVE load.rows[i] > page[j]
    <3>1. load.cursor # None
      BY <1>14
    <3>2. load.cursor \in Nat /\ load.rows[i] >= load.cursor
      BY <1>14, <3>1, TapeLength
    <3>3. page[j] < load.cursor /\ page[j] \in Nat /\ load.rows[i] \in Nat
      BY <1>15, <1>16, <3>1
    <3> QED BY <3>2, <3>3
  <2>2. \A i, j \in DOMAIN page : i < j => page[i] > page[j]
    BY <1>4, <1>6
  <2>3. DOMAIN Tape \in SUBSET Nat
    BY TapeLength
  <2> QED BY <1>2, <1>6, <1>8, <1>14, <2>1, <2>2, <2>3, FallingOn
<1>18. ASSUME NEW n \in 1 .. Before, InTime(n) PROVE n \in Range(load.rows) \/ n \in Range(left)
  <2>1. n \in Nat /\ n \in 1 .. p
    BY <1>2, <1>10, TapeLength
  <2>2. CASE load.cursor # None /\ n >= load.cursor
    <3>1. Seen(load.cursor - 1) /\ load.cursor \in Nat
      BY <1>14, <2>2, TapeLength
    <3>2. n > load.cursor - 1
      BY <2>1, <2>2, <3>1
    <3> QED BY <1>18, <3>1, <3>2 DEF Seen
  <2>3. CASE load.cursor = None \/ n < load.cursor
    BY <1>4, <1>5, <1>18, <2>1, <2>3
  <2>4. load.cursor # None => load.cursor \in Nat
    BY <1>14, TapeLength
  <2> QED BY <2>1, <2>2, <2>3, <2>4
<1>19. ASSUME load'.pc = "ticks" PROVE Seen(0)'
  <2>1. page = left
    BY <1>6, <1>8, <1>19
  <2>2. \A n \in 1 .. Before : InTime(n) => n \in Range(load'.rows)
    BY <1>9, <1>18, <2>1
  <2> QED BY <1>11, <2>2 DEF Seen, InTime
<1>20. ASSUME load'.pc = "pages"
       PROVE  /\ load'.cursor \in DOMAIN Tape /\ Seen(load.cursor - 1)'
              /\ \A i \in DOMAIN load'.rows : load'.rows[i] >= load'.cursor
  <2>1. page # <<>> /\ load'.cursor = Last(page) /\ Last(page) = page[Len(page)] /\ Len(page) \in DOMAIN page
    BY <1>6, <1>8, <1>20
  <2> DEFINE c == load'.cursor
  <2>2. c \in DOMAIN Tape /\ c \in Nat
    BY <1>15, <2>1
  <2>3. \A n \in Range(left) : n >= c => n \in Range(page)
    BY <1>6, <2>1
  <2>4. \A i \in DOMAIN page : page[i] >= c
    BY <1>6, <2>1
  <2>5. load.cursor # None => c < load.cursor
    BY <1>15, <2>1
  <2> HIDE DEF c
  <2>6. ASSUME NEW n \in 1 .. Before, n > c - 1, InTime(n) PROVE n \in Range(load'.rows)
    <3>1. n \in Nat /\ n >= c
      BY <1>2, <1>10, <2>2, <2>6, TapeLength
    <3> QED BY <1>9, <1>18, <2>3, <2>6, <3>1
  <2>7. Seen(load.cursor - 1)'
    BY <1>11, <2>6 DEF Seen, InTime, c
  <2>8. ASSUME NEW i \in DOMAIN load'.rows PROVE load'.rows[i] >= c
    <3>1. load'.rows[i] \in Range(load.rows) \/ load'.rows[i] \in Range(page)
      BY <1>2, <1>6, <1>8, <2>8, FromEither
    <3>2. \A x \in Range(page) : x >= c
      BY <2>4 DEF Range
    <3>3. \A x \in Range(load.rows) : x >= c
      <4>1. ASSUME NEW j \in DOMAIN load.rows PROVE load.rows[j] >= c
        <5>1. load.cursor # None
          BY <1>14, <4>1
        <5>2. load.cursor \in Nat /\ load.rows[j] >= load.cursor /\ c < load.cursor
          BY <1>14, <2>5, <4>1, <5>1, TapeLength
        <5>3. load.rows[j] \in Nat
          BY <1>16, <4>1
        <5> QED BY <2>2, <5>2, <5>3
      <4> QED BY <4>1 DEF Range
    <3> QED BY <3>1, <3>2, <3>3
  <2> QED BY <2>2, <2>7, <2>8 DEF c
<1>21. CursorSeen'
  <2>1. load'.pc = "pages" => load'.cursor # None
    BY <1>20, TapeLength DEF None
  <2>2. \A i, j \in DOMAIN load'.rows : i < j => load'.rows[i] > load'.rows[j]
    BY <1>17
  <2> QED BY <1>20, <2>1, <2>2 DEF CursorSeen
<1>22. (TradesComplete /\ TicksOrdered)'
  <2>1. load'.pc # "loaded" /\ load'.ticks = <<>>
    BY <1>8
  <2> QED BY <2>1 DEF TradesComplete, TicksOrdered
<1> QED BY <1>1, <1>10, <1>11, <1>12, <1>13, <1>19, <1>21, <1>22 DEF LoadInv, MarketTyped

-----------------------------------------------------------------------------
(* The trades of the pages become ticks                                    *)

\* What is parsed is loaded or refused; all but the ticks stays.
LEMMA ParsedGood ==
  ASSUME LoadInv, load.pc = "ticks", UNCHANGED market,
         NEW ticks, NEW fields \in {[pc |-> "loaded", ticks |-> ticks], [pc |-> "failed", ticks |-> <<>>]}, To(fields),
         InTurn(ticks),
         ~load.partial => \A n \in Due : TickOf(ticks, Tape[n].size, Tape[n].ts)
  PROVE  LoadInv'
<1>1. /\ DOMAIN load = LoadFields /\ load.partial \in BOOLEAN /\ market.printed \in 0 .. Len(Tape)
      /\ market.venue \in {"POLYMARKET", "KALSHI"}
  BY DEF LoadInv, LoadTyped
<1>2. /\ DOMAIN load' = LoadFields
      /\ \A k \in LoadFields : load'[k] = IF k \in DOMAIN fields THEN fields[k] ELSE load[k]
  BY <1>1, LoadMoves
<1>3. DOMAIN fields = {"pc", "ticks"}
  OBVIOUS
<1>4. /\ load'.pc = fields.pc /\ load'.ticks = fields.ticks
      /\ load'.partial = load.partial /\ load'.before = load.before /\ load'.instrument = load.instrument
  BY <1>2, <1>3 DEF LoadFields
<1>5. load'.pc \in {"loaded", "failed"} /\ (load'.pc = "loaded" => load'.ticks = ticks)
      /\ (load'.pc = "failed" => load'.ticks = <<>>)
  BY <1>4
<1>6. LoadTyped'
  BY <1>1, <1>2, <1>4, <1>5 DEF LoadTyped, Early
<1>7. PlacesSeen' /\ CursorSeen' /\ load'.pc # "ticks"
  BY <1>5 DEF PlacesSeen, CursorSeen
<1>8. TicksOrdered'
  BY <1>5 DEF TicksOrdered, InTurn
<1>9. TradesComplete'
  <2>1. Due' = Due
    BY <1>4, Zenon DEF Due, InTurn
  <2> QED BY <1>4, <1>5, <2>1 DEF TradesComplete, TickOf
<1> QED BY <1>6, <1>7, <1>8, <1>9 DEF LoadInv, MarketTyped

\* Every trade that was due is a row of the token and of the window, and so a tick.
LEMMA PolymarketParsed ==
  ASSUME LoadInv, ParsePolymarket
  PROVE  LoadInv'
<1> DEFINE sent == [i \in DOMAIN load.rows |-> PolymarketRow(load.rows[i])]
           token == load.instrument.token
           rows == TokenTrades(sent, token, Start, End)
           ticks == ParseTrades(rows, token, Second)
<1>1. load.pc = "ticks" /\ market.venue = "POLYMARKET" /\ UNCHANGED market
  BY DEF ParsePolymarket
<1>2. \E fields \in {[pc |-> "loaded", ticks |-> ticks], [pc |-> "failed", ticks |-> <<>>]} : To(fields)
  <2>1. CASE PricesValid(rows)
    <3>1. To([pc |-> "loaded", ticks |-> ticks])
      BY <2>1 DEF ParsePolymarket
    <3> HIDE DEF ticks
    <3> QED BY <3>1
  <2>2. CASE ~PricesValid(rows)
    <3>1. To([pc |-> "failed", ticks |-> <<>>])
      BY <2>2 DEF ParsePolymarket
    <3> HIDE DEF ticks
    <3> QED BY <3>1
  <2> QED BY <2>1, <2>2
<1>3. /\ load.rows \in Seq(DOMAIN Tape) /\ load.offset <= Ceiling + PageSize /\ Len(load.rows) <= load.offset
      /\ load.offset \in Nat /\ (load.before = None \/ load.before \in 0 .. Len(Tape))
  BY <1>1, TapeLength DEF LoadInv, LoadTyped, PlacesSeen
<1>4. sent \in Seq(Rows) /\ Len(sent) = Len(load.rows) /\ \A n \in Range(load.rows) : PolymarketRow(n) \in Range(sent)
  <2>1. Len(load.rows) \in Nat /\ DOMAIN load.rows = 1 .. Len(load.rows)
    BY <1>3
  <2>2. \A i \in DOMAIN load.rows : PolymarketRow(load.rows[i]) \in Rows
    BY <1>3 DEF Rows
  <2>3. sent \in [1 .. Len(load.rows) -> Rows]
    BY <2>1, <2>2
  <2>4. \A i \in DOMAIN load.rows : i \in DOMAIN sent /\ sent[i] = PolymarketRow(load.rows[i])
    OBVIOUS
  <2> HIDE DEF sent
  <2> QED BY <2>1, <2>3, <2>4 DEF Range
<1> HIDE DEF sent
<1>5. /\ rows \in Seq(Rows) /\ Len(rows) <= Len(sent)
      /\ \A r \in Range(sent) : r.asset = token /\ InWindow(r.ts, Start, End) => r \in Range(rows)
      /\ \A i, j \in DOMAIN rows : i < j => rows[i].ts <= rows[j].ts
  <2> HIDE DEF token
  <2> QED BY <1>4, TokenRows
<1>6. Len(rows) <= Second
  <2> HIDE DEF rows
  <2>1. Len(rows) \in Nat /\ Len(sent) \in Nat
    BY <1>4, <1>5
  <2> QED BY <1>3, <1>4, <1>5, <2>1, LoadsAssumption
<1> HIDE DEF rows
<1>7. InTurn(ticks) /\ \A r \in Range(rows) : r.asset = token => TickOf(ticks, r.size, r.ts)
  <2> HIDE DEF token
  <2> QED BY <1>5, <1>6, TokenTicks
<1> HIDE DEF ticks
<1>8. ASSUME ~load.partial, NEW n \in Due PROVE TickOf(ticks, Tape[n].size, Tape[n].ts)
  <2>1. n \in 1 .. load.before /\ Tape[n].ts >= Start /\ Time(n) <= End * Second + Second - 1 /\ Tape[n].asset = token
    BY <1>1, <1>8 DEF Due
  <2>2. load.before # None /\ Seen(0)
    BY <1>1, <1>8 DEF LoadInv
  <2>3. Before = load.before /\ n \in DOMAIN Tape /\ n > 0
    BY <1>3, <2>1, <2>2, TapeLength DEF Before
  <2>4. Tape[n].ts <= End
    <3> DEFINE a == Tape[n].ts
               w == Tape[n].within
    <3>1. a \in Int /\ w \in Nat /\ Time(n) = a * Second + w
      BY <2>3, TapeTyped DEF Time
    <3>2. Second - 1 \in 0 .. Second - 1 /\ Second \in Nat /\ End \in Int
      BY LoadsAssumption
    <3> HIDE DEF a, w
    <3>3. End < a => End * Second + (Second - 1) < a * Second + w
      BY <3>1, <3>2, SecondsApart
    <3>4. End * Second \in Int /\ a * Second \in Int
      BY <3>1, <3>2
    <3> QED BY <2>1, <3>1, <3>2, <3>3, <3>4 DEF a
  <2>5. InTime(n)
    BY <2>1, <2>3, <2>4, TapeTyped, LoadsAssumption DEF InTime, InWindow
  <2>6. PolymarketRow(n) \in Range(sent)
    BY <1>4, <2>1, <2>2, <2>3, <2>5 DEF Seen
  <2>7. /\ PolymarketRow(n).asset = Tape[n].asset /\ PolymarketRow(n).ts = Tape[n].ts
        /\ PolymarketRow(n).size = Tape[n].size
    BY DEF PolymarketRow
  <2>8. PolymarketRow(n) \in Range(rows)
    BY <1>5, <2>1, <2>5, <2>6, <2>7 DEF InTime
  <2> QED BY <1>7, <2>1, <2>7, <2>8
<1> QED BY <1>1, <1>2, <1>7, <1>8, ParsedGood

\* Kalshi compares times where the venue compares seconds.
LEMMA KalshiParsed ==
  ASSUME LoadInv, ParseKalshi
  PROVE  LoadInv'
<1> DEFINE list == load.rows
           index == load.index
           sent == [i \in DOMAIN list |-> KalshiRow(list[i], index)]
           rows == KalshiTrades(sent, Start * Second, End * Second, Second)
           ticks == ParseKalshiTrades(rows, Second)
<1>1. load.pc = "ticks" /\ market.venue = "KALSHI" /\ UNCHANGED market
  BY DEF ParseKalshi
<1>2. \E fields \in {[pc |-> "loaded", ticks |-> ticks], [pc |-> "failed", ticks |-> <<>>]} : To(fields)
  <2>1. CASE KalshiRowsValid(rows)
    <3>1. To([pc |-> "loaded", ticks |-> ticks])
      BY <2>1 DEF ParseKalshi
    <3> HIDE DEF ticks
    <3> QED BY <3>1
  <2>2. CASE ~KalshiRowsValid(rows)
    <3>1. To([pc |-> "failed", ticks |-> <<>>])
      BY <2>2 DEF ParseKalshi
    <3> HIDE DEF ticks
    <3> QED BY <3>1
  <2> QED BY <2>1, <2>2
<1>3. /\ load.rows \in Seq(DOMAIN Tape) /\ (load.before = None \/ load.before \in 0 .. Len(Tape))
      /\ \A i, j \in DOMAIN load.rows : i < j => load.rows[i] > load.rows[j]
  BY <1>1, TapeLength DEF LoadInv, LoadTyped, CursorSeen
<1>4. list \in Seq(DOMAIN Tape) /\ \A i, j \in DOMAIN list : list[i] = list[j] => i = j
  <2>1. Len(load.rows) \in Nat /\ DOMAIN load.rows = 1 .. Len(load.rows)
    BY <1>3
  <2>2. \A i \in DOMAIN load.rows : load.rows[i] \in Nat
    BY <1>3, TapeLength
  <2> QED BY <1>3, <2>1, <2>2
<1>5. PICK m : /\ KalshiList(rows, index, m)
               /\ \A n \in Range(list) : InWindow(Time(n), Start * Second, End * Second) => n \in Range(m)
  <2> HIDE DEF list, index
  <2> QED BY <1>3, <1>4, WindowRows
<1> HIDE DEF rows
<1>6. InTurn(ticks) /\ \A n \in Range(m) : TickOf(ticks, Tape[n].size, Tape[n].ts)
  BY <1>5, KalshiTicks
<1> HIDE DEF ticks
<1>7. ASSUME ~load.partial, NEW n \in Due PROVE TickOf(ticks, Tape[n].size, Tape[n].ts)
  <2>1. n \in 1 .. load.before /\ Tape[n].ts >= Start /\ Time(n) <= End * Second
    BY <1>1, <1>7 DEF Due
  <2>2. load.before # None /\ Seen(0)
    BY <1>1, <1>7 DEF LoadInv
  <2>3. Before = load.before /\ n \in DOMAIN Tape /\ n > 0
    BY <1>3, <2>1, <2>2, TapeLength DEF Before
  <2> DEFINE a == Tape[n].ts
             w == Tape[n].within
  <2>4. a \in Int /\ w \in 0 .. Second - 1 /\ w \in Nat /\ Time(n) = a * Second + w /\ a >= Start
    BY <2>1, <2>3, TapeTyped DEF Time
  <2>5. Second \in Nat /\ End \in Int /\ Start \in Int /\ 0 \in 0 .. Second - 1
    <3>1. Second \in Nat /\ End \in Int /\ Start \in Int
      BY LoadsAssumption
    <3> HIDE DEF a, w
    <3> QED BY <2>4, <3>1
  <2> HIDE DEF a, w
  <2>6. a * Second \in Int /\ End * Second \in Int /\ Start * Second \in Int
    BY <2>4, <2>5
  <2>7. a <= End
    <3>1. End < a => End * Second + 0 < a * Second + w
      BY <2>4, <2>5, SecondsApart
    <3> QED BY <2>1, <2>4, <2>5, <2>6, <3>1
  <2>8. Start * Second <= Time(n)
    <3>1. Start < a => Start * Second + 0 < a * Second + w
      BY <2>4, <2>5, SecondsApart
    <3>2. Start = a => Start * Second = a * Second
      OBVIOUS
    <3> QED BY <2>4, <2>5, <2>6, <3>1, <3>2
  <2>9. InTime(n) /\ InWindow(Time(n), Start * Second, End * Second)
    BY <2>1, <2>4, <2>7, <2>8 DEF InTime, InWindow, a
  <2>10. n \in Range(load.rows)
    BY <2>1, <2>2, <2>3, <2>9 DEF Seen
  <2> QED BY <1>5, <1>6, <2>9, <2>10
<1> QED BY <1>1, <1>2, <1>6, <1>7, ParsedGood

-----------------------------------------------------------------------------
(* The steps                                                               *)

\* A step that keeps the load fresh, or lets it fail.
LEMMA MetadataGood ==
  ASSUME LoadInv, UNCHANGED market, load.pc \in Early, NEW fields, To(fields),
         DOMAIN fields \in SUBSET {"pc", "gamma", "quote", "details", "clob", "instrument"}, "pc" \in DOMAIN fields,
         fields.pc \in Early \union {"pages", "failed"}
  PROVE  LoadInv'
<1>1. /\ DOMAIN load = LoadFields /\ load.partial \in BOOLEAN /\ market.printed \in 0 .. Len(Tape)
      /\ market.venue \in {"POLYMARKET", "KALSHI"} /\ Fresh
  BY DEF LoadInv, LoadTyped
<1>2. /\ DOMAIN load' = LoadFields
      /\ \A k \in LoadFields : load'[k] = IF k \in DOMAIN fields THEN fields[k] ELSE load[k]
  BY <1>1, LoadMoves
<1>3. /\ load'.pc = fields.pc /\ load'.before = load.before /\ load'.offset = load.offset /\ load'.cursor = load.cursor
      /\ load'.rows = load.rows /\ load'.partial = load.partial /\ load'.ticks = load.ticks
  BY <1>2 DEF LoadFields
<1>4. CASE fields.pc = "failed"
  <2>1. Failed'
    BY <1>1, <1>2, <1>3, <1>4 DEF Failed, Fresh, LoadInv, MarketTyped
  <2> QED BY <2>1, FailedGood, PTL
<1>5. CASE fields.pc # "failed"
  <2>1. Fresh' /\ load'.pc \in Early \union {"pages"}
    BY <1>1, <1>3, <1>5 DEF Fresh
  <2>2. BeforePages'
    BY <1>1, <1>2, <2>1 DEF BeforePages, Early, LoadInv, MarketTyped
  <2> QED BY <2>2, FreshGood, PTL
<1> QED BY <1>4, <1>5

\* A trade that happens moves the list; what has been seen stays seen.
LEMMA VenueGood ==
  ASSUME LoadInv, TradeHappens \/ Resolve
  PROVE  LoadInv'
<1> DEFINE p == market.printed
           q == market'.printed
<1>1. /\ UNCHANGED load /\ load.pc # "loaded" /\ market'.venue = market.venue /\ MarketTyped'
      /\ q \in {p, p + 1} /\ q \in 0 .. Len(Tape) /\ p \in 0 .. Len(Tape) /\ p <= q
  <2>1. {"venue", "printed"} \subseteq DOMAIN market /\ p \in 0 .. Len(Tape)
    BY DEF LoadInv, MarketTyped, LoadTyped
  <2>2. CASE TradeHappens
    <3>1. q = p + 1 /\ market'.venue = market.venue /\ DOMAIN market' = DOMAIN market /\ p < Len(Tape)
      BY <2>1, <2>2 DEF TradeHappens
    <3> HIDE DEF q, p
    <3>2. q \in 0 .. Len(Tape) /\ p <= q
      BY <2>1, <3>1, TapeLength
    <3> QED BY <2>1, <2>2, <3>1, <3>2 DEF TradeHappens, Loading, MarketTyped
  <2>3. CASE Resolve
    <3>1. \E phase : market' = [market EXCEPT !.phase = phase]
      BY <2>3 DEF Resolve
    <3>2. q = p /\ market'.venue = market.venue /\ DOMAIN market' = DOMAIN market
      BY <2>1, <3>1
    <3> HIDE DEF q
    <3>3. p <= q
      BY <2>1, <3>2, TapeLength
    <3> QED BY <2>1, <2>3, <3>2, <3>3 DEF Resolve, Loading, MarketTyped
  <2> QED BY <2>2, <2>3
<1>2. load' = load
  BY <1>1
<1>3. /\ LoadTyped /\ PlacesSeen /\ CursorSeen /\ TicksOrdered
      /\ load.pc = "ticks" /\ ~load.partial => load.before # None /\ Seen(0)
  BY DEF LoadInv
<1>4. load.before # None => Before' = Before
  BY <1>2 DEF Before
<1>5. LoadTyped'
  <2>1. load.before \in 0 .. p => load.before \in 0 .. q
    BY <1>1, TapeLength
  <2>2. Fresh' = Fresh
    BY <1>2 DEF Fresh
  <2> QED BY <1>1, <1>2, <1>3, <2>1, <2>2 DEF LoadTyped
<1>6. \A k : load.before # None /\ Seen(k) => Seen(k)'
  BY <1>2, <1>4 DEF Seen, InTime
<1>7. PlacesSeen'
  <2> SUFFICES ASSUME market'.venue = "POLYMARKET", load'.pc \in {"pages", "ticks"}
               PROVE  /\ load'.offset \in 0 .. q /\ load'.offset <= Ceiling + PageSize
                      /\ Len(load'.rows) <= load'.offset
                      /\ load'.pc = "pages" => Seen(market.printed - load.offset)'
    BY DEF PlacesSeen
  <2>1. /\ load.offset \in 0 .. p /\ load.offset <= Ceiling + PageSize /\ Len(load.rows) <= load.offset
        /\ load.pc = "pages" => Seen(p - load.offset)
    BY <1>1, <1>2, <1>3 DEF PlacesSeen
  <2>2. load.offset \in 0 .. q
    BY <1>1, <2>1, TapeLength
  <2>3. ASSUME load.pc = "pages", load.before = None PROVE Seen(market.printed - load.offset)'
    <3>1. Before' = q /\ load'.offset = 0
      BY <1>2, <1>3, <2>3 DEF Before, LoadTyped, Fresh
    <3>2. \A n \in 1 .. q : ~(n > q - 0)
      BY <1>1, TapeLength
    <3> QED BY <3>1, <3>2 DEF Seen
  <2>4. ASSUME load.pc = "pages", load.before # None PROVE Seen(market.printed - load.offset)'
    <3>1. load.before \in 0 .. p
      BY <1>3, <2>4 DEF LoadTyped
    <3>2. \A n \in 1 .. load.before : n > q - load.offset => n > p - load.offset
      BY <1>1, <2>1, <3>1, TapeLength
    <3>3. Before' = load.before /\ Before = load.before
      BY <1>2, <2>4 DEF Before
    <3> QED BY <1>2, <2>1, <2>4, <3>2, <3>3 DEF Seen, InTime
  <2> QED BY <1>2, <2>1, <2>2, <2>3, <2>4
<1>8. CursorSeen'
  <2>1. load.pc = "pages" /\ load.cursor # None => load.before # None
    BY <1>3 DEF LoadTyped, Fresh
  <2> QED BY <1>1, <1>2, <1>3, <1>6, <2>1 DEF CursorSeen
<1>9. (load.pc = "ticks" /\ ~load.partial => load.before # None /\ Seen(0))'
  BY <1>2, <1>3, <1>6
<1>10. TradesComplete' /\ TicksOrdered'
  BY <1>1, <1>2, <1>3 DEF TradesComplete, TicksOrdered
<1> QED BY <1>1, <1>5, <1>7, <1>8, <1>9, <1>10 DEF LoadInv

\* The ceiling of the venue leaves the load partial.
LEMMA CeilingGood ==
  ASSUME LoadInv, CeilingHit
  PROVE  LoadInv'
<1> DEFINE f == [pc |-> "ticks", partial |-> TRUE]
<1>1. load.pc = "pages" /\ market.venue = "POLYMARKET" /\ To(f) /\ UNCHANGED market
  BY DEF CeilingHit
<1>2. /\ DOMAIN load = LoadFields /\ LoadTyped /\ PlacesSeen /\ MarketTyped
  BY DEF LoadInv, LoadTyped
<1>3. /\ DOMAIN load' = LoadFields
      /\ \A k \in LoadFields : load'[k] = IF k \in DOMAIN f THEN f[k] ELSE load[k]
  <2> HIDE DEF f
  <2> QED BY <1>1, <1>2, LoadMoves
<1>4. /\ load'.pc = "ticks" /\ load'.partial = TRUE /\ load'.ticks = load.ticks /\ load'.rows = load.rows
      /\ load'.before = load.before /\ load'.offset = load.offset
  BY <1>3 DEF LoadFields
<1>5. LoadTyped'
  BY <1>1, <1>2, <1>3, <1>4 DEF LoadTyped, Early
<1>6. PlacesSeen' /\ CursorSeen' /\ MarketTyped'
  BY <1>1, <1>2, <1>4 DEF PlacesSeen, CursorSeen, MarketTyped
<1>7. TradesComplete' /\ TicksOrdered'
  <2>1. load'.ticks = <<>> /\ load'.pc # "loaded"
    BY <1>1, <1>2, <1>4 DEF LoadTyped
  <2> QED BY <2>1 DEF TradesComplete, TicksOrdered
<1> QED BY <1>4, <1>5, <1>6, <1>7 DEF LoadInv

\* A request that fails ends the load.
LEMMA RequestFailsGood ==
  ASSUME LoadInv, RequestFails
  PROVE  LoadInv'
<1> DEFINE f == [pc |-> "failed"]
<1>1. load.pc # "loaded" /\ To(f) /\ UNCHANGED market
  BY DEF RequestFails
<1>2. /\ DOMAIN load = LoadFields /\ load.ticks = <<>> /\ load.partial \in BOOLEAN /\ MarketTyped
      /\ market.venue \in {"POLYMARKET", "KALSHI"} /\ market.printed \in 0 .. Len(Tape)
  BY <1>1 DEF LoadInv, LoadTyped
<1>3. /\ DOMAIN load' = LoadFields
      /\ \A k \in LoadFields : load'[k] = IF k \in DOMAIN f THEN f[k] ELSE load[k]
  <2> HIDE DEF f
  <2> QED BY <1>1, <1>2, LoadMoves
<1>4. load'.pc = "failed" /\ load'.partial = load.partial /\ load'.ticks = load.ticks
  BY <1>3 DEF LoadFields
<1>5. Failed'
  BY <1>1, <1>2, <1>3, <1>4 DEF Failed, MarketTyped
<1> QED BY <1>5, FailedGood, PTL

\* The requests before the first page.
LEMMA MetadataKept ==
  ASSUME LoadInv, FetchMarket \/ FetchDetails \/ FetchFeeRate \/ FetchEventMarkets \/ FetchEvent
  PROVE  LoadInv'
<1> DEFINE Some == {"pc", "gamma", "quote", "details", "clob", "instrument"}
<1>1. load.pc \in Early /\ UNCHANGED market
  BY DEF FetchMarket, FetchDetails, FetchFeeRate, FetchEventMarkets, FetchEvent, Early
<1>2. CASE FetchMarket
  <2>1. CASE market.venue = "KALSHI"
    <3> DEFINE i == KalshiInstrument(KalshiMarket(market.phase, load.index), 0)
               f == [pc |-> "event", details |-> market.phase, instrument |-> i]
    <3>1. To(f)
      BY <1>2, <2>1 DEF FetchMarket
    <3> HIDE DEF i
    <3>2. DOMAIN f \in SUBSET Some /\ "pc" \in DOMAIN f /\ f.pc = "event"
      OBVIOUS
    <3> HIDE DEF f
    <3> QED BY <1>1, <3>1, <3>2, MetadataGood DEF Early
  <2>2. CASE market.venue # "KALSHI" /\ market.route = "event"
    <3> DEFINE f == [pc |-> "members"]
    <3>1. To(f)
      BY <1>2, <2>2 DEF FetchMarket
    <3>2. DOMAIN f \in SUBSET Some /\ "pc" \in DOMAIN f /\ f.pc = "members"
      OBVIOUS
    <3> HIDE DEF f
    <3> QED BY <1>1, <3>1, <3>2, MetadataGood DEF Early
  <2>3. CASE market.venue # "KALSHI" /\ market.route # "event"
    <3>0. PICK quote \in Quotes : To([pc |-> "details", gamma |-> market.phase, quote |-> quote])
      BY <1>2, <2>3 DEF FetchMarket
    <3> DEFINE f == [pc |-> "details", gamma |-> market.phase, quote |-> quote]
    <3>1. To(f)
      BY <3>0
    <3>2. DOMAIN f \in SUBSET Some /\ "pc" \in DOMAIN f /\ f.pc = "details"
      OBVIOUS
    <3> HIDE DEF f
    <3> QED BY <1>1, <3>1, <3>2, MetadataGood DEF Early
  <2> QED BY <2>1, <2>2, <2>3
<1>3. CASE FetchDetails
  <2>1. PICK details : \/ To([pc |-> "failed"])
                       \/ To([pc |-> "fee", details |-> market.phase, clob |-> <<details>>])
    BY <1>3 DEF FetchDetails
  <2>2. CASE To([pc |-> "failed"])
    <3> DEFINE f == [pc |-> "failed"]
    <3>1. DOMAIN f \in SUBSET Some /\ "pc" \in DOMAIN f /\ f.pc = "failed" /\ To(f)
      BY <2>2
    <3> HIDE DEF f
    <3> QED BY <1>1, <3>1, MetadataGood
  <2>3. CASE To([pc |-> "fee", details |-> market.phase, clob |-> <<details>>])
    <3> DEFINE f == [pc |-> "fee", details |-> market.phase, clob |-> <<details>>]
    <3>1. To(f)
      BY <2>3
    <3>2. DOMAIN f \in SUBSET Some /\ "pc" \in DOMAIN f /\ f.pc = "fee"
      OBVIOUS
    <3> HIDE DEF f
    <3> QED BY <1>1, <3>1, <3>2, MetadataGood DEF Early
  <2> QED BY <2>1, <2>2, <2>3
<1>4. CASE FetchFeeRate
  <2>1. PICK bps \in FeeRates :
          To([pc |-> "pages", clob |-> <<>>, instrument |-> Instrument(WithFeeRate(load.clob[1], bps), load.index)])
    BY <1>4 DEF FetchFeeRate
  <2> DEFINE i == Instrument(WithFeeRate(load.clob[1], bps), load.index)
             f == [pc |-> "pages", clob |-> <<>>, instrument |-> i]
  <2>2. To(f)
    BY <2>1
  <2> HIDE DEF i
  <2>3. DOMAIN f \in SUBSET Some /\ "pc" \in DOMAIN f /\ f.pc = "pages"
    OBVIOUS
  <2> HIDE DEF f
  <2> QED BY <1>1, <2>2, <2>3, MetadataGood
<1>5. CASE FetchEventMarkets
  <2>1. PICK loaders : To(IF loaders = <<>> THEN [pc |-> "failed"]
                          ELSE [pc |-> "pages", details |-> market.phase, instrument |-> Last(loaders)])
    BY <1>5 DEF FetchEventMarkets
  <2> DEFINE i == Last(loaders)
             f == IF loaders = <<>> THEN [pc |-> "failed"] ELSE [pc |-> "pages", details |-> market.phase, instrument |-> i]
  <2>2. To(f)
    BY <2>1
  <2> HIDE DEF i
  <2>3. DOMAIN f \in SUBSET Some /\ "pc" \in DOMAIN f /\ f.pc \in {"failed", "pages"}
    OBVIOUS
  <2> HIDE DEF f
  <2> QED BY <1>1, <2>2, <2>3, MetadataGood
<1>6. CASE FetchEvent
  <2> DEFINE f == [pc |-> "pages"]
  <2>1. DOMAIN f \in SUBSET Some /\ "pc" \in DOMAIN f /\ f.pc = "pages" /\ To(f)
    BY <1>6 DEF FetchEvent
  <2> HIDE DEF f
  <2> QED BY <1>1, <2>1, MetadataGood
<1> QED BY <1>2, <1>3, <1>4, <1>5, <1>6

\* Every step of a load
LEMMA LoadKept ==
  ASSUME LoadInv, LoadsNext
  PROVE  LoadInv'
BY VenueGood, MetadataKept, RequestFailsGood, PageSeen, CeilingGood, CursorPageSeen, PolymarketParsed, KalshiParsed
   DEF LoadsNext

\* An analysis goes on with the other side, from nothing.
LEMMA AnalysedGood ==
  ASSUME LoadInv, Analysed
  PROVE  LoadInv'
<1>1. UNCHANGED market /\ (load' = Load(load.index + 1) \/ UNCHANGED load)
  BY DEF Analysed
<1>2. CASE load' = Load(load.index + 1)
  <2>1. DOMAIN load' = LoadFields /\ load'.pc = "market" /\ Fresh'
    BY <1>2 DEF Load, LoadFields, Fresh
  <2>2. BeforePages'
    BY <1>1, <2>1 DEF BeforePages, Early, LoadInv, LoadTyped, MarketTyped
  <2> QED BY <2>2, FreshGood, PTL
<1>3. CASE UNCHANGED load
  BY <1>1, <1>3 DEF LoadInv, MarketTyped, LoadTyped, PlacesSeen, CursorSeen, TradesComplete, TicksOrdered, Fresh,
                    Seen, Before, Due, InTime
<1> QED BY <1>1, <1>2, <1>3

\* Every load of a replay or of an analysis, whatever the venue does meanwhile
LEMMA TradesInvariant == DataSpec => []TradesInv
<1>1. DataInit => TradesInv
  <2> SUFFICES ASSUME DataInit PROVE TradesInv
    OBVIOUS
  <2>1. CASE activity = "replay"
    <3>1. MarketInit /\ \E index \in DOMAIN Sides : load = Load(index)
      BY <2>1 DEF DataInit, ReplayInit
    <3> QED BY <2>1, <3>1, LoadBegins DEF TradesInv
  <2>2. CASE activity # "replay"
    BY <2>2 DEF DataInit, TradesInv
  <2> QED BY <2>1, <2>2
<1>2. TradesInv /\ [DataNext]_dataVars => TradesInv'
  <2> SUFFICES ASSUME TradesInv, [DataNext]_dataVars PROVE TradesInv'
    OBVIOUS
  <2>1. CASE activity = "replay" /\ activity' = activity /\ LoadsNext
    BY <2>1, LoadKept DEF TradesInv
  <2>2. CASE activity = "replay" /\ activity' = activity /\ Analysed
    BY <2>2, AnalysedGood DEF TradesInv
  <2>3. CASE UNCHANGED <<activity, market, load>>
    BY <2>3 DEF TradesInv, LoadInv, MarketTyped, LoadTyped, PlacesSeen, CursorSeen, TradesComplete, TicksOrdered,
                Fresh, Seen, Before, Due, InTime
  <2>4. CASE activity = "replay" /\ activity' = activity /\ ReplayNext
    <3>1. LoadsNext \/ Analysed \/ UNCHANGED loadVars
      BY <2>4 DEF ReplayNext, LoadStep, Pick, Begin, Order, NextTick, Settle
    <3> QED BY <2>1, <2>2, <2>3, <2>4, <3>1 DEF loadVars
  <2> QED BY <2>3, <2>4 DEF DataNext, dataVars
<1> QED BY <1>1, <1>2, PTL DEF DataSpec

\* A finished load has a tick for every trade of the side and the window that had happened when
\* its first page was asked for: for any trades, happening at any time between the requests, any
\* length of the pages and any ceiling of the venue.
THEOREM TradesWhole == DataSpec => []TradesComplete
<1>1. TradesInv => TradesComplete
  BY DEF TradesInv, LoadInv, TradesComplete
<1> QED BY <1>1, TradesInvariant, PTL

\* The ticks of a load have different times and different identifiers, and come by their times.
THEOREM TicksInOrder == DataSpec => []TicksOrdered
<1>1. TradesInv => TicksOrdered
  BY DEF TradesInv, LoadInv, TicksOrdered
<1> QED BY <1>1, TradesInvariant, PTL

\* A history that is replayed, of trades or of bars, lacks nothing.
THEOREM HistoryComplete == DataSpec => []HistoryWhole
BY TradesWhole, BarsComplete, PTL DEF HistoryWhole

-----------------------------------------------------------------------------
(* The settlement                                                          *)

Phases == {"open", "proposed", "resolved", "split"}

\* A market in one phase may later be in another.
Reaches(p, q) == p = q \/ p = "open" \/ (p = "proposed" /\ q \in {"resolved", "split"})

\* A fill of a replay
IsFill(f) ==
  /\ f.action \in {"buy", "sell"} /\ f.quantity = 1
  /\ f.price \in Int /\ f.commission \in Int

-----------------------------------------------------------------------------
(* Folds that go through a list                                            *)

\* One cell is its sum.
LEMMA OneCell ==
  ASSUME NEW cell \in Int
  PROVE  RealizedPnl(<<cell>>) = cell
<1> DEFINE Is(f) == f = [n \in 0 .. Len(<<cell>>) |-> IF n = 0 THEN 0 ELSE f[n - 1] + <<cell>>[n]]
           h == CHOOSE f : Is(f)
           g == [n \in 0 .. 1 |-> IF n = 0 THEN 0 ELSE cell]
<1>1. Len(<<cell>>) = 1 /\ <<cell>>[1] = cell
  OBVIOUS
<1>2. Is(g)
  <2>1. \A n \in 0 .. 1 : (IF n = 0 THEN 0 ELSE g[n - 1] + <<cell>>[n]) = IF n = 0 THEN 0 ELSE cell
    BY <1>1
  <2> QED BY <1>1, <2>1
<1>3. Is(h)
  <2> HIDE DEF Is, g
  <2> QED BY <1>2
<1>4. h[0] = 0 /\ h[1] = h[0] + cell
  <2> HIDE DEF h
  <2> QED BY <1>1, <1>3
<1>5. RealizedPnl(<<cell>>) = h[1]
  BY <1>1 DEF RealizedPnl
<1> QED BY <1>4, <1>5

Accounts == [cash : Int, open : Int]

\* The same of the accounts fills make.
LEMMA AccountStages ==
  ASSUME NEW start \in Accounts, NEW m \in Nat, NEW step \in [1 .. m -> [Accounts -> Accounts]]
  PROVE  \E f \in [0 .. m -> Accounts] : f[0] = start /\ \A n \in 1 .. m : f[n] = step[n][f[n - 1]]
BY FoldStages

\* The account after the first fills
Balances(f, fills, m) ==
  f = [n \in 0 .. m |-> IF n = 0 THEN [cash |-> 0, open |-> 0] ELSE Settled(f[n - 1], fills[n])]

\* A fill of one contract changes the account by what it pays and its commission.
LEMMA SettledTyped ==
  ASSUME NEW state \in Accounts, NEW fill, IsFill(fill)
  PROVE  /\ Settled(state, fill) \in Accounts
         /\ fill.action = "buy" =>
              Settled(state, fill) = [cash |-> state.cash - fill.price - fill.commission, open |-> state.open + 1]
         /\ fill.action = "sell" =>
              Settled(state, fill) = [cash |-> state.cash + fill.price - fill.commission, open |-> state.open - 1]
<1>1. fill.quantity = 1 /\ fill.price \in Int /\ fill.commission \in Int /\ fill.action \in {"buy", "sell"}
  BY DEF IsFill
<1>2. fill.price * fill.quantity = fill.price /\ ~(fill.quantity <= 0) /\ fill.quantity > 0
  BY <1>1
<1>3. state.cash \in Int /\ state.open \in Int
  BY DEF Accounts
<1>4. CASE fill.action = "buy"
  BY <1>1, <1>2, <1>3, <1>4 DEF Settled, Accounts
<1>5. CASE fill.action = "sell"
  BY <1>1, <1>2, <1>3, <1>5 DEF Settled, Accounts
<1> QED BY <1>1, <1>4, <1>5

\* What BinarySettlementPnl is read off.
LEMMA BalanceStages ==
  ASSUME NEW T, NEW fills \in Seq(T), \A f \in T : IsFill(f)
  PROVE  \E f : /\ Balances(f, fills, Len(fills)) /\ f \in [0 .. Len(fills) -> Accounts]
                /\ \A outcome : BinarySettlementPnl(fills, outcome) = f[Len(fills)].cash + outcome * f[Len(fills)].open
<1> DEFINE m == Len(fills)
           start == [cash |-> 0, open |-> 0]
           step == [n \in 1 .. m |-> [a \in Accounts |-> Settled(a, fills[n])]]
<1>1. m \in Nat /\ \A n \in 1 .. m : IsFill(fills[n])
  OBVIOUS
<1>2. start \in Accounts
  BY DEF Accounts
<1>3. step \in [1 .. m -> [Accounts -> Accounts]]
  BY <1>1, SettledTyped
<1>4. \A n \in 1 .. m, a \in Accounts : step[n][a] = Settled(a, fills[n])
  OBVIOUS
<1> HIDE DEF step
<1>5. PICK g \in [0 .. m -> Accounts] : g[0] = start /\ \A n \in 1 .. m : g[n] = step[n][g[n - 1]]
  <2> HIDE DEF start, m
  <2> QED BY <1>1, <1>2, <1>3, AccountStages
<1>6. \A n \in 0 .. m : g[n] = IF n = 0 THEN start ELSE Settled(g[n - 1], fills[n])
  <2> TAKE n \in 0 .. m
  <2>1. n # 0 => n \in 1 .. m /\ g[n - 1] \in Accounts
    BY <1>1
  <2> QED BY <1>4, <1>5, <2>1
<1>7. Balances(g, fills, m)
  BY <1>5, <1>6 DEF Balances
<1> DEFINE h == CHOOSE f : Balances(f, fills, m)
<1>8. Balances(h, fills, m)
  BY <1>7
<1>9. \A outcome : BinarySettlementPnl(fills, outcome) = h[m].cash + outcome * h[m].open
  BY DEF BinarySettlementPnl, Balances
<1> HIDE DEF h
<1>10. \A n \in 0 .. m : h[n] = IF n = 0 THEN start ELSE Settled(h[n - 1], fills[n])
  BY <1>8 DEF Balances
<1>11. \A n \in 0 .. m : h[n] \in Accounts
  <2> DEFINE Good == {n \in 0 .. m : h[n] \in Accounts}
  <2>1. 0 \in Good
    BY <1>1, <1>2, <1>10
  <2>2. \A n \in 1 .. m : n - 1 \in Good => n \in Good
    BY <1>1, <1>10, SettledTyped
  <2>3. \A n \in 0 .. m : n \in Good
    <3> HIDE DEF Good, m
    <3> QED BY <1>1, <2>1, <2>2, UpTo
  <2> QED BY <2>3
<1>12. h \in [0 .. m -> Accounts]
  BY <1>8, <1>11 DEF Balances
<1> QED BY <1>8, <1>9, <1>12

\* No fills settle at nothing.
LEMMA NoFills ==
  ASSUME NEW outcome \in Int
  PROVE  BinarySettlementPnl(<<>>, outcome) = 0
<1>1. <<>> \in Seq({}) /\ Len(<<>>) = 0 /\ \A f \in {} : IsFill(f)
  OBVIOUS
<1> DEFINE none == <<>>
<1> HIDE DEF none
<1>a. none \in Seq({})
  BY <1>1 DEF none
<1>b. PICK f : /\ Balances(f, none, Len(none)) /\ f \in [0 .. Len(none) -> Accounts]
               /\ \A o : BinarySettlementPnl(none, o) = f[Len(none)].cash + o * f[Len(none)].open
  BY <1>1, <1>a, BalanceStages
<1>2. /\ Balances(f, <<>>, Len(<<>>)) /\ f \in [0 .. Len(<<>>) -> Accounts]
      /\ BinarySettlementPnl(<<>>, outcome) = f[Len(<<>>)].cash + outcome * f[Len(<<>>)].open
  BY <1>b DEF none
<1>3. f[0] = [cash |-> 0, open |-> 0]
  BY <1>1, <1>2 DEF Balances
<1> QED BY <1>1, <1>2, <1>3

\* Products by a neighbour
LEMMA OneMoreTimes == \A x, y \in Int : x * (y + 1) = x * y + x /\ x * (y - 1) = x * y - x /\ x * y \in Int
OBVIOUS

\* What settles alike before a fill settles alike after it.
LEMMA SettlesAlike ==
  \A c, d, p, k, x, y, o \in Int :
    c + x = d + y => /\ (c - p - k) + (x + o) = d - p - k + (y + o)
                     /\ (c + p - k) + (x - o) = d + p - k + (y - o)
OBVIOUS

FillList(fills) == \E T : fills \in Seq(T) /\ \A f \in T : IsFill(f)

\* At any price the fills settle at this cash and that price of this position.
SettlesAt(fills, cash, position) ==
  \A outcome \in Int : BinarySettlementPnl(fills, outcome) = cash + outcome * position

\* One more fill settles at what it pays and at what it leaves open.
LEMMA OneMoreFill ==
  ASSUME NEW T, NEW fills \in Seq(T), \A f \in T : IsFill(f), NEW fill \in T,
         NEW cash \in Int, NEW position \in Int, SettlesAt(fills, cash, position)
  PROVE  /\ fill.action = "buy" => SettlesAt(Append(fills, fill), cash - fill.price - fill.commission, position + 1)
         /\ fill.action = "sell" => SettlesAt(Append(fills, fill), cash + fill.price - fill.commission, position - 1)
<1> DEFINE more == Append(fills, fill)
           m == Len(fills)
<1>1. /\ more \in Seq(T) /\ Len(more) = m + 1 /\ m \in Nat /\ more[m + 1] = fill
      /\ \A n \in 1 .. m : more[n] = fills[n]
  OBVIOUS
<1> HIDE DEF more
<1>2. PICK f : /\ Balances(f, fills, m) /\ f \in [0 .. m -> Accounts]
               /\ \A outcome : BinarySettlementPnl(fills, outcome) = f[m].cash + outcome * f[m].open
  BY BalanceStages
<1>3. PICK g : /\ Balances(g, more, m + 1) /\ g \in [0 .. m + 1 -> Accounts]
               /\ \A outcome : BinarySettlementPnl(more, outcome) = g[m + 1].cash + outcome * g[m + 1].open
  <2>1. PICK g : /\ Balances(g, more, Len(more)) /\ g \in [0 .. Len(more) -> Accounts]
                 /\ \A outcome : BinarySettlementPnl(more, outcome) = g[Len(more)].cash + outcome * g[Len(more)].open
    <3> HIDE DEF m
    <3> QED BY <1>1, BalanceStages
  <2> HIDE DEF m
  <2> QED BY <1>1, <2>1
<1> HIDE DEF m
<1>4. \A n \in 0 .. m : f[n] = IF n = 0 THEN [cash |-> 0, open |-> 0] ELSE Settled(f[n - 1], fills[n])
  BY <1>2 DEF Balances
<1>5. \A n \in 0 .. m + 1 : g[n] = IF n = 0 THEN [cash |-> 0, open |-> 0] ELSE Settled(g[n - 1], more[n])
  BY <1>3 DEF Balances
<1>6. \A n \in 0 .. m : f[n] = g[n]
  <2> DEFINE Good == {n \in 0 .. m : f[n] = g[n]}
  <2>1. 0 \in Good
    BY <1>1, <1>4, <1>5
  <2>2. ASSUME NEW n \in 1 .. m, n - 1 \in Good PROVE n \in Good
    <3>0. f[n - 1] = g[n - 1]
      BY <2>2
    <3>a. m \in Nat /\ more[n] = fills[n]
      BY <1>1
    <3>1. n \in 0 .. m /\ n \in 0 .. m + 1 /\ n # 0
      BY <3>a
    <3>2. f[n] = Settled(f[n - 1], fills[n]) /\ g[n] = Settled(g[n - 1], more[n])
      BY <1>4, <1>5, <3>1
    <3> QED BY <3>0, <3>a, <3>2
  <2>3. \A n \in 0 .. m : n \in Good
    <3> HIDE DEF Good
    <3> QED BY <1>1, <2>1, <2>2, UpTo
  <2> QED BY <2>3
<1> DEFINE a == f[m]
<1>7. a \in Accounts /\ g[m + 1] = Settled(a, fill) /\ \A outcome \in Int : a.cash + outcome * a.open = cash + outcome * position
  <2>1. m \in 0 .. m /\ m + 1 \in 0 .. m + 1 /\ m + 1 # 0 /\ (m + 1) - 1 = m
    BY <1>1
  <2>2. g[m + 1] = Settled(g[m], fill)
    BY <1>1, <1>5, <2>1
  <2> QED BY <1>2, <1>6, <2>1, <2>2 DEF SettlesAt
<1> HIDE DEF a
<1>8. a.cash \in Int /\ a.open \in Int /\ IsFill(fill)
  BY <1>7 DEF Accounts
<1> SUFFICES ASSUME NEW outcome \in Int
             PROVE  /\ fill.action = "buy" => BinarySettlementPnl(more, outcome) =
                                                cash - fill.price - fill.commission + outcome * (position + 1)
                    /\ fill.action = "sell" => BinarySettlementPnl(more, outcome) =
                                                 cash + fill.price - fill.commission + outcome * (position - 1)
  BY DEF SettlesAt, more
<1>9. a.cash + outcome * a.open = cash + outcome * position
  BY <1>7
<1>a. fill.price \in Int /\ fill.commission \in Int /\ fill.action \in {"buy", "sell"}
  BY <1>8 DEF IsFill
<1>10. CASE fill.action = "buy"
  <2>1. Settled(a, fill) = [cash |-> a.cash - fill.price - fill.commission, open |-> a.open + 1]
    BY <1>7, <1>8, <1>10, SettledTyped
  <2>2. BinarySettlementPnl(more, outcome) = (a.cash - fill.price - fill.commission) + outcome * (a.open + 1)
    BY <1>3, <1>7, <2>1
  <2>3. /\ outcome * (a.open + 1) = outcome * a.open + outcome /\ outcome * a.open \in Int
        /\ outcome * (position + 1) = outcome * position + outcome /\ outcome * position \in Int
    BY <1>8, OneMoreTimes
  <2>4. (a.cash - fill.price - fill.commission) + outcome * (a.open + 1) =
          cash - fill.price - fill.commission + outcome * (position + 1)
    <3> DEFINE c == a.cash
               p == fill.price
               k == fill.commission
               x == outcome * a.open
               y == outcome * position
    <3>1. c \in Int /\ p \in Int /\ k \in Int /\ x \in Int /\ y \in Int /\ c + x = cash + y
      BY <1>8, <1>9, <1>a, <2>3
    <3> HIDE DEF c, p, k, x, y
    <3>2. (c - p - k) + (x + outcome) = cash - p - k + (y + outcome)
      BY <3>1, SettlesAlike
    <3> QED BY <2>3, <3>2 DEF c, p, k, x, y
  <2> QED BY <1>10, <2>2, <2>4
<1>11. CASE fill.action = "sell"
  <2>1. Settled(a, fill) = [cash |-> a.cash + fill.price - fill.commission, open |-> a.open - 1]
    BY <1>7, <1>8, <1>11, SettledTyped
  <2>2. BinarySettlementPnl(more, outcome) = (a.cash + fill.price - fill.commission) + outcome * (a.open - 1)
    BY <1>3, <1>7, <2>1
  <2>3. /\ outcome * (a.open - 1) = outcome * a.open - outcome /\ outcome * a.open \in Int
        /\ outcome * (position - 1) = outcome * position - outcome /\ outcome * position \in Int
    BY <1>8, OneMoreTimes
  <2>4. (a.cash + fill.price - fill.commission) + outcome * (a.open - 1) =
          cash + fill.price - fill.commission + outcome * (position - 1)
    <3> DEFINE c == a.cash
               p == fill.price
               k == fill.commission
               x == outcome * a.open
               y == outcome * position
    <3>1. c \in Int /\ p \in Int /\ k \in Int /\ x \in Int /\ y \in Int /\ c + x = cash + y
      BY <1>8, <1>9, <1>a, <2>3
    <3> HIDE DEF c, p, k, x, y
    <3>2. (c + p - k) + (x - outcome) = cash + p - k + (y - outcome)
      BY <3>1, SettlesAlike
    <3> QED BY <2>3, <3>2 DEF c, p, k, x, y
  <2> QED BY <1>11, <2>2, <2>4
<1> QED BY <1>10, <1>11

-----------------------------------------------------------------------------
(* What a fill pays                                                        *)

\* Integers are closed under these.
LEMMA Products == \A x, y \in Int : x * y \in Int /\ x + y \in Int /\ x - y \in Int
OBVIOUS

\* And under division by a positive one.
LEMMA Quotients == \A x \in Int, y \in Nat \ {0} : x \div y \in Int
OBVIOUS

\* A commission is a number.
LEMMA FeeTyped ==
  ASSUME NEW instrument, instrument.taker_fee \in Int, NEW price \in Int
  PROVE  Commission(instrument, ModelRate, 1, price) \in Int
<1>1. ModelRate \in Int
  BY ReplayAssumption
<1>2. \A rate \in Int : Earnings(1, price, rate) \in Int
  <2> TAKE rate \in Int
  <2>1. rate * 1 * price \in Int /\ 100 - price \in Int
    BY Products
  <2> QED BY <2>1, Products DEF Earnings
<1>3. KalshiFeeRate(instrument, ModelRate) \in Int
  BY <1>1 DEF KalshiFeeRate
<1>4. \A rate \in Int : KalshiCommission(1, price, rate) \in Int
  BY <1>2, Quotients DEF KalshiCommission, CeilDiv
<1>5. \A x \in Int : RoundDiv(x, 1000) \in Int
  BY Quotients DEF RoundDiv
<1>6. PolymarketCommission(1, price, instrument.taker_fee) \in Int
  BY <1>2, <1>5 DEF PolymarketCommission
<1> QED BY <1>3, <1>4, <1>5, <1>6 DEF Commission

\* What a fill pays is a number, whatever the model.
LEMMA PaidTyped ==
  ASSUME NEW model \in FillModels, NEW instrument, instrument.tick = 1, NEW order, NEW price \in Int,
         order.price = price, order.type \in {"market", "limit"}
  PROVE  FillPrice(model, instrument, order, price, price) \in Int
<1>1. IF model.model = "taker" THEN model.ticks \in Int /\ model.entry \in Int /\ model.exit \in Int
      ELSE model.median \in Int
  BY ReplayAssumption
<1>2. \A side : Shift(model, instrument, side, price) \in Int
  <2> TAKE side
  <2>1. CASE model.model = "taker"
    <3>1. SlippageTick(instrument) = 1
      BY DEF SlippageTick
    <3>2. \A x \in Int : RoundDiv(price * x, 100) \in Int
      BY Products, Quotients DEF RoundDiv
    <3>3. \E pct \in {model.entry, model.exit} :
            Shift(model, instrument, side, price) = model.ticks * 1 + RoundDiv(price * pct, 100)
      BY <2>1, <3>1 DEF Shift
    <3>4. PICK pct \in {model.entry, model.exit} :
            Shift(model, instrument, side, price) = model.ticks * 1 + RoundDiv(price * pct, 100)
      BY <3>3
    <3>5. pct \in Int /\ model.ticks * 1 \in Int
      BY <1>1, <2>1, Products
    <3>6. RoundDiv(price * pct, 100) \in Int
      BY <3>2, <3>5
    <3> QED BY <3>4, <3>5, <3>6, Products
  <2>2. CASE model.model # "taker"
    BY <1>1, <2>2, Quotients DEF Shift
  <2> QED BY <2>1, <2>2
<1>3. \A side : /\ SimulatedBook(model, instrument, side, price, price).ask \in Int
                /\ SimulatedBook(model, instrument, side, price, price).bid \in Int
  BY <1>2 DEF SimulatedBook, Least, Most
<1> QED BY <1>3 DEF FillPrice

-----------------------------------------------------------------------------
(* What the venues tell                                                    *)

MarketTold ==
  /\ market.winner \in {"yes", "no"} /\ market.reversed \in BOOLEAN

\* Details of two outcomes, with the winner if the market was known as resolved.
Tells(d, resolved, even) ==
  /\ d.tokens = <<d.tokens[1], d.tokens[2]>>
  /\ d.tokens[1].outcome \in {"yes", "no"} /\ d.tokens[2].outcome \in {"yes", "no"}
  /\ d.tokens[1].outcome # d.tokens[2].outcome
  /\ d.taker_base_fee \in Int
  /\ resolved => \A i \in {1, 2} : d.tokens[i].winner <=> market.winner = d.tokens[i].outcome
  /\ resolved /\ ~even => ~d.is_50_50_outcome
  /\ even => d.is_50_50_outcome

\* The CLOB
LEMMA ClobTells ==
  ASSUME MarketTold, NEW p
  PROVE  Tells(ClobDetails(p), p = "resolved", p = "split")
<1> DEFINE token(i) == [token_id |-> i, outcome |-> Sides[i], winner |-> p = "resolved" /\ market.winner = Sides[i]]
           d == ClobDetails(p)
<1>1. /\ d.tokens = IF market.reversed THEN <<token(2), token(1)>> ELSE <<token(1), token(2)>>
      /\ d.taker_base_fee = 0 /\ (d.is_50_50_outcome <=> p = "split")
  BY DEF ClobDetails
<1>2. token(1).outcome = "yes" /\ token(2).outcome = "no"
  BY DEF Sides
<1>3. /\ token(1).winner <=> p = "resolved" /\ market.winner = token(1).outcome
      /\ token(2).winner <=> p = "resolved" /\ market.winner = token(2).outcome
  OBVIOUS
<1> HIDE DEF token, d
<1>4. /\ d.tokens = <<d.tokens[1], d.tokens[2]>>
      /\ d.tokens[1] \in {token(1), token(2)} /\ d.tokens[2] \in {token(1), token(2)} /\ d.tokens[1] # d.tokens[2]
  BY <1>1, <1>2 DEF MarketTold
<1>5. \A i \in {1, 2} : /\ d.tokens[i].outcome \in {"yes", "no"}
                        /\ d.tokens[i].winner <=> p = "resolved" /\ market.winner = d.tokens[i].outcome
  BY <1>2, <1>3, <1>4
<1>6. d.tokens[1].outcome # d.tokens[2].outcome
  BY <1>2, <1>4
<1>7. p = "resolved" => p # "split"
  OBVIOUS
<1> QED BY <1>1, <1>4, <1>5, <1>6, <1>7 DEF Tells, d

\* The greater of two prices
LEMMA WinnerOfTwo == WinnerIndex(<<100, 0>>) = 1 /\ WinnerIndex(<<0, 100>>) = 2
<1> DEFINE Foremost(prices, i) ==
             LET s == [k \in DOMAIN prices |-> k]
             IN  /\ i \in DOMAIN s
                 /\ \A j \in DOMAIN s : ~(prices[s[j]] > prices[s[i]]) /\ (j < i => prices[s[i]] > prices[s[j]])
<1>1. \A prices : WinnerIndex(prices) = [k \in DOMAIN prices |-> k][CHOOSE i : Foremost(prices, i)]
  BY DEF WinnerIndex, FirstLeast
<1>2. DOMAIN <<100, 0>> = {1, 2} /\ DOMAIN <<0, 100>> = {1, 2}
  OBVIOUS
<1>a. \A prices, i : Foremost(prices, i) <=>
        /\ i \in DOMAIN prices
        /\ \A j \in DOMAIN prices : ~(prices[j] > prices[i]) /\ (j < i => prices[i] > prices[j])
  OBVIOUS
<1> HIDE DEF Foremost
<1>b. <<100, 0>>[1] = 100 /\ <<100, 0>>[2] = 0 /\ <<0, 100>>[1] = 0 /\ <<0, 100>>[2] = 100
  OBVIOUS
<1>3. \A i : Foremost(<<100, 0>>, i) <=> i = 1
  <2> DEFINE s == <<100, 0>>
  <2> HIDE DEF s
  <2>1. \A i : Foremost(s, i) <=> i \in {1, 2} /\ \A j \in {1, 2} : ~(s[j] > s[i]) /\ (j < i => s[i] > s[j])
    BY <1>a, <1>2 DEF s
  <2>2. s[1] = 100 /\ s[2] = 0
    BY <1>b DEF s
  <2>3. \A i : Foremost(s, i) <=> i = 1
    BY <2>1, <2>2
  <2> QED BY <2>3 DEF s
<1>4. \A i : Foremost(<<0, 100>>, i) <=> i = 2
  <2> DEFINE s == <<0, 100>>
  <2> HIDE DEF s
  <2>1. \A i : Foremost(s, i) <=> i \in {1, 2} /\ \A j \in {1, 2} : ~(s[j] > s[i]) /\ (j < i => s[i] > s[j])
    BY <1>a, <1>2 DEF s
  <2>2. s[1] = 0 /\ s[2] = 100
    BY <1>b DEF s
  <2>3. \A i : Foremost(s, i) <=> i = 2
    BY <2>1, <2>2
  <2> QED BY <2>3 DEF s
<1>5. (CHOOSE i : Foremost(<<100, 0>>, i)) = 1 /\ (CHOOSE i : Foremost(<<0, 100>>, i)) = 2
  BY <1>3, <1>4
<1> QED BY <1>1, <1>2, <1>5

\* A dictionary of the two sides
LEMMA DictOfSides ==
  ASSUME NEW values
  PROVE  DOMAIN DictOf(Sides, values) = {"yes", "no"} /\ DictOf(Sides, values)["yes"] = values[1]
         /\ DictOf(Sides, values)["no"] = values[2]
<1> DEFINE Is(k, i) == i \in DOMAIN Sides /\ Sides[i] = k /\ \A j \in DOMAIN Sides : Sides[j] = k => j <= i
<1>1. DOMAIN Sides = {1, 2} /\ Sides[1] = "yes" /\ Sides[2] = "no"
  BY DEF Sides
<1>2. DictOf(Sides, values) = [k \in {Sides[i] : i \in DOMAIN Sides} |-> values[CHOOSE i : Is(k, i)]]
  BY DEF DictOf
<1>3. {Sides[i] : i \in DOMAIN Sides} = {"yes", "no"}
  BY <1>1
<1>4. \A i : (Is("yes", i) <=> i = 1) /\ (Is("no", i) <=> i = 2)
  BY <1>1
<1> HIDE DEF Is
<1>5. (CHOOSE i : Is("yes", i)) = 1 /\ (CHOOSE i : Is("no", i)) = 2
  BY <1>4
<1> QED BY <1>2, <1>3, <1>5

\* An empty dictionary tells nothing.
LEMMA NoneTold == \A k, default : Get(NoWinners, k, default) = default
<1>1. DOMAIN NoWinners = {}
  BY DEF NoWinners, DictOf
<1> QED BY <1>1 DEF Get

\* What Gamma shows is even.
Even(p, quote) == p = "split" \/ (p \in {"open", "proposed"} /\ quote = 50)

\* Gamma
LEMMA GammaTells ==
  ASSUME MarketTold, NEW p \in Phases, NEW quote \in 0 .. 100
  PROVE  LET told == InferTokenWinners(GammaMarket(p, quote))
         IN  /\ told.split <=> Even(p, quote)
             /\ p # "resolved" => told.lookup = NoWinners
             /\ p = "resolved" => /\ DOMAIN told.lookup = {"yes", "no"}
                                  /\ \A k \in {"yes", "no"} : told.lookup[k] <=> k = market.winner
<1> DEFINE g == GammaMarket(p, quote)
           told == InferTokenWinners(g)
<1>1. /\ g.outcomes = Sides /\ Sides # <<>>
      /\ p \in {"open", "proposed"} => g.outcomePrices = <<quote, 100 - quote>>
      /\ p = "open" => g.closed = "false" /\ g.archived = "none" /\ g.closedTime = None
      /\ p = "proposed" => g.umaResolutionStatus = "proposed"
      /\ p = "split" => g.outcomePrices = <<50, 50>>
      /\ p = "resolved" => /\ g.closed = "true" /\ g.umaResolutionStatus = "resolved"
                           /\ g.outcomePrices = IF market.winner = "yes" THEN <<100, 0>> ELSE <<0, 100>>
  BY DEF GammaMarket, Sides
<1> HIDE DEF g
<1>2. Prices(g) = g.outcomePrices /\ Len(g.outcomePrices) = 2
  <2>1. \E x, y \in 0 .. 100 : g.outcomePrices = <<x, y>>
    <3>1. CASE p \in {"open", "proposed"}
      <4>1. 100 - quote \in 0 .. 100 /\ quote \in 0 .. 100
        OBVIOUS
      <4> QED BY <1>1, <3>1, <4>1
    <3>2. CASE p \in {"split", "resolved"}
      <4>1. 0 \in 0 .. 100 /\ 50 \in 0 .. 100 /\ 100 \in 0 .. 100
        OBVIOUS
      <4> QED BY <1>1, <3>2, <4>1
    <3> QED BY <3>1, <3>2 DEF Phases
  <2>2. ASSUME NEW x \in 0 .. 100, NEW y \in 0 .. 100
        PROVE  Len(<<x, y>>) = 2 /\ [i \in DOMAIN <<x, y>> |-> IF <<x, y>>[i] = None THEN 0 ELSE <<x, y>>[i]] = <<x, y>>
    BY DEF None
  <2>3. PICK x \in 0 .. 100, y \in 0 .. 100 : g.outcomePrices = <<x, y>>
    BY <2>1
  <2>4. Prices(g) = [i \in DOMAIN <<x, y>> |-> IF <<x, y>>[i] = None THEN 0 ELSE <<x, y>>[i]]
    BY <2>3 DEF Prices
  <2> QED BY <2>2, <2>3, <2>4
<1>3. CASE p \in {"open", "proposed"}
  <2>0. Prices(g) = <<quote, 100 - quote>>
    BY <1>1, <1>2, <1>3
  <2>1. Prices(g) # <<>> /\ ((\A i \in DOMAIN Prices(g) : Prices(g)[i] = 50) <=> quote = 50)
    <3>1. \A x, y : <<x, y>> # <<>> /\ DOMAIN <<x, y>> = {1, 2} /\ <<x, y>>[1] = x /\ <<x, y>>[2] = y
      OBVIOUS
    <3>2. quote = 50 => 100 - quote = 50
      OBVIOUS
    <3> QED BY <2>0, <3>1, <3>2
  <2>2. ~AllowsPriceWinnerInference(g)
    BY <1>1, <1>3 DEF AllowsPriceWinnerInference, Truthy
  <2>4. told.lookup = NoWinners /\ (told.split <=> quote = 50)
    <3>1. CASE quote = 50
      <4>1. told = [lookup |-> NoWinners, split |-> TRUE]
        BY <1>1, <2>1, <3>1 DEF InferTokenWinners
      <4> QED BY <3>1, <4>1
    <3>2. CASE quote # 50
      <4>1. told = [lookup |-> NoWinners, split |-> FALSE]
        BY <1>1, <2>1, <2>2, <3>2 DEF InferTokenWinners
      <4> QED BY <3>2, <4>1
    <3> QED BY <3>1, <3>2
  <2> HIDE DEF told
  <2> QED BY <1>3, <2>4 DEF g, told, Even
<1>4. CASE p = "split"
  <2>1. Prices(g) # <<>> /\ \A i \in DOMAIN Prices(g) : Prices(g)[i] = 50
    <3>1. <<50, 50>> # <<>> /\ \A i \in DOMAIN <<50, 50>> : <<50, 50>>[i] = 50
      OBVIOUS
    <3>2. Prices(g) = <<50, 50>>
      BY <1>1, <1>2, <1>4
    <3> QED BY <3>1, <3>2
  <2>2. told = [lookup |-> NoWinners, split |-> TRUE]
    BY <1>1, <2>1 DEF InferTokenWinners
  <2> QED BY <1>4, <2>2 DEF g, Even
<1>5. CASE p = "resolved"
  <2> DEFINE w == WinnerIndex(Prices(g))
             flags == [i \in DOMAIN Sides |-> i = w]
  <2>1. Prices(g) # <<>> /\ ~\A i \in DOMAIN Prices(g) : Prices(g)[i] = 50
    BY <1>1, <1>2, <1>5
  <2>2. /\ market.winner = "yes" => w = 1 /\ Prices(g)[w] = 100
        /\ market.winner = "no" => w = 2 /\ Prices(g)[w] = 100
    BY <1>1, <1>2, <1>5, WinnerOfTwo
  <2>3. AllowsPriceWinnerInference(g) /\ ~(Prices(g)[w] < 99)
    <3>1. Prices(g)[w] = 100
      BY <2>2 DEF MarketTold
    <3>2. AllowsPriceWinnerInference(g)
      BY <1>1, <1>5 DEF AllowsPriceWinnerInference, Truthy
    <3> HIDE DEF w
    <3> QED BY <3>1, <3>2
  <2> HIDE DEF w
  <2>4. told = [lookup |-> DictOf(Sides, flags), split |-> FALSE]
    BY <1>1, <2>1, <2>3 DEF InferTokenWinners, w
  <2>5. (flags[1] <=> 1 = w) /\ (flags[2] <=> 2 = w)
    <3>1. DOMAIN Sides = {1, 2}
      BY DEF Sides
    <3>2. 1 \in DOMAIN Sides /\ 2 \in DOMAIN Sides
      BY <3>1
    <3> QED BY <3>2, Zenon
  <2> HIDE DEF flags
  <2>6. told.lookup = DictOf(Sides, flags) /\ ~told.split
    BY <2>4
  <2> QED BY <1>5, <2>2, <2>5, <2>6, DictOfSides DEF g, MarketTold, Even
<1> QED BY <1>3, <1>4, <1>5 DEF Phases

\* The winner of Gamma's prices replaces the one of the details, whatever the order of the
\* outcomes; Gamma was asked before the CLOB was.
LEMMA BothTell ==
  ASSUME MarketTold, NEW p \in Phases, NEW g \in Phases, Reaches(g, p), NEW quote \in 0 .. 100
  PROVE  Tells(MarketDetails(ClobDetails(p), GammaMarket(g, quote)), "resolved" \in {g, p},
               p = "split" \/ Even(g, quote))
<1> DEFINE c == ClobDetails(p)
           told == InferTokenWinners(GammaMarket(g, quote))
           ts == TokensWithWinners(c.tokens, GammaMarket(g, quote))
           d == MarketDetails(c, GammaMarket(g, quote))
<1>1. Tells(c, p = "resolved", p = "split")
  BY ClobTells
<1>2. /\ told.split <=> Even(g, quote)
      /\ g # "resolved" => told.lookup = NoWinners
      /\ g = "resolved" => /\ DOMAIN told.lookup = {"yes", "no"}
                           /\ \A k \in {"yes", "no"} : told.lookup[k] <=> k = market.winner
  BY GammaTells
<1>c. c.is_50_50_outcome <=> p = "split"
  BY DEF ClobDetails
<1>3. DOMAIN c = {"tokens", "maker_base_fee", "taker_base_fee", "is_50_50_outcome"}
  BY DEF ClobDetails
<1>4. \A i \in {1, 2} : DOMAIN c.tokens[i] = {"token_id", "outcome", "winner"}
  BY DEF ClobDetails
<1> HIDE DEF c, told
<1>5. ts = [i \in DOMAIN c.tokens |-> [c.tokens[i] EXCEPT !.winner = Get(told.lookup, c.tokens[i].outcome, c.tokens[i].winner)]]
  BY DEF TokensWithWinners, told
<1>6. DOMAIN c.tokens = {1, 2}
  <2>1. c.tokens = <<c.tokens[1], c.tokens[2]>>
    BY <1>1 DEF Tells
  <2> QED BY <2>1
<1>7. \A i \in {1, 2} : /\ ts[i].outcome = c.tokens[i].outcome
                        /\ ts[i].winner = Get(told.lookup, c.tokens[i].outcome, c.tokens[i].winner)
  <2> TAKE i \in {1, 2}
  <2>1. ts[i] = [c.tokens[i] EXCEPT !.winner = Get(told.lookup, c.tokens[i].outcome, c.tokens[i].winner)]
    BY <1>5, <1>6
  <2> QED BY <1>4, <2>1
<1>8. ts = <<ts[1], ts[2]>>
  <2>1. DOMAIN ts = {1, 2} /\ ts = [i \in {1, 2} |-> ts[i]]
    BY <1>5, <1>6
  <2> HIDE DEF ts
  <2>2. 1 .. 2 = {1, 2}
    OBVIOUS
  <2> QED BY <2>1, <2>2
<1>9. d.tokens = ts /\ d.taker_base_fee = c.taker_base_fee
  BY <1>3 DEF MarketDetails
<1>10. d.is_50_50_outcome <=> told.split \/ c.is_50_50_outcome
  <2>1. d.is_50_50_outcome = (told.split \/ c.is_50_50_outcome)
    BY <1>3 DEF MarketDetails, told
  <2> QED BY <2>1
<1> HIDE DEF d, ts
<1>11. ASSUME "resolved" \in {g, p} PROVE \A i \in {1, 2} : ts[i].winner <=> market.winner = ts[i].outcome
  <2> TAKE i \in {1, 2}
  <2>0. c.tokens[i].outcome \in {"yes", "no"}
    BY <1>1 DEF Tells
  <2>1. CASE g = "resolved"
    <3>1. ts[i].winner = told.lookup[c.tokens[i].outcome]
      BY <1>2, <1>7, <2>0, <2>1 DEF Get
    <3> QED BY <1>2, <1>7, <2>0, <2>1, <3>1
  <2>2. CASE g # "resolved"
    <3>1. p = "resolved"
      BY <1>11, <2>2
    <3>2. ts[i].winner = c.tokens[i].winner
      BY <1>2, <1>7, <2>2, NoneTold
    <3>3. c.tokens[i].winner <=> market.winner = c.tokens[i].outcome
      BY <1>1, <3>1 DEF Tells
    <3> QED BY <1>7, <3>2, <3>3
  <2> QED BY <2>1, <2>2
<1>12. told.split \/ c.is_50_50_outcome <=> p = "split" \/ Even(g, quote)
  BY <1>1, <1>2, <1>c
<1>14. /\ ts[1].outcome \in {"yes", "no"} /\ ts[2].outcome \in {"yes", "no"} /\ ts[1].outcome # ts[2].outcome
       /\ d.taker_base_fee \in Int
  BY <1>1, <1>7, <1>9 DEF Tells
<1>15. Tells(d, "resolved" \in {g, p}, p = "split" \/ Even(g, quote))
  <2>1. "resolved" \in {g, p} => \A i \in {1, 2} : d.tokens[i].winner <=> market.winner = d.tokens[i].outcome
    BY <1>9, <1>11
  <2>2. d.is_50_50_outcome <=> p = "split" \/ Even(g, quote)
    BY <1>10, <1>12
  <2>3. d.tokens = <<d.tokens[1], d.tokens[2]>>
    BY <1>8, <1>9
  <2> QED BY <1>9, <1>14, <2>1, <2>2, <2>3, Zenon DEF Tells
<1> QED BY <1>15 DEF d, c


\* The fee rate changes nothing of it.
LEMMA FeeTells ==
  ASSUME NEW d, NEW resolved \in BOOLEAN, NEW even \in BOOLEAN, Tells(d, resolved, even), NEW bps \in FeeRates,
         {"tokens", "maker_base_fee", "taker_base_fee", "is_50_50_outcome"} \subseteq DOMAIN d
  PROVE  Tells(WithFeeRate(d, bps), resolved, even)
<1> DEFINE e == WithFeeRate(d, bps)
<1>1. bps \in Int
  BY ReplayAssumption
<1>2. e = d \/ e = [d EXCEPT !.maker_base_fee = 0, !.taker_base_fee = bps]
  BY DEF WithFeeRate
<1>3. e.tokens = d.tokens /\ e.is_50_50_outcome = d.is_50_50_outcome /\ e.taker_base_fee \in {d.taker_base_fee, bps}
  BY <1>2
<1> HIDE DEF e
<1>4. e.taker_base_fee \in Int
  BY <1>1, <1>3 DEF Tells
<1>5. Tells(e, resolved, even)
  BY <1>3, <1>4, Zenon DEF Tells
<1> QED BY <1>5 DEF e

\* The first token of the outcome's name is the token itself.
LEMMA TokenTold ==
  ASSUME NEW tokens, tokens = <<tokens[1], tokens[2]>>, tokens[1].outcome # tokens[2].outcome,
         NEW index \in {1, 2}
  PROVE  LET named == Keep(tokens, LAMBDA t : t.outcome = tokens[index].outcome)
         IN  named # <<>> /\ named[1] = tokens[index]
<1> DEFINE name == tokens[index].outcome
           places == {i \in DOMAIN tokens : tokens[i].outcome = name}
           named == Picked(tokens, places)
           T == {tokens[1], tokens[2]}
<1>1. tokens \in Seq(T) /\ DOMAIN tokens = {1, 2}
  <2>1. \A a, b : <<a, b>> \in Seq({a, b}) /\ DOMAIN <<a, b>> = {1, 2}
    OBVIOUS
  <2>2. <<tokens[1], tokens[2]>> \in Seq(T) /\ DOMAIN <<tokens[1], tokens[2]>> = {1, 2}
    BY <2>1, Zenon
  <2> QED BY <2>2, Zenon
<1>2. places = {index}
  BY <1>1
<1>3. Keep(tokens, LAMBDA t : t.outcome = tokens[index].outcome) = named
  BY DEF Keep
<1>4. PICK at : Keeps(named, tokens, places, at)
  <2>1. places \in SUBSET DOMAIN tokens
    OBVIOUS
  <2> HIDE DEF places, T
  <2> QED BY <1>1, <2>1, PickedKeeps
<1>5. named \in Seq(T)
  <2>1. places \in SUBSET DOMAIN tokens
    OBVIOUS
  <2> HIDE DEF places, T
  <2> QED BY <1>1, <2>1, PickedKeeps
<1> HIDE DEF named, places
<1>6. PICK i \in 1 .. Len(named) : at[i] = index
  BY <1>2, <1>4 DEF Keeps
<1>7. named # <<>> /\ 1 \in 1 .. Len(named)
  <2>1. Len(named) \in Nat
    BY <1>5
  <2>2. 1 <= Len(named)
    BY <1>6, <2>1
  <2> QED BY <2>1, <2>2
<1>8. named[1] = tokens[at[1]] /\ at[1] \in places
  BY <1>4, <1>7 DEF Keeps
<1> QED BY <1>2, <1>3, <1>7, <1>8

\* What the instrument of a side tells of the outcome
OutcomeTold(instrument, resolved, even, won) ==
  /\ instrument.tick = 1 /\ instrument.taker_fee \in Int
  /\ resolved /\ ~even => InferRealizedOutcome(instrument) = IF won THEN 100 ELSE 0
  /\ even => InferRealizedOutcome(instrument) = None

\* The instrument of a Polymarket side tells the outcome the details tell.
LEMMA InstrumentTold ==
  ASSUME NEW d, NEW resolved \in BOOLEAN, NEW even \in BOOLEAN, Tells(d, resolved, even), NEW index \in {1, 2}
  PROVE  OutcomeTold(Instrument(d, index), resolved, even, market.winner = Instrument(d, index).outcome)
<1> DEFINE i == Instrument(d, index)
<1>1. /\ i.tick = 1 /\ i.taker_fee = d.taker_base_fee /\ i.result = "" /\ i.settlement_value = None
      /\ i.tokens = d.tokens /\ i.outcome = d.tokens[index].outcome
  BY DEF Instrument
<1>2. i.is_50_50_outcome = d.is_50_50_outcome
  BY DEF Instrument
<1> HIDE DEF i
<1>3. i.taker_fee \in Int /\ i.outcome \in {"yes", "no"}
  BY <1>1 DEF Tells
<1>4. FromResult(i) = None
  BY <1>1 DEF FromResult
<1>5. FromNumericFields(i) = None
  <2>1. None \notin {0, 100} /\ None # 10000
    BY DEF None
  <2>2. i.settlement_value = None
    BY <1>1
  <2> QED BY <2>1, <2>2, SMT DEF FromNumericFields
<1>6. FromTokens(i) = IF d.tokens[index].winner THEN 100 ELSE 0
  <2> DEFINE named == Keep(i.tokens, LAMBDA t : t.outcome = i.outcome)
  <2>1. named = Keep(d.tokens, LAMBDA t : t.outcome = d.tokens[index].outcome)
    BY <1>1 DEF Keep
  <2>2. named # <<>> /\ named[1] = d.tokens[index]
    <3>1. d.tokens = <<d.tokens[1], d.tokens[2]>> /\ d.tokens[1].outcome # d.tokens[2].outcome
      BY DEF Tells
    <3> QED BY <2>1, <3>1, TokenTold
  <2>3. i.outcome # ""
    BY <1>3
  <2>4. FromTokens(i) = IF named = <<>> \/ i.outcome = "" THEN None ELSE IF named[1].winner THEN 100 ELSE 0
    BY DEF FromTokens
  <2> HIDE DEF named
  <2> QED BY <2>2, <2>3, <2>4
<1>7. InferRealizedOutcome(i) = IF i.is_50_50_outcome THEN None ELSE FromTokens(i)
  BY <1>4, <1>5 DEF InferRealizedOutcome
<1>8. resolved /\ ~even => InferRealizedOutcome(i) = IF market.winner = i.outcome THEN 100 ELSE 0
  BY <1>1, <1>2, <1>6, <1>7 DEF Tells
<1>9. even => InferRealizedOutcome(i) = None
  BY <1>2, <1>7 DEF Tells
<1> QED BY <1>1, <1>3, <1>8, <1>9 DEF OutcomeTold, i

\* Kalshi's result is of the ticker, and a ticker pays when it is "yes".
LEMMA TickerTold ==
  ASSUME MarketTold, NEW p, NEW index \in {1, 2}
  PROVE  OutcomeTold(KalshiInstrument(KalshiMarket(p, index), 0), p = "resolved", p = "split", market.winner = Sides[index])
<1> DEFINE i == KalshiInstrument(KalshiMarket(p, index), 0)
<1>0. ~(None > 0)
  BY DEF None
<1>1. /\ i.tick = 1 /\ i.taker_fee = 700 /\ i.outcome = "yes" /\ i.settlement_value = None
      /\ i.is_50_50_outcome = FALSE
      /\ i.result = IF p # "resolved" THEN "" ELSE IF market.winner = Sides[index] THEN "yes" ELSE "no"
  BY <1>0 DEF KalshiInstrument, KalshiMarket, KalshiTakerFee, KALSHI_TAKER_FEE_RATE
<1>t. i.tokens = <<>>
  BY DEF KalshiInstrument
<1> HIDE DEF i
<1>f. i.taker_fee \in Int /\ i.tick = 1
  <2>1. 700 \in Int
    OBVIOUS
  <2> QED BY <1>1, <2>1, Zenon
<1>2. p = "resolved" => FromResult(i) = IF market.winner = Sides[index] THEN 100 ELSE 0
  BY <1>1 DEF FromResult
<1>3. p = "resolved" => InferRealizedOutcome(i) = IF market.winner = Sides[index] THEN 100 ELSE 0
  BY <1>1, <1>2 DEF InferRealizedOutcome, None
<1>4. p = "split" => InferRealizedOutcome(i) = None
  <2> SUFFICES ASSUME p = "split" PROVE InferRealizedOutcome(i) = None
    OBVIOUS
  <2>1. FromResult(i) = None /\ FromNumericFields(i) = None
    <3>1. None \notin {0, 100} /\ None # 10000
      BY DEF None
    <3>2. i.settlement_value = None
      BY <1>1
    <3>3. FromNumericFields(i) = None
      BY <3>1, <3>2, SMT DEF FromNumericFields
    <3> QED BY <1>1, <3>3 DEF FromResult
  <2>2. FromTokens(i) = None
    <3> DEFINE places == {k \in DOMAIN i.tokens : i.tokens[k].outcome = i.outcome}
    <3>1. i.tokens \in Seq({}) /\ places \in SUBSET DOMAIN i.tokens
      <4>1. <<>> \in Seq({})
        OBVIOUS
      <4> QED BY <1>t, <4>1, Zenon
    <3>2. Picked(i.tokens, places) \in Seq({})
      <4> HIDE DEF places
      <4> QED BY <3>1, PickedKeeps
    <3>3. Keep(i.tokens, LAMBDA t : t.outcome = i.outcome) = Picked(i.tokens, places)
      BY DEF Keep
    <3>4. \A s \in Seq({}) : s = <<>>
      OBVIOUS
    <3> HIDE DEF places
    <3>5. Keep(i.tokens, LAMBDA t : t.outcome = i.outcome) = <<>>
      BY <3>2, <3>3, <3>4
    <3> QED BY <3>5 DEF FromTokens
  <2> QED BY <1>1, <2>1, <2>2 DEF InferRealizedOutcome
<1>6. OutcomeTold(i, p = "resolved", p = "split", market.winner = Sides[index])
  BY <1>3, <1>4, <1>f, Zenon DEF OutcomeTold
<1> QED BY <1>6 DEF i

\* The last market of an event's loaders is the one of the model.
LEMMA LastOfEvent ==
  ASSUME NEW sibling, NEW this, this.conditionId # None, this.details.tokens # <<>>, NEW index,
         FromEventSlug(<<sibling, this>>, index) # <<>>
  PROVE  Last(FromEventSlug(<<sibling, this>>, index)) = Instrument(WithFeeRate(this.details, this.fee_rate_bps), index)
<1> DEFINE event == <<sibling, this>>
           T == {sibling, this}
           places == {i \in DOMAIN event : event[i].conditionId # None /\ event[i].details.tokens # <<>>}
           markets == Picked(event, places)
           loaders == [i \in DOMAIN markets |-> Instrument(WithFeeRate(markets[i].details, markets[i].fee_rate_bps), index)]
<1>1. event \in Seq(T) /\ DOMAIN event = {1, 2} /\ event[2] = this
  OBVIOUS
<1>2. EventMarkets(event) = markets
  BY DEF EventMarkets, Keep
<1>3. FromEventSlug(event, index) = loaders
  <2>1. FromEventSlug(event, index) \in {<<>>, loaders}
    BY <1>2 DEF FromEventSlug
  <2> HIDE DEF loaders
  <2> QED BY <2>1
<1>4. 2 \in places /\ places \in SUBSET DOMAIN event /\ \A i \in places : i \in {1, 2}
  BY <1>1
<1> HIDE DEF places
<1>5. PICK at : markets \in Seq(T) /\ Keeps(markets, event, places, at)
  <2> HIDE DEF T, event
  <2> QED BY <1>1, <1>4, PickedKeeps
<1> HIDE DEF markets, event
<1> DEFINE m == Len(markets)
<1>6. m \in Nat /\ DOMAIN markets = 1 .. m
  BY <1>5
<1>7. PICK i \in 1 .. m : at[i] = 2
  BY <1>4, <1>5 DEF Keeps
<1>8. i = m
  <2>1. m \in 1 .. m /\ at[m] \in {1, 2}
    BY <1>4, <1>5, <1>6, <1>7 DEF Keeps
  <2>2. i < m => at[i] < at[m]
    BY <1>5, <1>7, <2>1 DEF Keeps
  <2>3. ~(i < m)
    BY <1>7, <2>1, <2>2
  <2>4. m \in Nat
    BY <1>6
  <2> HIDE DEF m
  <2> QED BY <1>7, <2>3, <2>4
<1>9. markets[m] = this /\ m \in DOMAIN markets
  BY <1>1, <1>5, <1>6, <1>7, <1>8 DEF Keeps
<1> HIDE DEF m
<1>10. Len(loaders) = m /\ loaders[m] = Instrument(WithFeeRate(this.details, this.fee_rate_bps), index)
  BY <1>6, <1>9
<1> HIDE DEF loaders
<1>11. Last(loaders) = loaders[m]
  BY <1>10 DEF Last
<1> QED BY <1>3, <1>10, <1>11 DEF event

\* The prices of the ticks are the valid ones.
LEMMA TokenPrices ==
  ASSUME NEW s \in Seq(Rows), PricesValid(s), NEW token
  PROVE  \A i \in DOMAIN ParseTrades(s, token, Second) : ParseTrades(s, token, Second)[i].price \in 0 .. 100
<1> DEFINE places == {i \in DOMAIN s : s[i].asset = token}
           of == Picked(s, places)
           ticks == ParseTrades(s, token, Second)
<1>1. PICK at : of \in Seq(Rows) /\ Keeps(of, s, places, at)
  <2>1. places \in SUBSET DOMAIN s
    OBVIOUS
  <2> HIDE DEF places
  <2> QED BY <2>1, PickedKeeps
<1>2. \A i \in DOMAIN of : of[i].price \in 0 .. 100
  <2> TAKE i \in DOMAIN of
  <2>1. i \in 1 .. Len(of)
    BY <1>1
  <2>2. at[i] \in places /\ of[i] = s[at[i]]
    BY <1>1, <2>1 DEF Keeps
  <2> QED BY <2>2 DEF PricesValid
<1>3. DOMAIN ticks = DOMAIN of /\ \A i \in DOMAIN of : ticks[i].price = of[i].price
  BY DEF ParseTrades, Keep
<1> QED BY <1>2, <1>3

\* The prices of a Kalshi load are cents.
LEMMA TickerPrices ==
  ASSUME NEW s, KalshiRowsValid(s)
  PROVE  \A i \in DOMAIN ParseKalshiTrades(s, Second) : ParseKalshiTrades(s, Second)[i].price \in 0 .. 100
<1>1. /\ DOMAIN ParseKalshiTrades(s, Second) = DOMAIN s
      /\ \A i \in DOMAIN s : ParseKalshiTrades(s, Second)[i].price = YesPrice(s[i])
  BY DEF ParseKalshiTrades
<1> QED BY <1>1 DEF KalshiRowsValid

-----------------------------------------------------------------------------
(* What a load was told                                                    *)

\* What was asked of the market, and when
AskedInv ==
  /\ MarketTold /\ DOMAIN load = LoadFields /\ load.index \in {1, 2}
  /\ DOMAIN market = {"venue", "route", "phase", "winner", "reversed", "printed"}
  /\ market.venue \in {"POLYMARKET", "KALSHI"} /\ market.phase \in Phases
  /\ load.gamma \in Phases \union {"none"} /\ load.details \in Phases \union {"none"}
  /\ load.gamma # "none" => /\ Reaches(load.gamma, market.phase) /\ load.quote \in 0 .. 100
                            /\ load.details # "none" => Reaches(load.gamma, load.details)
  /\ load.details # "none" => Reaches(load.details, market.phase)
  /\ load.pc \in {"market", "members", "details"} => load.details = "none"
  /\ load.pc \in {"market", "members"} => load.gamma = "none"
  /\ load.pc = "details" => load.gamma # "none"
  /\ load.pc \in {"members", "details", "fee"} => market.venue # "KALSHI"
  /\ market.venue = "KALSHI" => load.gamma = "none"
  /\ load.pc = "event" => market.venue = "KALSHI"

DetailsTell(d) ==
  /\ Tells(d, Knew("resolved"), KnewEven)
  /\ {"tokens", "maker_base_fee", "taker_base_fee", "is_50_50_outcome"} \subseteq DOMAIN d

InstrumentTells == OutcomeTold(load.instrument, Knew("resolved"), KnewEven, Won)

ToldInv ==
  /\ AskedInv
  /\ load.pc = "fee" => DetailsTell(load.clob[1])
  /\ load.pc \in {"event", "pages", "ticks", "loaded"} => InstrumentTells
  /\ \A i \in DOMAIN load.ticks : load.ticks[i].price \in 0 .. 100

\* What was known was known or not.
LEMMA KnewOrNot == (\A phase : Knew(phase) \in BOOLEAN) /\ KnewEven \in BOOLEAN
<1>1. \A phase : Knew(phase) \in BOOLEAN
  <2> TAKE phase
  <2>1. CASE market.venue = "KALSHI"
    <3>1. (load.details = phase) \in BOOLEAN
      OBVIOUS
    <3>2. Knew(phase) = (load.details = phase)
      BY <2>1, Zenon DEF Knew
    <3> QED BY <3>1, <3>2, Zenon
  <2>2. CASE market.venue # "KALSHI"
    <3>1. (phase \in {load.gamma, load.details}) \in BOOLEAN
      OBVIOUS
    <3>2. Knew(phase) = (phase \in {load.gamma, load.details})
      BY <2>2, Zenon DEF Knew
    <3> QED BY <3>1, <3>2, Zenon
  <2> QED BY <2>1, <2>2, Zenon
<1>2. KnewEven \in BOOLEAN
  <2>1. (Knew("split") \/ (load.gamma \in {"open", "proposed"} /\ load.quote = 50)) \in BOOLEAN
    OBVIOUS
  <2> QED BY <2>1, Zenon DEF KnewEven
<1> QED BY <1>1, <1>2

\* A phase reached from a reached one is reached.
LEMMA ReachesOn ==
  ASSUME NEW p, NEW q, NEW r, Reaches(p, q), Reaches(q, r)
  PROVE  Reaches(p, r)
BY DEF Reaches

\* A load that has asked nothing
Begun ==
  /\ MarketTold /\ market.venue \in {"POLYMARKET", "KALSHI"} /\ market.phase \in Phases
  /\ DOMAIN market = {"venue", "route", "phase", "winner", "reversed", "printed"}
  /\ \E index \in {1, 2} : load = Load(index)

\* Nothing is told by a load that has asked nothing.
LEMMA BegunTold == Begun => ToldInv
<1> SUFFICES ASSUME Begun PROVE ToldInv
  OBVIOUS
<1>1. PICK index \in {1, 2} : load = Load(index)
  BY DEF Begun
<1>2. /\ load.pc = "market" /\ load.index = index /\ load.gamma = "none" /\ load.details = "none" /\ load.ticks = <<>>
      /\ DOMAIN load = LoadFields
  BY <1>1 DEF Load, LoadFields
<1>3. AskedInv
  BY <1>2 DEF AskedInv, Begun
<1> QED BY <1>2, <1>3 DEF ToldInv

\* The first load of a job
LEMMA ToldBegins ==
  ASSUME MarketInit, NEW index \in DOMAIN Sides, load = Load(index)
  PROVE  ToldInv
<1>1. index \in {1, 2}
  BY DEF Sides
<1>2. /\ MarketTold /\ market.venue \in {"POLYMARKET", "KALSHI"} /\ market.phase \in Phases
      /\ DOMAIN market = {"venue", "route", "phase", "winner", "reversed", "printed"}
  BY LoadsAssumption DEF MarketInit, MarketTold, Phases
<1> QED BY <1>1, <1>2, BegunTold DEF Begun

\* What happens at the venue changes nothing of what was told.
LEMMA VenueTold ==
  ASSUME ToldInv, TradeHappens \/ Resolve
  PROVE  ToldInv'
<1>1. /\ UNCHANGED load /\ DOMAIN market' = DOMAIN market /\ market'.venue = market.venue
      /\ market'.winner = market.winner /\ market'.reversed = market.reversed
      /\ market'.phase \in Phases /\ Reaches(market.phase, market'.phase)
  <2>1. CASE TradeHappens
    <3>1. UNCHANGED load /\ market' = [market EXCEPT !.printed = @ + 1]
      BY <2>1 DEF TradeHappens
    <3> QED BY <3>1 DEF ToldInv, AskedInv, MarketTold, Reaches
  <2>2. CASE Resolve
    <3>1. /\ UNCHANGED load
          /\ \/ market.phase = "open" /\ market' = [market EXCEPT !.phase = "proposed"]
             \/ market.phase = "proposed" /\ \E phase \in {"resolved", "split"} : market' = [market EXCEPT !.phase = phase]
      BY <2>2 DEF Resolve
    <3>3. CASE market.phase = "open" /\ market' = [market EXCEPT !.phase = "proposed"]
      BY <3>1, <3>3 DEF ToldInv, AskedInv, MarketTold, Reaches, Phases
    <3>4. CASE market.phase = "proposed" /\ \E phase \in {"resolved", "split"} : market' = [market EXCEPT !.phase = phase]
      BY <3>1, <3>4 DEF ToldInv, AskedInv, MarketTold, Reaches, Phases
    <3> QED BY <3>1, <3>3, <3>4
  <2> QED BY <2>1, <2>2
<1>2. AskedInv'
  BY <1>1, ReachesOn DEF ToldInv, AskedInv, MarketTold
<1>3. /\ \A phase : Knew(phase)' = Knew(phase)
      /\ KnewEven' = KnewEven /\ Won' = Won
  BY <1>1 DEF Knew, KnewEven, Won
<1>4. \A d : DetailsTell(d) => DetailsTell(d)'
  BY <1>1, <1>3 DEF DetailsTell, Tells
<1>5. InstrumentTells => InstrumentTells'
  BY <1>1, <1>3 DEF InstrumentTells, OutcomeTold
<1> QED BY <1>1, <1>2, <1>4, <1>5 DEF ToldInv

\* A request that changes neither what was told nor the instrument
Asks(f) ==
  /\ To(f) /\ UNCHANGED market
  /\ DOMAIN f \cap {"index", "gamma", "quote", "details", "instrument"} = {} /\ "pc" \in DOMAIN f
  /\ \/ f.pc = "failed"
     \/ load.pc \in {"event", "pages", "ticks"} /\ f.pc \in {"pages", "ticks", "loaded"}

\* Such a request keeps what was told.
LEMMA AsksTold ==
  ASSUME ToldInv, NEW f, Asks(f), \A i \in DOMAIN load'.ticks : load'.ticks[i].price \in 0 .. 100
  PROVE  ToldInv'
<1>1. /\ DOMAIN load' = LoadFields /\ load'.pc = f.pc
      /\ \A k \in {"index", "gamma", "quote", "details", "instrument"} : load'[k] = load[k]
  <2>1. To(f) /\ DOMAIN load = LoadFields
    BY DEF Asks, ToldInv, AskedInv
  <2>2. {"pc", "index", "gamma", "quote", "details", "instrument"} \subseteq LoadFields
    BY DEF LoadFields
  <2> QED BY <2>1, <2>2, LoadMoves DEF Asks
<1>2. load'.index = load.index /\ load'.gamma = load.gamma /\ load'.details = load.details
      /\ load'.instrument = load.instrument /\ load'.quote = load.quote
  BY <1>1
<1>3. UNCHANGED market /\ load'.pc \in {"failed", "pages", "ticks", "loaded"}
  BY <1>1 DEF Asks
<1>4. AskedInv'
  BY <1>1, <1>2, <1>3 DEF ToldInv, AskedInv, MarketTold
<1>5. (\A phase : Knew(phase)' = Knew(phase)) /\ KnewEven' = KnewEven /\ Won' = Won
  BY <1>2, <1>3 DEF Knew, KnewEven, Won
<1>6. load'.pc # "failed" => InstrumentTells'
  <2> SUFFICES ASSUME load'.pc # "failed" PROVE InstrumentTells'
    OBVIOUS
  <2>1. InstrumentTells
    BY <1>1 DEF Asks, ToldInv
  <2> QED BY <1>2, <1>5, <2>1 DEF InstrumentTells
<1> QED BY <1>3, <1>4, <1>6 DEF ToldInv

\* The first request for the market
LEMMA FirstTold ==
  ASSUME ToldInv, FetchMarket, load.ticks = <<>>
  PROVE  ToldInv'
<1>1. /\ DOMAIN load = LoadFields /\ UNCHANGED market /\ load.pc = "market" /\ MarketTold /\ load.index \in {1, 2}
      /\ load.details = "none" /\ load.gamma = "none" /\ market.phase \in Phases /\ market.venue \in {"POLYMARKET", "KALSHI"}
  BY DEF ToldInv, AskedInv, FetchMarket
<1>2. {"pc", "index", "gamma", "quote", "details", "instrument", "ticks"} \subseteq LoadFields
  BY DEF LoadFields
<1>3. Reaches(market.phase, market.phase) /\ "none" \notin Phases
  BY DEF Reaches, Phases
<1>4. CASE market.venue = "KALSHI"
  <2> DEFINE i == KalshiInstrument(KalshiMarket(market.phase, load.index), 0)
             f == [pc |-> "event", details |-> market.phase, instrument |-> i]
  <2>1. To(f)
    BY <1>4 DEF FetchMarket
  <2>2. OutcomeTold(i, market.phase = "resolved", market.phase = "split", market.winner = Sides[load.index])
    BY <1>1, TickerTold
  <2> HIDE DEF i
  <2>3. /\ DOMAIN f = {"pc", "details", "instrument"} /\ f.pc = "event" /\ f.details = market.phase /\ f.instrument = i
    OBVIOUS
  <2> HIDE DEF f
  <2>4. /\ DOMAIN load' = LoadFields /\ load'.pc = "event" /\ load'.details = market.phase /\ load'.instrument = i
        /\ load'.index = load.index /\ load'.gamma = load.gamma /\ load'.quote = load.quote /\ load'.ticks = load.ticks
    BY <1>1, <1>2, <2>1, <2>3, LoadMoves
  <2>5. AskedInv'
    BY <1>1, <1>3, <1>4, <2>4 DEF ToldInv, AskedInv, MarketTold
  <2>6. InstrumentTells'
    <3>1. Knew("resolved")' = (market.phase = "resolved") /\ KnewEven' = (market.phase = "split")
          /\ Won' = (market.winner = Sides[load.index])
      BY <1>1, <1>4, <2>4 DEF Knew, KnewEven, Won
    <3> QED BY <2>2, <2>4, <3>1 DEF InstrumentTells
  <2> QED BY <2>4, <2>5, <2>6 DEF ToldInv
<1>5. CASE market.venue # "KALSHI" /\ market.route = "event"
  <2> DEFINE f == [pc |-> "members"]
  <2>1. To(f) /\ DOMAIN f = {"pc"} /\ f.pc = "members"
    BY <1>5 DEF FetchMarket
  <2> HIDE DEF f
  <2>4. /\ DOMAIN load' = LoadFields /\ load'.pc = "members" /\ load'.details = load.details
        /\ load'.index = load.index /\ load'.gamma = load.gamma /\ load'.quote = load.quote /\ load'.ticks = load.ticks
    BY <1>1, <1>2, <2>1, LoadMoves
  <2>5. AskedInv'
    BY <1>1, <1>3, <1>5, <2>4 DEF ToldInv, AskedInv, MarketTold
  <2> QED BY <2>4, <2>5 DEF ToldInv
<1>6. CASE market.venue # "KALSHI" /\ market.route # "event"
  <2>0. PICK quote \in Quotes : To([pc |-> "details", gamma |-> market.phase, quote |-> quote])
    BY <1>6 DEF FetchMarket
  <2> DEFINE f == [pc |-> "details", gamma |-> market.phase, quote |-> quote]
  <2>1. /\ To(f) /\ DOMAIN f = {"pc", "gamma", "quote"} /\ f.pc = "details" /\ f.gamma = market.phase
        /\ f.quote \in 0 .. 100
    BY <2>0, LoadsAssumption
  <2> HIDE DEF f
  <2>4. /\ DOMAIN load' = LoadFields /\ load'.pc = "details" /\ load'.details = load.details
        /\ load'.index = load.index /\ load'.gamma = market.phase /\ load'.ticks = load.ticks
        /\ load'.quote \in 0 .. 100
    BY <1>1, <1>2, <2>1, LoadMoves
  <2>5. AskedInv'
    BY <1>1, <1>3, <1>6, <2>4 DEF ToldInv, AskedInv, MarketTold
  <2> QED BY <2>4, <2>5 DEF ToldInv
<1> QED BY <1>4, <1>5, <1>6

\* The details, asked of the CLOB after the market was asked of Gamma
LEMMA DetailsTold ==
  ASSUME ToldInv, FetchDetails, load.ticks = <<>>
  PROVE  ToldInv'
<1> DEFINE c == ClobDetails(market.phase)
           d == MarketDetails(c, GammaMarket(load.gamma, load.quote))
<1>1. /\ DOMAIN load = LoadFields /\ UNCHANGED market /\ load.pc = "details" /\ MarketTold /\ load.index \in {1, 2}
      /\ load.details = "none" /\ load.gamma \in Phases /\ market.phase \in Phases /\ market.venue = "POLYMARKET"
      /\ Reaches(load.gamma, market.phase) /\ load.quote \in 0 .. 100
  BY DEF ToldInv, AskedInv, FetchDetails
<1>2. {"pc", "index", "gamma", "quote", "details", "clob", "ticks"} \subseteq LoadFields
  BY DEF LoadFields
<1>3. Reaches(market.phase, market.phase) /\ "none" \notin Phases
  BY DEF Reaches, Phases
<1>4. Tells(d, "resolved" \in {load.gamma, market.phase}, market.phase = "split" \/ Even(load.gamma, load.quote))
  BY <1>1, BothTell
<1>5. {"tokens", "maker_base_fee", "taker_base_fee", "is_50_50_outcome"} \subseteq DOMAIN d
  BY DEF MarketDetails, ClobDetails
<1>6. To([pc |-> "failed"]) \/ To([pc |-> "fee", details |-> market.phase, clob |-> <<d>>])
  BY DEF FetchDetails
<1> HIDE DEF d
<1>7. CASE To([pc |-> "failed"])
  <2> DEFINE f == [pc |-> "failed"]
  <2>1. Asks(f) /\ DOMAIN f = {"pc"}
    BY <1>1, <1>7 DEF Asks
  <2> HIDE DEF f
  <2>2. load'.ticks = load.ticks
    BY <1>1, <1>2, <2>1, LoadMoves DEF Asks
  <2> QED BY <2>1, <2>2, AsksTold
<1>8. CASE To([pc |-> "fee", details |-> market.phase, clob |-> <<d>>])
  <2> DEFINE f == [pc |-> "fee", details |-> market.phase, clob |-> <<d>>]
  <2>1. To(f) /\ DOMAIN f = {"pc", "details", "clob"} /\ f.pc = "fee" /\ f.details = market.phase /\ f.clob = <<d>>
    BY <1>8
  <2> HIDE DEF f
  <2>2. /\ DOMAIN load' = LoadFields /\ load'.pc = "fee" /\ load'.details = market.phase /\ load'.clob = <<d>>
        /\ load'.index = load.index /\ load'.gamma = load.gamma /\ load'.quote = load.quote /\ load'.ticks = load.ticks
    BY <1>1, <1>2, <2>1, LoadMoves
  <2>3. AskedInv'
    BY <1>1, <1>3, <2>2 DEF ToldInv, AskedInv, MarketTold
  <2>4. load'.clob[1] = d
    BY <2>2
  <2>5. DetailsTell(load.clob[1])'
    <3>1. /\ Knew("resolved")' = ("resolved" \in {load.gamma, market.phase})
          /\ KnewEven' = (market.phase = "split" \/ Even(load.gamma, load.quote))
      BY <1>1, <2>2 DEF Knew, KnewEven, Even
    <3>2. Tells(d, Knew("resolved")', KnewEven')
      BY <1>4, <3>1, Zenon
    <3> QED BY <1>1, <1>5, <2>4, <3>2 DEF DetailsTell, Tells
  <2> QED BY <2>2, <2>3, <2>5 DEF ToldInv
<1> QED BY <1>6, <1>7, <1>8

\* The fee rate changes no outcome.
LEMMA FeeRateTold ==
  ASSUME ToldInv, FetchFeeRate, load.ticks = <<>>
  PROVE  ToldInv'
<1>1. /\ DOMAIN load = LoadFields /\ UNCHANGED market /\ load.pc = "fee" /\ MarketTold /\ load.index \in {1, 2}
      /\ market.venue = "POLYMARKET" /\ DetailsTell(load.clob[1])
  BY DEF ToldInv, AskedInv, FetchFeeRate
<1>2. {"pc", "index", "gamma", "quote", "details", "clob", "instrument", "ticks"} \subseteq LoadFields
  BY DEF LoadFields
<1>3. PICK bps \in FeeRates :
        To([pc |-> "pages", clob |-> <<>>, instrument |-> Instrument(WithFeeRate(load.clob[1], bps), load.index)])
  BY DEF FetchFeeRate
<1> DEFINE d == WithFeeRate(load.clob[1], bps)
           i == Instrument(d, load.index)
           f == [pc |-> "pages", clob |-> <<>>, instrument |-> i]
<1>4. Tells(d, Knew("resolved"), KnewEven)
  BY <1>1, FeeTells, KnewOrNot DEF DetailsTell
<1>5. OutcomeTold(i, Knew("resolved"), KnewEven, market.winner = i.outcome)
  <2> HIDE DEF d
  <2> QED BY <1>1, <1>4, InstrumentTold, KnewOrNot
<1> HIDE DEF i
<1>6. To(f) /\ DOMAIN f = {"pc", "clob", "instrument"} /\ f.pc = "pages" /\ f.instrument = i
  BY <1>3 DEF i
<1> HIDE DEF f
<1>7. /\ DOMAIN load' = LoadFields /\ load'.pc = "pages" /\ load'.details = load.details /\ load'.instrument = i
      /\ load'.index = load.index /\ load'.gamma = load.gamma /\ load'.quote = load.quote /\ load'.ticks = load.ticks
  BY <1>1, <1>2, <1>6, LoadMoves
<1>8. AskedInv'
  BY <1>1, <1>7 DEF ToldInv, AskedInv, MarketTold
<1>9. InstrumentTells'
  <2>1. /\ Knew("resolved")' = Knew("resolved") /\ KnewEven' = KnewEven
        /\ Won' = (market.winner = i.outcome)
    BY <1>1, <1>7 DEF Knew, KnewEven, Won
  <2> QED BY <1>5, <1>7, <2>1 DEF InstrumentTells
<1> QED BY <1>7, <1>8, <1>9 DEF ToldInv

\* The loader of an event's market is made of details that tell the outcome, whatever else
\* the event holds.
LEMMA EventTold ==
  ASSUME ToldInv, FetchEventMarkets, load.ticks = <<>>
  PROVE  ToldInv'
<1>1. /\ DOMAIN load = LoadFields /\ UNCHANGED market /\ load.pc = "members" /\ MarketTold /\ load.index \in {1, 2}
      /\ market.venue = "POLYMARKET" /\ load.gamma = "none" /\ load.details = "none" /\ market.phase \in Phases
  BY DEF ToldInv, AskedInv, FetchEventMarkets
<1>2. {"pc", "index", "gamma", "quote", "details", "clob", "instrument", "ticks"} \subseteq LoadFields
  BY DEF LoadFields
<1>3. PICK sibling \in Siblings, bps \in FeeRates :
        LET this    == [conditionId |-> 1, fee_rate_bps |-> bps, details |-> ClobDetails(market.phase)]
            loaders == FromEventSlug(<<sibling, this>>, load.index)
        IN  To(IF loaders = <<>> THEN [pc |-> "failed"]
               ELSE [pc |-> "pages", details |-> market.phase, instrument |-> Last(loaders)])
  BY DEF FetchEventMarkets
<1> DEFINE c == ClobDetails(market.phase)
           this == [conditionId |-> 1, fee_rate_bps |-> bps, details |-> c]
           loaders == FromEventSlug(<<sibling, this>>, load.index)
           d == WithFeeRate(c, bps)
           i == Instrument(d, load.index)
<1>4. this.conditionId # None /\ this.details = c /\ this.fee_rate_bps = bps
  BY DEF None
<1>5. Tells(c, market.phase = "resolved", market.phase = "split")
  BY <1>1, ClobTells
<1>6. {"tokens", "maker_base_fee", "taker_base_fee", "is_50_50_outcome"} \subseteq DOMAIN c
  BY DEF ClobDetails
<1>7. c.tokens # <<>>
  <2> HIDE DEF c
  <2>1. c.tokens = <<c.tokens[1], c.tokens[2]>>
    BY <1>5 DEF Tells
  <2>2. \A x, y : <<x, y>> # <<>>
    OBVIOUS
  <2> QED BY <2>1, <2>2
<1> HIDE DEF c
<1>8. OutcomeTold(i, market.phase = "resolved", market.phase = "split", market.winner = i.outcome)
  <2>0. (market.phase = "resolved") \in BOOLEAN /\ (market.phase = "split") \in BOOLEAN
    OBVIOUS
  <2>1. Tells(d, market.phase = "resolved", market.phase = "split")
    BY <1>5, <1>6, <2>0, FeeTells
  <2> HIDE DEF d
  <2> QED BY <1>1, <2>0, <2>1, InstrumentTold
<1>9. loaders # <<>> => Last(loaders) = i
  <2> HIDE DEF this
  <2> QED BY <1>4, <1>7, LastOfEvent
<1>10. To(IF loaders = <<>> THEN [pc |-> "failed"] ELSE [pc |-> "pages", details |-> market.phase, instrument |-> Last(loaders)])
  BY <1>3 DEF c
<1> HIDE DEF i, loaders
<1>11. CASE loaders = <<>>
  <2> DEFINE f == [pc |-> "failed"]
  <2>1. Asks(f) /\ DOMAIN f = {"pc"}
    BY <1>1, <1>10, <1>11 DEF Asks
  <2> HIDE DEF f
  <2>2. load'.ticks = load.ticks
    BY <1>1, <1>2, <2>1, LoadMoves DEF Asks
  <2> QED BY <2>1, <2>2, AsksTold
<1>12. CASE loaders # <<>>
  <2> DEFINE f == [pc |-> "pages", details |-> market.phase, instrument |-> i]
  <2>1. To(f) /\ DOMAIN f = {"pc", "details", "instrument"} /\ f.pc = "pages" /\ f.instrument = i /\ f.details = market.phase
    BY <1>9, <1>10, <1>12
  <2> HIDE DEF f
  <2>2. /\ DOMAIN load' = LoadFields /\ load'.pc = "pages" /\ load'.details = market.phase /\ load'.instrument = i
        /\ load'.index = load.index /\ load'.gamma = load.gamma /\ load'.quote = load.quote /\ load'.ticks = load.ticks
    BY <1>1, <1>2, <2>1, LoadMoves
  <2>3. Reaches(market.phase, market.phase) /\ "none" \notin Phases
    BY DEF Reaches, Phases
  <2>4. AskedInv'
    BY <1>1, <2>2, <2>3 DEF ToldInv, AskedInv, MarketTold
  <2>5. InstrumentTells'
    <3>1. /\ Knew("resolved")' = (market.phase = "resolved") /\ KnewEven' = (market.phase = "split")
          /\ Won' = (market.winner = i.outcome)
      BY <1>1, <2>2 DEF Knew, KnewEven, Won
    <3> QED BY <1>8, <2>2, <3>1 DEF InstrumentTells
  <2> QED BY <2>2, <2>4, <2>5 DEF ToldInv
<1> QED BY <1>11, <1>12

\* The requests for pages
LEMMA PagesTold ==
  ASSUME ToldInv, load.ticks = <<>>, FetchEvent \/ RequestFails \/ FetchPage \/ CeilingHit \/ FetchCursorPage
  PROVE  ToldInv'
<1>1. \E f : Asks(f) /\ "ticks" \notin DOMAIN f
  <2>1. CASE FetchEvent
    <3> DEFINE f == [pc |-> "pages"]
    <3>1. DOMAIN f = {"pc"} /\ f.pc = "pages" /\ To(f) /\ UNCHANGED market /\ load.pc = "event"
      BY <2>1 DEF FetchEvent
    <3> HIDE DEF f
    <3> QED BY <3>1 DEF Asks
  <2>2. CASE RequestFails
    <3> DEFINE f == [pc |-> "failed"]
    <3>1. DOMAIN f = {"pc"} /\ f.pc = "failed" /\ To(f) /\ UNCHANGED market
      BY <2>2 DEF RequestFails
    <3> HIDE DEF f
    <3> QED BY <3>1 DEF Asks
  <2>3. CASE FetchPage
    <3> DEFINE page == SubSeq(Newest, load.offset + 1, Min({market.printed, load.offset + PageSize}))
               kept == Keep(page, LAMBDA n : InWindow(Tape[n].ts, Start, End))
               f == [before |-> Before, rows |-> load.rows \o kept, offset |-> load.offset + Len(page),
                     pc |-> IF MorePages(page, kept, Start) THEN "pages" ELSE "ticks"]
    <3>1. To(f) /\ UNCHANGED market /\ load.pc = "pages"
      BY <2>3 DEF FetchPage
    <3> HIDE DEF page, kept
    <3>2. DOMAIN f = {"before", "rows", "offset", "pc"} /\ f.pc \in {"pages", "ticks"}
      OBVIOUS
    <3> HIDE DEF f
    <3> QED BY <3>1, <3>2 DEF Asks
  <2>4. CASE CeilingHit
    <3> DEFINE f == [pc |-> "ticks", partial |-> TRUE]
    <3>1. DOMAIN f = {"pc", "partial"} /\ f.pc = "ticks" /\ To(f) /\ UNCHANGED market /\ load.pc = "pages"
      BY <2>4 DEF CeilingHit
    <3> HIDE DEF f
    <3> QED BY <3>1 DEF Asks
  <2>5. CASE FetchCursorPage
    <3> DEFINE left == Keep(Newest, LAMBDA n : /\ load.cursor = None \/ n < load.cursor
                                               /\ InWindow(Tape[n].ts, Start, End))
               page == FirstOf(left, PageSize)
               f == [before |-> Before, rows |-> load.rows \o page,
                     cursor |-> IF page = <<>> THEN load.cursor ELSE Last(page),
                     pc |-> IF page = left \/ page = <<>> THEN "ticks" ELSE "pages"]
    <3>1. To(f) /\ UNCHANGED market /\ load.pc = "pages"
      BY <2>5 DEF FetchCursorPage
    <3> HIDE DEF page, left
    <3>2. DOMAIN f = {"before", "rows", "cursor", "pc"} /\ f.pc \in {"pages", "ticks"}
      OBVIOUS
    <3> HIDE DEF f
    <3> QED BY <3>1, <3>2 DEF Asks
  <2> QED BY <2>1, <2>2, <2>3, <2>4, <2>5
<1>2. PICK f : Asks(f) /\ "ticks" \notin DOMAIN f
  BY <1>1
<1>3. load'.ticks = load.ticks
  <2>1. DOMAIN load = LoadFields /\ "ticks" \in LoadFields
    BY DEF ToldInv, AskedInv, LoadFields
  <2> QED BY <1>2, <2>1, LoadMoves DEF Asks
<1> QED BY <1>2, <1>3, AsksTold

\* Ticks of Polymarket have prices of its rows.
LEMMA PolymarketTold ==
  ASSUME ToldInv, ParsePolymarket, load.rows \in Seq(DOMAIN Tape)
  PROVE  ToldInv'
<1> DEFINE sent == [i \in DOMAIN load.rows |-> PolymarketRow(load.rows[i])]
           token == load.instrument.token
           rows == TokenTrades(sent, token, Start, End)
           ticks == ParseTrades(rows, token, Second)
<1>1. load.pc = "ticks" /\ UNCHANGED market /\ DOMAIN load = LoadFields /\ {"pc", "ticks"} \subseteq LoadFields
  BY DEF ParsePolymarket, ToldInv, AskedInv, LoadFields
<1>2. sent \in Seq(Rows)
  <2>1. Len(load.rows) \in Nat /\ DOMAIN load.rows = 1 .. Len(load.rows)
    OBVIOUS
  <2>2. \A i \in DOMAIN load.rows : PolymarketRow(load.rows[i]) \in Rows
    BY DEF Rows
  <2>3. sent \in [1 .. Len(load.rows) -> Rows]
    BY <2>1, <2>2
  <2> HIDE DEF sent
  <2> QED BY <2>1, <2>3
<1> HIDE DEF sent
<1>3. rows \in Seq(Rows)
  <2> HIDE DEF token
  <2> QED BY <1>2, TokenRows
<1> HIDE DEF rows
<1>4. CASE PricesValid(rows)
  <2> DEFINE f == [pc |-> "loaded", ticks |-> ticks]
  <2>1. To(f)
    BY <1>4 DEF ParsePolymarket, rows, sent
  <2>2. \A i \in DOMAIN ticks : ticks[i].price \in 0 .. 100
    <3> HIDE DEF token
    <3> QED BY <1>3, <1>4, TokenPrices
  <2> HIDE DEF ticks
  <2>3. DOMAIN f = {"pc", "ticks"} /\ f.pc = "loaded" /\ f.ticks = ticks
    OBVIOUS
  <2> HIDE DEF f
  <2>4. load'.ticks = ticks /\ Asks(f)
    BY <1>1, <2>1, <2>3, LoadMoves DEF Asks
  <2> QED BY <2>2, <2>4, AsksTold
<1>5. CASE ~PricesValid(rows)
  <2> DEFINE f == [pc |-> "failed", ticks |-> <<>>]
  <2>1. To(f)
    BY <1>5 DEF ParsePolymarket, rows, sent
  <2>3. DOMAIN f = {"pc", "ticks"} /\ f.pc = "failed" /\ f.ticks = <<>>
    OBVIOUS
  <2> HIDE DEF f
  <2>4. load'.ticks = <<>> /\ Asks(f)
    BY <1>1, <2>1, <2>3, LoadMoves DEF Asks
  <2> QED BY <2>4, AsksTold
<1> QED BY <1>4, <1>5

\* Ticks of Kalshi have prices of its rows.
LEMMA KalshiTold ==
  ASSUME ToldInv, ParseKalshi
  PROVE  ToldInv'
<1> DEFINE rows == KalshiTrades([i \in DOMAIN load.rows |-> KalshiRow(load.rows[i], load.index)],
                                Start * Second, End * Second, Second)
           ticks == ParseKalshiTrades(rows, Second)
<1>1. load.pc = "ticks" /\ UNCHANGED market /\ DOMAIN load = LoadFields /\ {"pc", "ticks"} \subseteq LoadFields
  BY DEF ParseKalshi, ToldInv, AskedInv, LoadFields
<1>2. \/ KalshiRowsValid(rows) /\ To([pc |-> "loaded", ticks |-> ticks])
      \/ To([pc |-> "failed", ticks |-> <<>>])
  BY DEF ParseKalshi
<1> HIDE DEF rows
<1>4. CASE KalshiRowsValid(rows) /\ To([pc |-> "loaded", ticks |-> ticks])
  <2> DEFINE f == [pc |-> "loaded", ticks |-> ticks]
  <2>1. To(f)
    BY <1>4
  <2>2. \A i \in DOMAIN ticks : ticks[i].price \in 0 .. 100
    BY <1>4, TickerPrices
  <2> HIDE DEF ticks
  <2>3. DOMAIN f = {"pc", "ticks"} /\ f.pc = "loaded" /\ f.ticks = ticks
    OBVIOUS
  <2> HIDE DEF f
  <2>4. load'.ticks = ticks /\ Asks(f)
    BY <1>1, <2>1, <2>3, LoadMoves DEF Asks
  <2> QED BY <2>2, <2>4, AsksTold
<1>5. CASE To([pc |-> "failed", ticks |-> <<>>])
  <2> DEFINE f == [pc |-> "failed", ticks |-> <<>>]
  <2>3. DOMAIN f = {"pc", "ticks"} /\ f.pc = "failed" /\ f.ticks = <<>> /\ To(f)
    BY <1>5
  <2> HIDE DEF f
  <2>4. load'.ticks = <<>> /\ Asks(f)
    BY <1>1, <2>3, LoadMoves DEF Asks
  <2> QED BY <2>4, AsksTold
<1> QED BY <1>2, <1>4, <1>5

\* Every step of a load
LEMMA ToldKept ==
  ASSUME LoadInv, ToldInv, LoadsNext
  PROVE  ToldInv'
<1>1. load.pc # "loaded" => load.ticks = <<>>
  BY DEF LoadInv, LoadTyped
<1>2. load.pc = "ticks" => load.rows \in Seq(DOMAIN Tape)
  BY DEF LoadInv, LoadTyped
<1>3. CASE TradeHappens \/ Resolve
  BY <1>3, VenueTold
<1>4. CASE FetchMarket
  BY <1>1, <1>4, FirstTold DEF FetchMarket
<1>5. CASE FetchDetails
  BY <1>1, <1>5, DetailsTold DEF FetchDetails
<1>6. CASE FetchFeeRate
  BY <1>1, <1>6, FeeRateTold DEF FetchFeeRate
<1>7. CASE FetchEventMarkets
  BY <1>1, <1>7, EventTold DEF FetchEventMarkets
<1>8. CASE FetchEvent \/ RequestFails \/ FetchPage \/ CeilingHit \/ FetchCursorPage
  <2>1. load.pc # "loaded"
    BY <1>8 DEF FetchEvent, RequestFails, FetchPage, CeilingHit, FetchCursorPage
  <2> QED BY <1>1, <1>8, <2>1, PagesTold
<1>9. CASE ParsePolymarket
  BY <1>2, <1>9, PolymarketTold DEF ParsePolymarket
<1>10. CASE ParseKalshi
  BY <1>10, KalshiTold
<1> QED BY <1>3, <1>4, <1>5, <1>6, <1>7, <1>8, <1>9, <1>10 DEF LoadsNext

\* An analysis goes on with the other side.
LEMMA AnalysedTold ==
  ASSUME ToldInv, Analysed
  PROVE  ToldInv'
<1>1. UNCHANGED market /\ ((load' = Load(load.index + 1) /\ load.index < Len(Sides)) \/ UNCHANGED load)
  BY DEF Analysed
<1>2. CASE load' = Load(load.index + 1) /\ load.index < Len(Sides)
  <2>1. Len(Sides) = 2
    BY DEF Sides
  <2>2. load.index + 1 \in {1, 2}
    BY <1>2, <2>1 DEF ToldInv, AskedInv
  <2>3. Begun'
    BY <1>1, <1>2, <2>2 DEF Begun, ToldInv, AskedInv, MarketTold, Load
  <2> QED BY <2>3, BegunTold, PTL
<1>3. CASE UNCHANGED load
  BY <1>1, <1>3 DEF ToldInv, AskedInv, MarketTold, DetailsTell, Tells, InstrumentTells, OutcomeTold, Knew, KnewEven, Won
<1> QED BY <1>1, <1>2, <1>3

-----------------------------------------------------------------------------
(* The account and the result                                              *)

ReplayFields == {"job", "pc", "snapshots", "pick", "model", "at", "cash", "position", "fills", "result"}

\* The fills are what the account was changed by: settled at any price they come to its cash
\* and that price of what it holds.
AccountInv ==
  /\ FillList(replay.fills)
  /\ replay.cash \in Int /\ replay.position \in Int /\ SettlesAt(replay.fills, replay.cash, replay.position)

ReplayInv ==
  /\ DOMAIN replay = ReplayFields /\ replay.model \in FillModels
  /\ replay.pc = "run" => replay.job = "replay" /\ load.pc = "loaded"
  /\ replay.pc = "pick" => replay.job # "replay"
  /\ replay.job = "replay" => AccountInv
  /\ SettlementRight

\* Go changes some fields and leaves the others.
LEMMA ReplayMoves ==
  ASSUME NEW fields, Go(fields), DOMAIN replay = ReplayFields
  PROVE  /\ DOMAIN replay' = ReplayFields
         /\ \A k \in ReplayFields : replay'[k] = IF k \in DOMAIN fields THEN fields[k] ELSE replay[k]
BY DEF Go, Get

\* A step that leaves the account and ends no replay
Aside(fields) ==
  /\ Go(fields) /\ DOMAIN fields \cap {"job", "model", "cash", "position", "fills"} = {}
  /\ replay'.pc = "done" => replay.job # "replay"
  /\ replay'.pc = "run" => replay.job = "replay" /\ load'.pc = "loaded"
  /\ replay'.pc = "pick" => replay.job # "replay"

\* Such a step keeps the account and the result.
LEMMA AsideGood ==
  ASSUME ReplayInv, NEW fields, Aside(fields)
  PROVE  ReplayInv'
<1>1. {"job", "model", "cash", "position", "fills"} \subseteq ReplayFields /\ DOMAIN replay = ReplayFields
  BY DEF ReplayInv, ReplayFields
<1>2. /\ DOMAIN replay' = ReplayFields /\ replay'.job = replay.job /\ replay'.model = replay.model
      /\ replay'.cash = replay.cash /\ replay'.position = replay.position /\ replay'.fills = replay.fills
  <2>1. DOMAIN replay' = ReplayFields /\ \A k \in ReplayFields : k \notin DOMAIN fields => replay'[k] = replay[k]
    BY <1>1, ReplayMoves DEF Aside
  <2>2. \A k \in {"job", "model", "cash", "position", "fills"} : k \notin DOMAIN fields
    BY DEF Aside
  <2> QED BY <1>1, <2>1, <2>2
<1>3. AccountInv => AccountInv'
  BY <1>2 DEF AccountInv, SettlesAt
<1>4. SettlementRight'
  BY <1>2 DEF SettlementRight, Aside
<1> QED BY <1>2, <1>3, <1>4 DEF ReplayInv, Aside

\* A job begins with nothing bought.
LEMMA ReplayBegins ==
  ASSUME ReplayInit
  PROVE  ReplayInv
<1>1. PICK job : \E model \in FillModels :
        replay = [job |-> job, pc |-> "load", snapshots |-> <<>>, pick |-> <<>>, model |-> model, at |-> 0,
                  cash |-> 0, position |-> 0, fills |-> <<>>, result |-> NoResult]
  BY DEF ReplayInit
<1>2. /\ DOMAIN replay = ReplayFields /\ replay.model \in FillModels /\ replay.pc = "load"
      /\ replay.cash = 0 /\ replay.position = 0 /\ replay.fills = <<>>
  BY <1>1 DEF ReplayFields
<1>3. AccountInv
  <2>1. FillList(<<>>)
    <3> DEFINE none == <<>>
    <3>1. none \in Seq({}) /\ \A f \in {} : IsFill(f)
      OBVIOUS
    <3> HIDE DEF none
    <3>2. FillList(none)
      BY <3>1 DEF FillList
    <3> QED BY <3>2 DEF none
  <2>2. \A outcome \in Int : BinarySettlementPnl(<<>>, outcome) = 0 + outcome * 0
    BY NoFills
  <2> QED BY <1>2, <2>1, <2>2 DEF AccountInv, SettlesAt
<1> QED BY <1>2, <1>3 DEF ReplayInv, SettlementRight

\* One more fill is a list of fills that settles at what the fill changes.
LEMMA FillsGrow ==
  ASSUME NEW fills, FillList(fills), NEW fill, IsFill(fill),
         NEW cash \in Int, NEW position \in Int, SettlesAt(fills, cash, position)
  PROVE  /\ FillList(Append(fills, fill))
         /\ fill.action = "buy" => SettlesAt(Append(fills, fill), cash - fill.price - fill.commission, position + 1)
         /\ fill.action = "sell" => SettlesAt(Append(fills, fill), cash + fill.price - fill.commission, position - 1)
<1>1. PICK R : fills \in Seq(R) /\ \A f \in R : IsFill(f)
  BY DEF FillList
<1> DEFINE T == R \union {fill}
           more == Append(fills, fill)
<1>2. R \subseteq T /\ fill \in T /\ \A f \in T : IsFill(f)
  BY <1>1
<1> HIDE DEF T
<1>3. fills \in Seq(T)
  BY <1>1, <1>2
<1>4. more \in Seq(T)
  BY <1>2, <1>3
<1> HIDE DEF more
<1>5. FillList(more)
  BY <1>2, <1>4 DEF FillList
<1>6. /\ fill.action = "buy" => SettlesAt(Append(fills, fill), cash - fill.price - fill.commission, position + 1)
      /\ fill.action = "sell" => SettlesAt(Append(fills, fill), cash + fill.price - fill.commission, position - 1)
  BY <1>2, <1>3, OneMoreFill
<1> QED BY <1>5, <1>6 DEF more

\* A purchase takes, a sale gives.
LEMMA TakenOrPaid == \A c, p, k \in Int : c - 1 * p - k = c - p - k /\ c - (-1) * p - k = c + p - k
OBVIOUS

\* An order's fill changes the account by what it settles at.
LEMMA OrderGood ==
  ASSUME ReplayInv, ToldInv, NEW side \in {"buy", "sell"}, Order(side)
  PROVE  ReplayInv'
<1>1. /\ replay.pc = "run" /\ replay.job = "replay" /\ load.pc = "loaded" /\ UNCHANGED loadVars
      /\ DOMAIN replay = ReplayFields /\ replay.model \in FillModels /\ AccountInv
  BY DEF ReplayInv, Order
<1>2. PICK type \in {"market", "limit"} :
        LET price == load.ticks[replay.at].price
            order == [type |-> type, side |-> side, price |-> price]
            paid  == FillPrice(replay.model, load.instrument, order, price, price)
            fee   == Commission(load.instrument, ModelRate, 1, paid)
            sign  == IF side = "buy" THEN 1 ELSE -1
        IN  Go([position |-> replay.position + sign, cash |-> replay.cash - sign * paid - fee,
                fills |-> Append(replay.fills, [action |-> side, price |-> paid, quantity |-> 1, commission |-> fee])])
  BY DEF Order
<1> DEFINE price == load.ticks[replay.at].price
           order == [type |-> type, side |-> side, price |-> price]
           paid  == FillPrice(replay.model, load.instrument, order, price, price)
           fee   == Commission(load.instrument, ModelRate, 1, paid)
           sign  == IF side = "buy" THEN 1 ELSE -1
           fill  == [action |-> side, price |-> paid, quantity |-> 1, commission |-> fee]
           f == [position |-> replay.position + sign, cash |-> replay.cash - sign * paid - fee,
                 fills |-> Append(replay.fills, fill)]
<1>3. price \in Int
  <2>1. replay.at \in DOMAIN load.ticks
    BY DEF Order
  <2>2. \A p \in 0 .. 100 : p \in Int
    OBVIOUS
  <2> QED BY <2>1, <2>2 DEF ToldInv
<1>4. load.instrument.tick = 1 /\ load.instrument.taker_fee \in Int
  BY <1>1 DEF ToldInv, InstrumentTells, OutcomeTold
<1>5. paid \in Int
  <2>1. order.price = price /\ order.type \in {"market", "limit"}
    OBVIOUS
  <2> HIDE DEF order, price
  <2> QED BY <1>1, <1>3, <1>4, <2>1, PaidTyped
<1>6. Go(f)
  BY <1>2
<1> HIDE DEF paid
<1>7. fee \in Int
  BY <1>4, <1>5, FeeTyped
<1> HIDE DEF fee
<1>8. IsFill(fill) /\ fill.action = side /\ fill.price = paid /\ fill.commission = fee
  BY <1>5, <1>7 DEF IsFill
<1> HIDE DEF fill
<1>9. /\ DOMAIN f = {"position", "cash", "fills"} /\ f.position = replay.position + sign
      /\ f.cash = replay.cash - sign * paid - fee /\ f.fills = Append(replay.fills, fill)
  OBVIOUS
<1> HIDE DEF f
<1>10. /\ DOMAIN replay' = ReplayFields /\ replay'.pc = replay.pc /\ replay'.job = replay.job /\ replay'.model = replay.model
       /\ replay'.position = f.position /\ replay'.cash = f.cash /\ replay'.fills = f.fills
  <2>1. {"job", "pc", "model", "cash", "position", "fills"} \subseteq ReplayFields
    BY DEF ReplayFields
  <2> QED BY <1>1, <1>6, <1>9, <2>1, ReplayMoves
<1>11. replay.cash \in Int /\ replay.position \in Int
  BY <1>1 DEF AccountInv
<1>12. /\ FillList(Append(replay.fills, fill))
       /\ fill.action = "buy" =>
            SettlesAt(Append(replay.fills, fill), replay.cash - fill.price - fill.commission, replay.position + 1)
       /\ fill.action = "sell" =>
            SettlesAt(Append(replay.fills, fill), replay.cash + fill.price - fill.commission, replay.position - 1)
  BY <1>1, <1>8, FillsGrow DEF AccountInv
<1>13. replay'.fills = Append(replay.fills, fill)
  BY <1>9, <1>10
<1>14. replay.cash - 1 * paid - fee = replay.cash - paid - fee /\ replay.cash - (-1) * paid - fee = replay.cash + paid - fee
  BY <1>5, <1>7, <1>11, TakenOrPaid
<1>15. CASE side = "buy"
  <2>1. sign = 1
    BY <1>15
  <2> HIDE DEF sign
  <2>2. replay'.cash = replay.cash - paid - fee
    BY <1>9, <1>10, <1>14, <2>1
  <2>3. replay'.position = replay.position + 1
    BY <1>9, <1>10, <1>11, <2>1
  <2>4. replay'.cash \in Int /\ replay'.position \in Int
    BY <1>5, <1>7, <1>11, <2>2, <2>3
  <2>5. SettlesAt(replay'.fills, replay'.cash, replay'.position)
    BY <1>8, <1>12, <1>13, <1>15, <2>2, <2>3
  <2>6. AccountInv'
    <3>1. SettlesAt(replay.fills, replay.cash, replay.position)'
      BY <2>5 DEF SettlesAt
    <3> QED BY <1>12, <1>13, <2>4, <3>1 DEF AccountInv
  <2> QED BY <1>1, <1>10, <2>6 DEF ReplayInv, SettlementRight, loadVars
<1>16. CASE side = "sell"
  <2>1. sign = -1
    BY <1>16
  <2> HIDE DEF sign
  <2>2. replay'.cash = replay.cash + paid - fee
    BY <1>9, <1>10, <1>14, <2>1
  <2>3. replay'.position = replay.position - 1
    BY <1>9, <1>10, <1>11, <2>1
  <2>4. replay'.cash \in Int /\ replay'.position \in Int
    BY <1>5, <1>7, <1>11, <2>2, <2>3
  <2>5. SettlesAt(replay'.fills, replay'.cash, replay'.position)
    BY <1>8, <1>12, <1>13, <1>16, <2>2, <2>3
  <2>6. AccountInv'
    <3>1. SettlesAt(replay.fills, replay.cash, replay.position)'
      BY <2>5 DEF SettlesAt
    <3> QED BY <1>12, <1>13, <2>4, <3>1 DEF AccountInv
  <2> QED BY <1>1, <1>10, <2>6 DEF ReplayInv, SettlementRight, loadVars
<1> QED BY <1>15, <1>16

\* The settlement of a replay is the account's cash and the worth of what it holds.
LEMMA SettleGood ==
  ASSUME ReplayInv, ToldInv, Settle
  PROVE  ReplayInv'
<1>1. /\ replay.pc = "run" /\ replay.job = "replay" /\ load.pc = "loaded" /\ UNCHANGED <<market, load>>
      /\ DOMAIN replay = ReplayFields /\ replay.model \in FillModels /\ AccountInv
  BY DEF ReplayInv, Settle, loadVars
<1>2. LET outcome == InferRealizedOutcome(load.instrument)
      IN  Go([pc |-> "done",
              result |-> WithSettlement(
                [pnl |-> RealizedPnl(<<replay.cash>>), market_exit_pnl |-> None, realized_outcome |-> outcome,
                 fill_events |-> replay.fills])])
  BY DEF Settle
<1> DEFINE outcome == InferRealizedOutcome(load.instrument)
           simulated == [pnl |-> RealizedPnl(<<replay.cash>>), market_exit_pnl |-> None, realized_outcome |-> outcome,
                         fill_events |-> replay.fills]
           result == WithSettlement(simulated)
           f == [pc |-> "done", result |-> result]
<1>3. Go(f)
  BY <1>2
<1> HIDE DEF outcome
<1>4. /\ simulated.pnl = RealizedPnl(<<replay.cash>>) /\ simulated.market_exit_pnl = None
      /\ simulated.realized_outcome = outcome /\ simulated.fill_events = replay.fills
      /\ DOMAIN simulated = {"pnl", "market_exit_pnl", "realized_outcome", "fill_events"}
  OBVIOUS
<1> HIDE DEF simulated
<1>5. outcome = None => result.realized_outcome = None /\ result.pnl = replay.cash /\ result.market_exit_pnl = None
  <2>1. RealizedPnl(<<replay.cash>>) = replay.cash
    BY <1>1, OneCell DEF AccountInv
  <2> QED BY <1>4, <2>1 DEF WithSettlement
<1>6. outcome # None => result.realized_outcome = outcome /\ result.pnl = BinarySettlementPnl(replay.fills, outcome)
  BY <1>4 DEF WithSettlement
<1> HIDE DEF result
<1>7. DOMAIN f = {"pc", "result"} /\ f.pc = "done" /\ f.result = result
  OBVIOUS
<1> HIDE DEF f
<1>8. /\ DOMAIN replay' = ReplayFields /\ replay'.pc = "done" /\ replay'.result = result
      /\ replay'.job = replay.job /\ replay'.model = replay.model
      /\ replay'.cash = replay.cash /\ replay'.position = replay.position /\ replay'.fills = replay.fills
  <2>1. {"job", "pc", "model", "cash", "position", "fills", "result"} \subseteq ReplayFields
    BY DEF ReplayFields
  <2> QED BY <1>1, <1>3, <1>7, <2>1, ReplayMoves
<1>9. /\ Knew("resolved") /\ ~KnewEven => outcome = IF Won THEN 100 ELSE 0
      /\ KnewEven => outcome = None
  BY <1>1 DEF ToldInv, InstrumentTells, OutcomeTold, outcome
<1>10. Knew("resolved") /\ ~KnewEven =>
         /\ result.realized_outcome = IF Won THEN 100 ELSE 0
         /\ result.pnl = replay.cash + (IF Won THEN 100 ELSE 0) * replay.position
  <2>1. 100 \in Int /\ 0 \in Int /\ 100 # None /\ 0 # None
    BY DEF None
  <2>2. \A o \in Int : BinarySettlementPnl(replay.fills, o) = replay.cash + o * replay.position
    BY <1>1 DEF AccountInv, SettlesAt
  <2> QED BY <1>6, <1>9, <2>1, <2>2
<1>11. Knew("resolved")' = Knew("resolved") /\ KnewEven' = KnewEven /\ Won' = Won
  BY <1>1 DEF Knew, KnewEven, Won
<1>12. SettlementRight'
  BY <1>5, <1>8, <1>9, <1>10, <1>11 DEF SettlementRight
<1>13. AccountInv'
  BY <1>1, <1>8 DEF AccountInv, SettlesAt
<1> QED BY <1>1, <1>8, <1>12, <1>13 DEF ReplayInv

\* What was told and the account, of the activities that replay
SettleInv ==
  /\ activity = "replay" => ToldInv /\ ReplayInv
  /\ activity # "replay" => replay = [job |-> "none"]

\* A run begins with an account of nothing, or with no replay.
LEMMA SettleBegins ==
  ASSUME DataInit
  PROVE  SettleInv
<1>1. CASE activity = "replay"
  <2>1. ReplayInit
    BY <1>1 DEF DataInit
  <2>2. MarketInit /\ \E index \in DOMAIN Sides : load = Load(index)
    BY <2>1 DEF ReplayInit
  <2>3. ToldInv
    BY <2>2, ToldBegins
  <2>4. ReplayInv
    BY <2>1, ReplayBegins
  <2> QED BY <1>1, <2>3, <2>4 DEF SettleInv
<1>2. CASE activity # "replay"
  BY <1>2 DEF DataInit, SettleInv
<1> QED BY <1>1, <1>2

\* A step of a load, of an analysis, of a replay
LEMMA ReplayKept ==
  ASSUME LoadInv, ToldInv, ReplayInv, ReplayNext
  PROVE  ToldInv' /\ ReplayInv'
<1>1. CASE LoadStep
  <2>1. replay.pc = "load" /\ LoadsNext /\ UNCHANGED replay
    BY <1>1 DEF LoadStep
  <2>2. ToldInv'
    BY <2>1, ToldKept
  <2>3. ReplayInv'
    BY <2>1 DEF ReplayInv, AccountInv, SettlesAt, SettlementRight
  <2> QED BY <2>2, <2>3
<1>2. CASE Analysed
  <2>1. ToldInv'
    BY <1>2, AnalysedTold
  <2>2. replay.pc = "load" /\ replay.job = "analyze" /\ replay.job # "replay"
    BY <1>2 DEF Analysed
  <2>3. \E snapshots : Go([snapshots |-> snapshots]) \/ Go([snapshots |-> snapshots, pc |-> "pick"])
    BY <1>2 DEF Analysed
  <2>4. PICK snapshots : Go([snapshots |-> snapshots]) \/ Go([snapshots |-> snapshots, pc |-> "pick"])
    BY <2>3
  <2>5. CASE Go([snapshots |-> snapshots])
    <3> DEFINE f == [snapshots |-> snapshots]
    <3>1. Go(f) /\ DOMAIN f = {"snapshots"}
      BY <2>5
    <3> HIDE DEF f
    <3>2. replay'.pc = replay.pc
      BY <3>1, ReplayMoves DEF ReplayInv, ReplayFields
    <3>3. Aside(f)
      BY <2>2, <3>1, <3>2 DEF Aside
    <3> QED BY <2>1, <3>3, AsideGood
  <2>6. CASE Go([snapshots |-> snapshots, pc |-> "pick"])
    <3> DEFINE f == [snapshots |-> snapshots, pc |-> "pick"]
    <3>1. Go(f) /\ DOMAIN f = {"snapshots", "pc"} /\ f.pc = "pick"
      BY <2>6
    <3> HIDE DEF f
    <3>2. replay'.pc = "pick"
      BY <3>1, ReplayMoves DEF ReplayInv, ReplayFields
    <3>3. Aside(f)
      BY <2>2, <3>1, <3>2 DEF Aside
    <3> QED BY <2>1, <3>3, AsideGood
  <2> QED BY <2>1, <2>4, <2>5, <2>6
<1>3. CASE Pick \/ Begin \/ NextTick
  <2>1. UNCHANGED loadVars
    BY <1>3 DEF Pick, Begin, NextTick
  <2>2. ToldInv'
    BY <2>1 DEF loadVars, ToldInv, AskedInv, MarketTold, DetailsTell, Tells, InstrumentTells, OutcomeTold, Knew, KnewEven, Won
  <2>3. CASE Pick
    <3>1. replay.pc = "pick" /\ \E pick : Go([pc |-> "done", pick |-> pick])
      BY <2>3 DEF Pick
    <3>2. PICK pick : Go([pc |-> "done", pick |-> pick])
      BY <3>1
    <3> DEFINE f == [pc |-> "done", pick |-> pick]
    <3>3. Go(f) /\ DOMAIN f = {"pc", "pick"} /\ f.pc = "done"
      BY <3>2
    <3> HIDE DEF f
    <3>4. replay'.pc = "done"
      BY <3>3, ReplayMoves DEF ReplayInv, ReplayFields
    <3>5. Aside(f)
      BY <3>1, <3>3, <3>4 DEF Aside, ReplayInv
    <3> QED BY <2>2, <3>5, AsideGood
  <2>4. CASE Begin
    <3>1. replay.job = "replay" /\ \E pc : Go([pc |-> pc, at |-> 1]) /\ ((pc = "run" /\ load.pc = "loaded") \/ pc = "skipped")
      BY <2>4 DEF Begin
    <3>2. PICK pc : Go([pc |-> pc, at |-> 1]) /\ ((pc = "run" /\ load.pc = "loaded") \/ pc = "skipped")
      BY <3>1
    <3> DEFINE f == [pc |-> pc, at |-> 1]
    <3>3. Go(f) /\ DOMAIN f = {"pc", "at"} /\ f.pc = pc
      BY <3>2
    <3> HIDE DEF f
    <3>4. replay'.pc = pc
      BY <3>3, ReplayMoves DEF ReplayInv, ReplayFields
    <3>5. Aside(f)
      BY <2>1, <3>1, <3>2, <3>3, <3>4 DEF Aside, loadVars
    <3> QED BY <2>2, <3>5, AsideGood
  <2>5. CASE NextTick
    <3>1. replay.pc = "run" /\ Go([at |-> replay.at + 1])
      BY <2>5 DEF NextTick
    <3> DEFINE f == [at |-> replay.at + 1]
    <3>2. Go(f) /\ DOMAIN f = {"at"}
      BY <3>1
    <3> HIDE DEF f
    <3>3. replay'.pc = "run"
      BY <3>1, <3>2, ReplayMoves DEF ReplayInv, ReplayFields
    <3>4. Aside(f)
      BY <2>1, <3>1, <3>2, <3>3 DEF Aside, ReplayInv, loadVars
    <3> QED BY <2>2, <3>4, AsideGood
  <2> QED BY <1>3, <2>3, <2>4, <2>5
<1>4. CASE \E side \in {"buy", "sell"} : Order(side)
  <2>1. UNCHANGED loadVars
    BY <1>4 DEF Order
  <2>2. ToldInv'
    BY <2>1 DEF loadVars, ToldInv, AskedInv, MarketTold, DetailsTell, Tells, InstrumentTells, OutcomeTold, Knew, KnewEven, Won
  <2> QED BY <1>4, <2>2, OrderGood
<1>5. CASE Settle
  <2>1. UNCHANGED loadVars
    BY <1>5 DEF Settle
  <2>2. ToldInv'
    BY <2>1 DEF loadVars, ToldInv, AskedInv, MarketTold, DetailsTell, Tells, InstrumentTells, OutcomeTold, Knew, KnewEven, Won
  <2> QED BY <1>5, <2>2, SettleGood
<1> QED BY <1>1, <1>2, <1>3, <1>4, <1>5 DEF ReplayNext

\* What was told and the account, at every step of every activity
LEMMA SettleInvariant == DataSpec => []SettleInv
<1>1. DataInit => SettleInv
  BY SettleBegins
<1>2. TradesInv /\ SettleInv /\ [DataNext]_dataVars => SettleInv'
  <2> SUFFICES ASSUME TradesInv, SettleInv, [DataNext]_dataVars PROVE SettleInv'
    OBVIOUS
  <2>1. CASE activity = "replay" /\ ReplayNext /\ UNCHANGED activity
    <3>1. LoadInv
      BY <2>1 DEF TradesInv
    <3> QED BY <2>1, <3>1, ReplayKept DEF SettleInv
  <2>2. CASE UNCHANGED <<activity, market, load, replay>>
    <3>1. ToldInv => ToldInv'
      BY <2>2 DEF ToldInv, AskedInv, MarketTold, DetailsTell, Tells, InstrumentTells, OutcomeTold, Knew, KnewEven, Won
    <3>2. ReplayInv => ReplayInv'
      BY <2>2 DEF ReplayInv, AccountInv, SettlesAt, SettlementRight, Knew, KnewEven, Won
    <3> QED BY <2>2, <3>1, <3>2 DEF SettleInv
  <2> QED BY <2>1, <2>2 DEF DataNext, dataVars
<1> QED BY <1>1, <1>2, TradesInvariant, PTL DEF DataSpec

\* A replay whose metadata knew the market as resolved, and neither as split nor with even
\* prices before, settles at what the side it traded is worth, and its result is the account's
\* cash and that worth of what it still holds; one that knew it as split, or was shown even
\* prices before it was resolved, has no outcome and keeps the result of the simulation
\* (infer_realized_outcome and BinarySettlementPnlPolicy, over what infer_gamma_token_winners,
\* the CLOB's tokens and the Kalshi market told).
THEOREM SettlesRight == DataSpec => []SettlementRight
<1>1. SettleInv => SettlementRight
  <2>1. CASE activity = "replay"
    BY <2>1 DEF SettleInv, ReplayInv
  <2>2. CASE activity # "replay"
    BY <2>2 DEF SettleInv, SettlementRight
  <2> QED BY <2>1, <2>2
<1> QED BY <1>1, SettleInvariant, PTL

-----------------------------------------------------------------------------
(* Sides of a book                                                         *)

IsSide(f) == f \in [DOMAIN f -> Nat \ {0}]

\* What is left of the levels are levels with a size.
LEMMA LevelsLeft ==
  ASSUME NEW raw \in Seq(Levels), NEW side \in {"bid", "ask"}
  PROVE  BookLevels(raw, side) \in Seq({l \in Levels : l.size > 0})
<1> DEFINE U == {l \in Levels : l.size > 0}
           s == Keep(raw, LAMBDA l : l.size > 0)
           less == {p \in (DOMAIN s) \X (DOMAIN s) : IF side = "bid" THEN s[p[1]].price < s[p[2]].price
                                                     ELSE s[p[1]].price > s[p[2]].price}
           before(i) == {j \in DOMAIN s : (IF side = "bid" THEN s[j].price < s[i].price ELSE s[j].price > s[i].price)
                                          \/ (~(IF side = "bid" THEN s[i].price < s[j].price ELSE s[i].price > s[j].price)
                                              /\ j < i)}
           at == [k \in 1 .. Cardinality(DOMAIN s) |-> CHOOSE i \in DOMAIN s : Cardinality(before(i)) = k - 1]
<1>1. s \in Seq(U)
  <2> DEFINE places == {i \in DOMAIN raw : raw[i].size > 0}
  <2>1. \A i \in places : raw[i] \in U
    OBVIOUS
  <2>2. Picked(raw, places) \in Seq(U)
    <3> HIDE DEF U
    <3> QED BY <2>1, PickedTyped
  <2> QED BY <2>2 DEF Keep
<1>2. BookLevels(raw, side) = [k \in DOMAIN s |-> s[at[k]]]
  BY DEF BookLevels, StableSort, Ranked
<1> HIDE DEF s
<1>3. Len(s) \in Nat /\ DOMAIN s = 1 .. Len(s) /\ \A i \in DOMAIN s : s[i] \in U /\ s[i].price \in Int
  <2>1. \A i \in DOMAIN s : s[i] \in U
    BY <1>1
  <2>2. \A l \in U : l.price \in Int
    BY DEF Levels
  <2> QED BY <1>1, <2>1, <2>2
<1> HIDE DEF U
<1>4. WeakOrder(s, less)
  BY <1>3 DEF WeakOrder
<1>5. \A i \in DOMAIN s : Cardinality(before(i)) = RankOf(Stable(s, less), DOMAIN s, i)
  <2> TAKE i \in DOMAIN s
  <2>1. before(i) = {j \in DOMAIN s : <<j, i>> \in Stable(s, less)}
    BY DEF Stable
  <2> QED BY <2>1 DEF RankOf
<1> HIDE DEF less, before
<1>6. \A k \in DOMAIN s : at[k] = CHOOSE i \in DOMAIN s : RankOf(Stable(s, less), DOMAIN s, i) = k - 1
  <2>1. Cardinality(DOMAIN s) = Len(s)
    <3>1. \A n \in Nat : Cardinality(1 .. n) = n
      BY FS_Interval
    <3> QED BY <1>3, <3>1
  <2> TAKE k \in DOMAIN s
  <2>2. at[k] = CHOOSE i \in DOMAIN s : Cardinality(before(i)) = k - 1
    BY <1>3, <2>1
  <2> HIDE DEF at
  <2> QED BY <1>5, <2>2
<1> HIDE DEF at
<1>7. BookLevels(raw, side) = SortedBy(s, less)
  BY <1>2, <1>6 DEF SortedBy
<1>8. PICK q : Sorts(SortedBy(s, less), s, less, q)
  BY <1>3, <1>4, SortedBySorts
<1>9. BookLevels(raw, side) = [k \in 1 .. Len(s) |-> s[q[k]]] /\ \A k \in 1 .. Len(s) : s[q[k]] \in U
  BY <1>3, <1>7, <1>8 DEF Sorts
<1>10. BookLevels(raw, side) \in Seq(U)
  BY <1>3, <1>9
<1> QED BY <1>10 DEF U

\* Their sizes by their prices are a side.
LEMMA SideMade ==
  ASSUME NEW levels \in Seq({l \in Levels : l.size > 0})
  PROVE  IsSide(SideMap(levels))
<1> DEFINE D == DOMAIN levels
           K == {levels[i].price : i \in D}
           last(k) == CHOOSE i \in D : levels[i].price = k /\ \A j \in D : levels[j].price = k => j <= i
           f == SideMap(levels)
<1>1. \A k \in K : last(k) \in D
  <2> TAKE k \in K
  <2> DEFINE I == {i \in D : levels[i].price = k}
  <2>1. I \in SUBSET Int /\ IsFiniteSet(I) /\ I # {}
    <3>1. D = 1 .. Len(levels) /\ Len(levels) \in Nat
      OBVIOUS
    <3>2. IsFiniteSet(D)
      BY <3>1, FS_Interval
    <3>3. I \subseteq D
      OBVIOUS
    <3> QED BY <3>1, <3>2, <3>3, FS_Subset
  <2>2. PICK x \in I : \A y \in I : x >= y
    <3> HIDE DEF I
    <3> QED BY <2>1, GreatestIn
  <2>3. \E i \in D : levels[i].price = k /\ \A j \in D : levels[j].price = k => j <= i
    BY <2>1, <2>2
  <2> QED BY <2>3
<1>2. f = [k \in K |-> levels[last(k)].size]
  <2> DEFINE prices == [i \in D |-> levels[i].price]
             sizes == [i \in D |-> levels[i].size]
             of(k) == CHOOSE i \in DOMAIN prices : prices[i] = k /\ \A j \in DOMAIN prices : prices[j] = k => j <= i
  <2>1. f = [k \in {prices[i] : i \in DOMAIN prices} |-> sizes[of(k)]]
    BY DEF SideMap, DictOf
  <2>2. {prices[i] : i \in DOMAIN prices} = K /\ DOMAIN prices = D
    OBVIOUS
  <2>3. \A k \in K : of(k) \in D /\ of(k) = last(k)
    <3> TAKE k \in K
    <3>1. of(k) = last(k)
      OBVIOUS
    <3> QED BY <1>1, <3>1
  <2> HIDE DEF of, last
  <2> QED BY <2>1, <2>2, <2>3
<1>3. \A i \in D : levels[i].size \in Nat \ {0}
  <2>1. \A i \in D : levels[i] \in Levels /\ levels[i].size > 0
    OBVIOUS
  <2>2. \A l \in Levels : l.size \in Int
    BY DEF Levels
  <2> QED BY <2>1, <2>2
<1> HIDE DEF last, f
<1> QED BY <1>1, <1>2, <1>3 DEF IsSide, f

\* A side with the changes to another is the other.
LEMMA ChangesApply ==
  ASSUME NEW f, NEW g, IsSide(f), IsSide(g)
  PROVE  Patched(f, Changes(f, g)) = g
<1> DEFINE c == Changes(f, g)
           p == Patched(f, c)
           d(q) == Get(c, q, Get(f, q, 0))
<1>1. /\ DOMAIN c = {q \in DOMAIN f \union DOMAIN g : Get(f, q, 0) # Get(g, q, 0)}
      /\ \A q \in DOMAIN c : c[q] = Get(g, q, 0)
  BY DEF Changes
<1>2. p = [q \in {x \in DOMAIN f \union DOMAIN c : d(x) > 0} |-> d(q)]
  BY DEF Patched
<1> HIDE DEF c, p
<1>3. \A q \in DOMAIN f \union DOMAIN g : d(q) = Get(g, q, 0)
  <2> TAKE q \in DOMAIN f \union DOMAIN g
  <2>1. CASE q \in DOMAIN c
    BY <1>1, <2>1 DEF Get
  <2>2. CASE q \notin DOMAIN c
    <3>1. Get(f, q, 0) = Get(g, q, 0)
      BY <1>1, <2>2
    <3> QED BY <2>2, <3>1 DEF Get
  <2> QED BY <2>1, <2>2
<1>4. \A q \in DOMAIN g : g[q] > 0 /\ Get(g, q, 0) = g[q] /\ q \in DOMAIN f \union DOMAIN c
  <2> TAKE q \in DOMAIN g
  <2>1. g[q] > 0 /\ Get(g, q, 0) = g[q]
    BY DEF IsSide, Get
  <2>2. q \notin DOMAIN f => Get(f, q, 0) = 0
    BY DEF Get
  <2> QED BY <1>1, <2>1, <2>2
<1>5. \A q : q \notin DOMAIN g => Get(g, q, 0) = 0
  BY DEF Get
<1>6. DOMAIN c \subseteq DOMAIN f \union DOMAIN g
  BY <1>1
<1>7. {x \in DOMAIN f \union DOMAIN c : d(x) > 0} = DOMAIN g
  BY <1>3, <1>4, <1>5, <1>6
<1>8. \A q \in DOMAIN g : d(q) = g[q]
  BY <1>3, <1>4
<1> HIDE DEF d
<1>9. g = [q \in DOMAIN g |-> g[q]]
  BY DEF IsSide
<1> QED BY <1>2, <1>7, <1>8, <1>9 DEF p, c

\* Sides without a change are the same.
LEMMA NoChange ==
  ASSUME NEW f, NEW g, IsSide(f), IsSide(g), DOMAIN Changes(f, g) = {}
  PROVE  f = g
<1>1. \A q \in DOMAIN f \union DOMAIN g : Get(f, q, 0) = Get(g, q, 0)
  BY DEF Changes
<1>2. \A q \in DOMAIN f : Get(f, q, 0) = f[q] /\ f[q] # 0
  BY DEF Get, IsSide
<1>3. \A q \in DOMAIN g : Get(g, q, 0) = g[q] /\ g[q] # 0
  BY DEF Get, IsSide
<1>4. \A q : (q \notin DOMAIN f => Get(f, q, 0) = 0) /\ (q \notin DOMAIN g => Get(g, q, 0) = 0)
  BY DEF Get
<1>5. DOMAIN f = DOMAIN g
  BY <1>1, <1>2, <1>3, <1>4
<1>6. f = [q \in DOMAIN f |-> f[q]] /\ g = [q \in DOMAIN g |-> g[q]] /\ \A q \in DOMAIN f : f[q] = g[q]
  BY <1>1, <1>2, <1>3, <1>5 DEF IsSide
<1> QED BY <1>5, <1>6

-----------------------------------------------------------------------------
(* Sorting by time                                                         *)

EarlierEvents(s) == {p \in (DOMAIN s) \X (DOMAIN s) : EventLess(s[p[1]], s[p[2]])}

\* Events sorted: by their times, deltas before quotes, and else as they were.
LEMMA EventsSorted ==
  ASSUME NEW s, NEW S, NEW ev, NEW R, Lists(s, S, ev, R),
         \A x \in S : ev[x].ts \in Int /\ ev[x].type \in {"deltas", "quote"}, NEW Q,
         \A x, y \in S :
           \/ ev[x].ts < ev[y].ts
           \/ ev[x].ts = ev[y].ts /\ ev[x].type = "deltas" /\ ev[y].type = "quote"
           \/ ev[x].ts = ev[y].ts /\ ev[x].type = ev[y].type /\ <<x, y>> \in R
           => <<x, y>> \in Q
  PROVE  Lists(StableSort(s, EventLess), S, ev, Q)
<1> DEFINE less == EarlierEvents(s)
           before(i) == {j \in DOMAIN s : EventLess(s[j], s[i]) \/ (~EventLess(s[i], s[j]) /\ j < i)}
           at == [k \in 1 .. Cardinality(DOMAIN s) |-> CHOOSE i \in DOMAIN s : Cardinality(before(i)) = k - 1]
<1>1. StableSort(s, EventLess) = [k \in DOMAIN s |-> s[at[k]]]
  BY DEF StableSort, Ranked
<1>2. PICK src : Gives(s, S, ev, R, src)
  BY DEF Lists
<1>3. IsList(s) /\ Len(s) \in Nat /\ DOMAIN s = 1 .. Len(s)
  BY ListHas DEF Lists
<1>4. \A i \in 1 .. Len(s) : src[i] \in S /\ s[i] = ev[src[i]] /\ s[i].ts \in Int /\ s[i].type \in {"deltas", "quote"}
  BY <1>2 DEF Gives
<1>5. \A i, j \in 1 .. Len(s) : <<i, j>> \in less <=>
        \/ s[i].ts < s[j].ts
        \/ s[i].ts = s[j].ts /\ s[i].type = "deltas" /\ s[j].type = "quote"
  BY <1>3 DEF EarlierEvents, EventLess
<1>6. less \subseteq (DOMAIN s) \X (DOMAIN s)
  BY DEF EarlierEvents
<1>7. \A i \in DOMAIN s : Cardinality(before(i)) = RankOf(Stable(s, less), DOMAIN s, i)
  <2> TAKE i \in DOMAIN s
  <2>1. before(i) = {j \in DOMAIN s : <<j, i>> \in Stable(s, less)}
    BY DEF Stable, EarlierEvents
  <2> QED BY <2>1 DEF RankOf
<1> HIDE DEF less, before
<1>8. WeakOrder(s, less)
  <2>1. \A i, j \in 1 .. Len(s) : <<i, j>> \in less => <<j, i>> \notin less
    BY <1>4, <1>5
  <2>2. \A i, j, k \in 1 .. Len(s) : <<i, j>> \in less => <<i, k>> \in less \/ <<k, j>> \in less
    BY <1>4, <1>5
  <2> QED BY <1>3, <1>6, <2>1, <2>2 DEF WeakOrder
<1>9. \A k \in DOMAIN s : at[k] = CHOOSE i \in DOMAIN s : RankOf(Stable(s, less), DOMAIN s, i) = k - 1
  <2>1. Cardinality(DOMAIN s) = Len(s)
    <3>1. \A n \in Nat : Cardinality(1 .. n) = n
      BY FS_Interval
    <3> QED BY <1>3, <3>1
  <2> TAKE k \in DOMAIN s
  <2>2. at[k] = CHOOSE i \in DOMAIN s : Cardinality(before(i)) = k - 1
    BY <1>3, <2>1
  <2> HIDE DEF at
  <2> QED BY <1>7, <2>2
<1> HIDE DEF at
<1>10. StableSort(s, EventLess) = SortedBy(s, less)
  BY <1>1, <1>9 DEF SortedBy
<1>11. \A i, j \in 1 .. Len(s) :
         <<i, j>> \in less \/ (<<j, i>> \notin less /\ i < j) => <<src[i], src[j]>> \in Q
  <2> SUFFICES ASSUME NEW i \in 1 .. Len(s), NEW j \in 1 .. Len(s),
                      <<i, j>> \in less \/ (<<j, i>> \notin less /\ i < j)
               PROVE  <<src[i], src[j]>> \in Q
    OBVIOUS
  <2>1. CASE <<i, j>> \in less
    BY <1>4, <1>5, <2>1
  <2>2. CASE <<i, j>> \notin less /\ <<j, i>> \notin less /\ i < j
    <3>1. s[i].ts = s[j].ts /\ s[i].type = s[j].type
      BY <1>4, <1>5, <2>2
    <3>2. <<src[i], src[j]>> \in R
      BY <1>2, <2>2 DEF Gives
    <3> QED BY <1>4, <3>1, <3>2
  <2> QED BY <2>1, <2>2
<1>12. Lists(SortedBy(s, less), S, ev, Q)
  BY <1>2, <1>3, <1>8, <1>11, ListsSorted
<1> QED BY <1>10, <1>12

EarlierRows(s) == {p \in (DOMAIN s) \X (DOMAIN s) : RowEarlier(s[p[1]], s[p[2]])}

\* The places of a frame in the order of their rows
RowOrder(frame) ==
  {p \in (DOMAIN frame) \X (DOMAIN frame) :
     frame[p[1]].ts < frame[p[2]].ts \/ (frame[p[1]].ts = frame[p[2]].ts /\ p[1] < p[2])}

\* The rows of a frame that pass a test, sorted
LEMMA FrameSorted ==
  ASSUME NEW frame \in Seq(BookRows), NEW places \in SUBSET DOMAIN frame
  PROVE  /\ StableSort(Picked(frame, places), RowEarlier) \in Seq(BookRows)
         /\ Lists(StableSort(Picked(frame, places), RowEarlier), places, frame, RowOrder(frame))
<1> DEFINE s == Picked(frame, places)
           R == {p \in places \X places : p[1] < p[2]}
           less == EarlierRows(s)
           before(i) == {j \in DOMAIN s : RowEarlier(s[j], s[i]) \/ (~RowEarlier(s[i], s[j]) /\ j < i)}
           at == [k \in 1 .. Cardinality(DOMAIN s) |-> CHOOSE i \in DOMAIN s : Cardinality(before(i)) = k - 1]
<1>1. Lists(s, places, frame, R) /\ s \in Seq(BookRows)
  BY PickedLists, PickedInOrder
<1>2. StableSort(s, RowEarlier) = [k \in DOMAIN s |-> s[at[k]]]
  BY DEF StableSort, Ranked
<1>3. \A x \in places : x \in DOMAIN frame /\ x \in Int /\ frame[x].ts \in Int
  <2>1. \A r \in BookRows : r.ts \in Int
    BY DEF BookRows
  <2>2. \A x \in DOMAIN frame : x \in Int /\ frame[x] \in BookRows
    OBVIOUS
  <2> QED BY <2>1, <2>2
<1>4. \A x, y \in places : <<x, y>> \in R => x < y
  OBVIOUS
<1> HIDE DEF s, R
<1>5. PICK src : Gives(s, places, frame, R, src)
  BY <1>1 DEF Lists
<1>6. IsList(s) /\ Len(s) \in Nat /\ DOMAIN s = 1 .. Len(s)
  BY <1>1, ListHas DEF Lists
<1>7. \A i \in 1 .. Len(s) : src[i] \in places /\ s[i] = frame[src[i]] /\ s[i].ts \in Int
  BY <1>3, <1>5 DEF Gives
<1>8. \A i, j \in 1 .. Len(s) : <<i, j>> \in less <=> s[i].ts < s[j].ts
  BY <1>6 DEF EarlierRows, RowEarlier
<1>9. less \subseteq (DOMAIN s) \X (DOMAIN s)
  BY DEF EarlierRows
<1>10. \A i \in DOMAIN s : Cardinality(before(i)) = RankOf(Stable(s, less), DOMAIN s, i)
  <2> TAKE i \in DOMAIN s
  <2>1. before(i) = {j \in DOMAIN s : <<j, i>> \in Stable(s, less)}
    BY DEF Stable, EarlierRows
  <2> QED BY <2>1 DEF RankOf
<1> HIDE DEF less, before
<1>11. WeakOrder(s, less)
  <2>1. \A i, j \in 1 .. Len(s) : <<i, j>> \in less => <<j, i>> \notin less
    BY <1>7, <1>8
  <2>2. \A i, j, k \in 1 .. Len(s) : <<i, j>> \in less => <<i, k>> \in less \/ <<k, j>> \in less
    BY <1>7, <1>8
  <2> QED BY <1>6, <1>9, <2>1, <2>2 DEF WeakOrder
<1>12. \A k \in DOMAIN s : at[k] = CHOOSE i \in DOMAIN s : RankOf(Stable(s, less), DOMAIN s, i) = k - 1
  <2>1. Cardinality(DOMAIN s) = Len(s)
    <3>1. \A n \in Nat : Cardinality(1 .. n) = n
      BY FS_Interval
    <3> QED BY <1>6, <3>1
  <2> TAKE k \in DOMAIN s
  <2>2. at[k] = CHOOSE i \in DOMAIN s : Cardinality(before(i)) = k - 1
    BY <1>6, <2>1
  <2> HIDE DEF at
  <2> QED BY <1>10, <2>2
<1> HIDE DEF at
<1>13. StableSort(s, RowEarlier) = SortedBy(s, less)
  BY <1>2, <1>12 DEF SortedBy
<1>14. \A i, j \in 1 .. Len(s) :
         <<i, j>> \in less \/ (<<j, i>> \notin less /\ i < j) => <<src[i], src[j]>> \in RowOrder(frame)
  <2> SUFFICES ASSUME NEW i \in 1 .. Len(s), NEW j \in 1 .. Len(s),
                      <<i, j>> \in less \/ (<<j, i>> \notin less /\ i < j)
               PROVE  <<src[i], src[j]>> \in RowOrder(frame)
    OBVIOUS
  <2>1. CASE <<i, j>> \in less
    BY <1>3, <1>7, <1>8, <2>1 DEF RowOrder
  <2>2. CASE <<i, j>> \notin less /\ <<j, i>> \notin less /\ i < j
    <3>1. s[i].ts = s[j].ts
      BY <1>7, <1>8, <2>2
    <3>2. <<src[i], src[j]>> \in R
      BY <1>5, <2>2 DEF Gives
    <3>3. src[i] < src[j]
      BY <1>4, <1>7, <3>2
    <3> QED BY <1>3, <1>7, <3>1, <3>3 DEF RowOrder
  <2> QED BY <2>1, <2>2
<1>15. Lists(SortedBy(s, less), places, frame, RowOrder(frame))
  BY <1>5, <1>6, <1>11, <1>14, ListsSorted
<1>16. SortedBy(s, less) \in Seq(BookRows)
  <2>1. PICK q : Sorts(SortedBy(s, less), s, less, q)
    BY <1>6, <1>11, SortedBySorts
  <2>2. SortedBy(s, less) = [k \in 1 .. Len(s) |-> s[q[k]]] /\ \A k \in 1 .. Len(s) : s[q[k]] \in BookRows
    BY <1>1, <1>6, <2>1 DEF Sorts
  <2> QED BY <1>6, <2>2
<1> QED BY <1>13, <1>15, <1>16 DEF s

\* They come by their times.
LEMMA RowsRise ==
  ASSUME NEW frame \in Seq(BookRows), NEW places \in SUBSET DOMAIN frame, NEW rows, rows \in Seq(BookRows),
         Lists(rows, places, frame, RowOrder(frame))
  PROVE  \A i, j \in 1 .. Len(rows) : i <= j => rows[i].ts <= rows[j].ts
<1>1. PICK src : Gives(rows, places, frame, RowOrder(frame), src)
  BY DEF Lists
<1>2. \A r \in BookRows : r.ts \in Int
  BY DEF BookRows
<1>3. \A i \in 1 .. Len(rows) : rows[i].ts \in Int /\ rows[i].ts = frame[src[i]].ts
  BY <1>1, <1>2 DEF Gives
<1>4. \A x, y \in places : <<x, y>> \in RowOrder(frame) => frame[x].ts < frame[y].ts \/ frame[x].ts = frame[y].ts
  BY DEF RowOrder
<1> SUFFICES ASSUME NEW i \in 1 .. Len(rows), NEW j \in 1 .. Len(rows), i <= j PROVE rows[i].ts <= rows[j].ts
  OBVIOUS
<1>5. CASE i < j
  <2>1. <<src[i], src[j]>> \in RowOrder(frame) /\ src[i] \in places /\ src[j] \in places
    BY <1>1, <1>5 DEF Gives
  <2> QED BY <1>3, <1>4, <2>1
<1> QED BY <1>3, <1>5

-----------------------------------------------------------------------------
(* The events of a day                                                     *)

BidsOf(row) == BookLevels(row.bids, "bid")
AsksOf(row) == BookLevels(row.asks, "ask")
BookOf(row) == [bids |-> SideMap(BidsOf(row)), asks |-> SideMap(AsksOf(row))]

\* A row of the window with levels, up to the k-th
Emitted(rows, start, k) ==
  \E j \in 1 .. k : ~(rows[j].ts < start) /\ (BidsOf(rows[j]) # <<>> \/ AsksOf(rows[j]) # <<>>)

DeltasAt(rows, start, k) ==
  IF Emitted(rows, start, k - 1)
  THEN Diff(rows[k].ts, BookOf(rows[k - 1]), SideMap(BidsOf(rows[k])), SideMap(AsksOf(rows[k])))
  ELSE Snapshot(rows[k].ts, BidsOf(rows[k]), AsksOf(rows[k]))

QuoteAt(rows, k) == QuoteOf(rows[k].ts, BidsOf(rows[k]), AsksOf(rows[k]))

\* The states that BookEvents goes through
DayStates(f, rows, start, m) ==
  f = [n \in 0 .. m |-> IF n = 0 THEN [previous |-> NoBook, emitted |-> FALSE, events |-> <<>>]
                        ELSE RowEvents(f[n - 1], rows[n], start)]

\* They exist: if not all of them did, a first one would not.
LEMMA DayStatesExist ==
  ASSUME NEW rows, NEW start, NEW m \in Nat
  PROVE  \E f : DayStates(f, rows, start, m)
<1> DEFINE None0 == [previous |-> NoBook, emitted |-> FALSE, events |-> <<>>]
           Good == {n \in 0 .. m : \E f : DayStates(f, rows, start, n)}
<1>1. 0 \in Good
  <2> DEFINE f == [n \in 0 .. 0 |-> None0]
  <2>1. f = [n \in 0 .. 0 |-> IF n = 0 THEN None0 ELSE RowEvents(f[n - 1], rows[n], start)]
    OBVIOUS
  <2>2. DayStates(f, rows, start, 0)
    BY <2>1 DEF DayStates
  <2> QED BY <2>2
<1>2. ASSUME NEW n \in 1 .. m, n - 1 \in Good PROVE n \in Good
  <2>1. PICK f : DayStates(f, rows, start, n - 1)
    BY <1>2
  <2> DEFINE k == n - 1
             new == RowEvents(f[k], rows[n], start)
             g == [i \in 0 .. n |-> IF i = n THEN new ELSE f[i]]
  <2>2. k \in Nat /\ n \in Nat /\ n # 0 /\ n \in 0 .. n /\ k \in 0 .. n /\ k # n /\ \A i \in 0 .. n : i # n => i \in 0 .. k
    OBVIOUS
  <2>3. \A i \in 0 .. k : f[i] = IF i = 0 THEN None0 ELSE RowEvents(f[i - 1], rows[i], start)
    BY <2>1 DEF DayStates
  <2>4. \A i \in 0 .. n : g[i] = IF i = 0 THEN None0 ELSE RowEvents(g[i - 1], rows[i], start)
    <3> TAKE i \in 0 .. n
    <3>1. CASE i = n
      <4>1. g[i] = new /\ g[i - 1] = f[k]
        BY <2>2, <3>1
      <4> QED BY <2>2, <3>1, <4>1
    <3>2. CASE i # n
      <4>1. i \in 0 .. k /\ g[i] = f[i]
        BY <2>2, <3>2
      <4>2. i # 0 => i - 1 \in 0 .. n /\ i - 1 # n /\ g[i - 1] = f[i - 1]
        BY <3>2
      <4> QED BY <2>3, <4>1, <4>2
    <3> QED BY <3>1, <3>2
  <2> HIDE DEF None0, new
  <2>5. g = [i \in 0 .. n |-> g[i]]
    OBVIOUS
  <2> HIDE DEF g
  <2>6. g = [i \in 0 .. n |-> IF i = 0 THEN None0 ELSE RowEvents(g[i - 1], rows[i], start)]
    BY <2>4, <2>5
  <2>7. DayStates(g, rows, start, n)
    BY <2>6 DEF DayStates, None0
  <2> QED BY <2>2, <2>7
<1>3. \A n \in 0 .. m : n \in Good
  <2> HIDE DEF Good
  <2> QED BY <1>1, <1>2, UpTo
<1> QED BY <1>3

\* Each row adds its deltas and its quote, unless it comes before the window.
LEMMA DayStateAt ==
  ASSUME NEW rows, NEW start, NEW m \in Nat, NEW f, DayStates(f, rows, start, m)
  PROVE  /\ f[0].events = <<>>
         /\ \A n \in 1 .. m :
              f[n].events = IF rows[n].ts < start THEN f[n - 1].events
                            ELSE f[n - 1].events \o DeltasAt(rows, start, n) \o QuoteAt(rows, n)
<1> DEFINE Is(n) == /\ DOMAIN f[n] = {"previous", "emitted", "events"}
                    /\ f[n].emitted <=> Emitted(rows, start, n)
                    /\ n # 0 => f[n].previous = BookOf(rows[n])
           Good == {n \in 0 .. m : Is(n)}
<1>1. \A n \in 0 .. m : f[n] = IF n = 0 THEN [previous |-> NoBook, emitted |-> FALSE, events |-> <<>>]
                               ELSE RowEvents(f[n - 1], rows[n], start)
  BY DEF DayStates
<1>2. f[0] = [previous |-> NoBook, emitted |-> FALSE, events |-> <<>>]
  <2> DEFINE first == [previous |-> NoBook, emitted |-> FALSE, events |-> <<>>]
  <2> HIDE DEF first
  <2>1. \A n \in 0 .. m : n = 0 => f[n] = first
    BY <1>1 DEF first
  <2>2. 0 \in 0 .. m
    OBVIOUS
  <2> QED BY <2>1, <2>2 DEF first
<1>3. 0 \in Good
  BY <1>2 DEF Emitted
<1>4. ASSUME NEW n \in 1 .. m, n - 1 \in Good
      PROVE  /\ n \in Good
             /\ f[n].events = IF rows[n].ts < start THEN f[n - 1].events
                              ELSE f[n - 1].events \o DeltasAt(rows, start, n) \o QuoteAt(rows, n)
  <2> DEFINE p == f[n - 1]
             row == rows[n]
  <2>1. /\ DOMAIN p = {"previous", "emitted", "events"} /\ (p.emitted <=> Emitted(rows, start, n - 1))
        /\ f[n] = RowEvents(p, row, start) /\ n \in 0 .. m /\ n # 0
    BY <1>1, <1>4
  <2>2. Emitted(rows, start, n) <=>
          Emitted(rows, start, n - 1) \/ (~(row.ts < start) /\ (BidsOf(row) # <<>> \/ AsksOf(row) # <<>>))
    <3>1. \A j : j \in 1 .. n <=> j \in 1 .. n - 1 \/ j = n
      OBVIOUS
    <3> QED BY <3>1 DEF Emitted
  <2>3. CASE row.ts < start
    <3>1. f[n] = [p EXCEPT !.previous = BookOf(row)]
      BY <2>1, <2>3 DEF RowEvents, BookOf, BidsOf, AsksOf
    <3> HIDE DEF p
    <3>2. /\ DOMAIN f[n] = DOMAIN p /\ f[n].previous = BookOf(row) /\ f[n].emitted = p.emitted
          /\ f[n].events = p.events
      BY <2>1, <3>1
    <3> QED BY <2>1, <2>2, <2>3, <3>2 DEF p
  <2>4. CASE ~(row.ts < start)
    <3> DEFINE deltas == IF p.emitted THEN Diff(row.ts, p.previous, SideMap(BidsOf(row)), SideMap(AsksOf(row)))
                         ELSE Snapshot(row.ts, BidsOf(row), AsksOf(row))
               quote == QuoteOf(row.ts, BidsOf(row), AsksOf(row))
    <3>1. f[n] = [previous |-> BookOf(row), emitted |-> p.emitted \/ deltas # <<>>, events |-> p.events \o deltas \o quote]
      BY <2>1, <2>4 DEF RowEvents, BookOf, BidsOf, AsksOf
    <3>2. deltas = DeltasAt(rows, start, n)
      <4>1. CASE p.emitted
        <5>1. n - 1 # 0
          BY <2>1, <4>1 DEF Emitted
        <5>2. p.previous = BookOf(rows[n - 1])
          BY <1>4, <5>1
        <5> QED BY <2>1, <4>1, <5>2 DEF DeltasAt
      <4>2. CASE ~p.emitted
        BY <2>1, <4>2 DEF DeltasAt
      <4> QED BY <4>1, <4>2
    <3>3. ~p.emitted => (deltas # <<>> <=> (BidsOf(row) # <<>> \/ AsksOf(row) # <<>>))
      BY DEF Snapshot
    <3>4. quote = QuoteAt(rows, n)
      BY DEF QuoteAt
    <3> HIDE DEF deltas, quote, p, row
    <3>5. DOMAIN f[n] = {"previous", "emitted", "events"} /\ f[n].previous = BookOf(row) /\ f[n].events = p.events \o deltas \o quote
      BY <3>1
    <3>6. f[n].emitted <=> p.emitted \/ deltas # <<>>
      <4> DEFINE e == p.emitted \/ deltas # <<>>
      <4> HIDE DEF e
      <4>1. f[n] = [previous |-> BookOf(row), emitted |-> e, events |-> p.events \o deltas \o quote]
        BY <3>1 DEF e
      <4> DEFINE r == [previous |-> BookOf(row), emitted |-> e, events |-> p.events \o deltas \o quote]
      <4>2. r.emitted = e
        <5> HIDE DEF r
        <5>1. \A a, b, c : [previous |-> a, emitted |-> b, events |-> c].emitted = b
          BY Zenon
        <5> QED BY <5>1, Zenon DEF r
      <4>3. f[n] = r
        BY <4>1
      <4> HIDE DEF r
      <4>4. f[n].emitted = r.emitted
        BY <4>3, Zenon
      <4>5. f[n].emitted = e
        BY <4>2, <4>4, Zenon
      <4> QED BY <4>5 DEF e
    <3>7. f[n].emitted <=> Emitted(rows, start, n)
      BY <2>1, <2>2, <2>4, <3>3, <3>6
    <3> QED BY <2>1, <2>4, <3>2, <3>4, <3>5, <3>7 DEF p, row
  <2> QED BY <2>3, <2>4
<1>5. \A n \in 0 .. m : n \in Good
  <2>1. \A n \in 1 .. m : n - 1 \in Good => n \in Good
    BY <1>4
  <2> HIDE DEF Good
  <2> QED BY <1>3, <2>1, UpTo
<1>6. \A n \in 1 .. m : n - 1 \in 0 .. m
  OBVIOUS
<1> QED BY <1>2, <1>4, <1>5, <1>6

\* Where an event comes from: a day, a row of the day, and whether it is the row's deltas or
\* its quote.
Source(d, k, kind) == [day |-> d, row |-> k, kind |-> kind]

Piece(rows, start, x) == IF x.kind = "deltas" THEN DeltasAt(rows, start, x.row) ELSE QuoteAt(rows, x.row)

DaySources(rows, start, d, m) ==
  {x \in [day : {d}, row : 1 .. m, kind : {"deltas", "quote"}] :
     ~(rows[x.row].ts < start) /\ Piece(rows, start, x) # <<>>}

\* An event has the time of its row.
LEMMA PieceIs ==
  ASSUME NEW rows, NEW start, NEW x, x.kind \in {"deltas", "quote"}, Piece(rows, start, x) # <<>>
  PROVE  /\ Piece(rows, start, x) = <<Piece(rows, start, x)[1]>>
         /\ Piece(rows, start, x)[1].ts = rows[x.row].ts /\ Piece(rows, start, x)[1].type = x.kind
<1> DEFINE k == x.row
           row == rows[k]
<1>1. \A ts, bids, asks : Snapshot(ts, bids, asks) # <<>> =>
        /\ Snapshot(ts, bids, asks) = <<Deltas(ts, TRUE, SideMap(bids), SideMap(asks))>>
  BY DEF Snapshot
<1>2. \A ts, previous, bids, asks : Diff(ts, previous, bids, asks) # <<>> =>
        Diff(ts, previous, bids, asks) = <<Deltas(ts, FALSE, Changes(previous.bids, bids), Changes(previous.asks, asks))>>
  BY DEF Diff
<1>3. \A ts, bids, asks : QuoteOf(ts, bids, asks) # <<>> =>
        QuoteOf(ts, bids, asks) = <<Quote(ts, Last(bids).price, Last(asks).price)>>
  BY DEF QuoteOf
<1>4. \A ts, clear, bids, asks : Deltas(ts, clear, bids, asks).ts = ts /\ Deltas(ts, clear, bids, asks).type = "deltas"
  BY DEF Deltas
<1>5. \A ts, bid, ask : Quote(ts, bid, ask).ts = ts /\ Quote(ts, bid, ask).type = "quote"
  BY DEF Quote
<1>6. \A e : <<e>>[1] = e
  OBVIOUS
<1>7. CASE x.kind = "deltas"
  <2>1. Piece(rows, start, x) = DeltasAt(rows, start, k)
    BY <1>7 DEF Piece
  <2>2. \E clear, bids, asks : DeltasAt(rows, start, k) = <<Deltas(row.ts, clear, bids, asks)>>
    <3> DEFINE p == BookOf(rows[k - 1])
               b == SideMap(BidsOf(row))
               a == SideMap(AsksOf(row))
               bs == BidsOf(row)
               as == AsksOf(row)
    <3>0. DeltasAt(rows, start, k) = IF Emitted(rows, start, k - 1) THEN Diff(row.ts, p, b, a) ELSE Snapshot(row.ts, bs, as)
      BY DEF DeltasAt
    <3> HIDE DEF p, b, a, bs, as, row
    <3>1. CASE Emitted(rows, start, k - 1)
      <4>1. DeltasAt(rows, start, k) = <<Deltas(row.ts, FALSE, Changes(p.bids, b), Changes(p.asks, a))>>
        BY <1>2, <2>1, <3>0, <3>1
      <4> QED BY <4>1
    <3>2. CASE ~Emitted(rows, start, k - 1)
      <4>1. DeltasAt(rows, start, k) = <<Deltas(row.ts, TRUE, SideMap(bs), SideMap(as))>>
        BY <1>1, <2>1, <3>0, <3>2
      <4> QED BY <4>1
    <3> QED BY <3>1, <3>2
  <2>3. PICK clear, bids, asks : DeltasAt(rows, start, k) = <<Deltas(row.ts, clear, bids, asks)>>
    BY <2>2
  <2> HIDE DEF row
  <2>4. Piece(rows, start, x)[1] = Deltas(row.ts, clear, bids, asks)
    BY <1>6, <2>1, <2>3
  <2> QED BY <1>4, <1>7, <2>1, <2>3, <2>4 DEF row
<1>8. CASE x.kind = "quote"
  <2>1. Piece(rows, start, x) = QuoteAt(rows, k)
    BY <1>8 DEF Piece
  <2>2. QuoteAt(rows, k) = <<Quote(row.ts, Last(BidsOf(row)).price, Last(AsksOf(row)).price)>>
    BY <1>3, <2>1 DEF QuoteAt
  <2> HIDE DEF row
  <2>3. Piece(rows, start, x)[1] = Quote(row.ts, Last(BidsOf(row)).price, Last(AsksOf(row)).price)
    BY <1>6, <2>1, <2>2
  <2> QED BY <1>5, <1>8, <2>1, <2>2, <2>3 DEF row
<1> QED BY <1>7, <1>8

\* The events up to a row are those of its sources, row by row, the deltas first.
LEMMA DayListed ==
  ASSUME NEW rows, NEW start, NEW d, NEW m \in Nat, NEW f, DayStates(f, rows, start, m), NEW ev, NEW R,
         \A x \in DaySources(rows, start, d, m) : ev[x] = Piece(rows, start, x)[1],
         \A x, y \in DaySources(rows, start, d, m) :
           x.row < y.row \/ (x.row = y.row /\ x.kind = "deltas" /\ y.kind = "quote") => <<x, y>> \in R
  PROVE  Lists(f[m].events, DaySources(rows, start, d, m), ev, R)
<1> DEFINE S(n) == DaySources(rows, start, d, n)
           All == DaySources(rows, start, d, m)
           Good == {n \in 0 .. m : Lists(f[n].events, S(n), ev, R)}
<1>1. 0 \in Good
  <2>1. S(0) = {}
    BY DEF DaySources
  <2>2. f[0].events = <<>>
    BY DayStateAt
  <2>4. 0 \in 0 .. m
    OBVIOUS
  <2>3. Lists(<<>>, {}, ev, R)
    BY NothingListed
  <2> HIDE DEF S
  <2> QED BY <2>1, <2>2, <2>3, <2>4
<1>2. ASSUME NEW n \in 1 .. m, n - 1 \in Good PROVE n \in Good
  <2> DEFINE T(kind) == {x \in S(n) : x.row = n /\ x.kind = kind}
             x(kind) == Source(d, n, kind)
             P(kind) == Piece(rows, start, x(kind))
  <2>1. /\ S(n) = (S(n - 1) \union T("deltas")) \union T("quote")
        /\ S(n - 1) \subseteq S(n) /\ S(n) \subseteq All
        /\ \A y \in S(n - 1) : y.row < n
    <3>1. /\ \A j : j \in 1 .. n - 1 => j \in 1 .. n /\ j < n
          /\ \A j : j \in 1 .. n => j \in 1 .. m
          /\ \A j \in 1 .. n : j = n \/ j \in 1 .. n - 1
      OBVIOUS
    <3> QED BY <3>1 DEF DaySources
  <2>2. \A kind \in {"deltas", "quote"} :
          /\ rows[n].ts < start \/ P(kind) = <<>> => T(kind) = {}
          /\ ~(rows[n].ts < start) /\ P(kind) # <<>> => T(kind) = {x(kind)} /\ x(kind) \in All
    <3> TAKE kind \in {"deltas", "quote"}
    <3>1. x(kind).day = d /\ x(kind).row = n /\ x(kind).kind = kind /\ x(kind) \in [day : {d}, row : 1 .. n, kind : {"deltas", "quote"}]
      BY DEF Source
    <3>2. \A y \in T(kind) : y = x(kind)
      BY DEF DaySources, Source
    <3>3. \A y \in T(kind) : ~(rows[n].ts < start) /\ P(kind) # <<>>
      <4> TAKE y \in T(kind)
      <4>1. y = x(kind) /\ ~(rows[y.row].ts < start) /\ Piece(rows, start, y) # <<>> /\ y.row = n
        BY <3>2 DEF DaySources
      <4> QED BY <4>1
    <3>4. ~(rows[n].ts < start) /\ P(kind) # <<>> => x(kind) \in T(kind)
      <4> HIDE DEF x
      <4> QED BY <3>1 DEF DaySources
    <3> HIDE DEF P, x, T, S
    <3> QED BY <2>1, <3>2, <3>3, <3>4 DEF T
  <2>3. \A kind \in {"deltas", "quote"} :
          ~(rows[n].ts < start) => Lists(P(kind), T(kind), ev, R)
    <3> SUFFICES ASSUME NEW kind \in {"deltas", "quote"}, ~(rows[n].ts < start) PROVE Lists(P(kind), T(kind), ev, R)
      OBVIOUS
    <3>1. CASE P(kind) = <<>>
      <4>1. T(kind) = {}
        BY <2>2, <3>1
      <4> HIDE DEF P, T
      <4> QED BY <3>1, <4>1, NothingListed
    <3>2. CASE P(kind) # <<>>
      <4>1. T(kind) = {x(kind)} /\ x(kind) \in All
        BY <2>2, <3>2
      <4>2. x(kind).kind = kind
        BY DEF Source
      <4> HIDE DEF x
      <4>3. P(kind) = <<P(kind)[1]>> /\ P(kind)[1] = ev[x(kind)]
        BY <3>2, <4>1, <4>2, PieceIs
      <4> HIDE DEF P, T
      <4>4. Lists(<<P(kind)[1]>>, {x(kind)}, ev, R)
        BY <4>3, OneListed
      <4> QED BY <4>1, <4>3, <4>4
    <3> QED BY <3>1, <3>2
  <2>4. P("deltas") = DeltasAt(rows, start, n) /\ P("quote") = QuoteAt(rows, n)
    BY DEF Piece, Source
  <2>5. f[n].events = IF rows[n].ts < start THEN f[n - 1].events
                      ELSE f[n - 1].events \o DeltasAt(rows, start, n) \o QuoteAt(rows, n)
    BY DayStateAt
  <2>6. Lists(f[n - 1].events, S(n - 1), ev, R)
    BY <1>2
  <2>7. \A kind \in {"deltas", "quote"} : \A z \in T(kind) : z.row = n /\ z.kind = kind /\ z \in All
    BY <2>1
  <2>8. CASE rows[n].ts < start
    <3>1. T("deltas") = {} /\ T("quote") = {}
      BY <2>2, <2>8
    <3> HIDE DEF S, T
    <3>2. S(n) = S(n - 1)
      BY <2>1, <3>1
    <3>3. Lists(f[n].events, S(n), ev, R)
      BY <2>5, <2>6, <2>8, <3>2
    <3> QED BY <3>3 DEF S
  <2>9. CASE ~(rows[n].ts < start)
    <3> HIDE DEF P, T, S
    <3>1. \A y \in S(n - 1), z \in T("deltas") : <<y, z>> \in R
      <4> TAKE y \in S(n - 1), z \in T("deltas")
      <4>1. y \in All /\ z \in All /\ y.row < z.row
        BY <2>1, <2>7
      <4> QED BY <4>1
    <3>2. \A y \in S(n - 1) \union T("deltas"), z \in T("quote") : <<y, z>> \in R
      <4> TAKE y \in S(n - 1) \union T("deltas"), z \in T("quote")
      <4>1. y \in All /\ z \in All /\ (y.row < z.row \/ (y.row = z.row /\ y.kind = "deltas" /\ z.kind = "quote"))
        BY <2>1, <2>7
      <4> QED BY <4>1
    <3>3. Lists(P("deltas"), T("deltas"), ev, R) /\ Lists(P("quote"), T("quote"), ev, R)
      BY <2>3, <2>9
    <3>4. Lists(f[n - 1].events \o P("deltas"), S(n - 1) \union T("deltas"), ev, R)
      BY <2>6, <3>1, <3>3, ListsJoin
    <3>5. Lists((f[n - 1].events \o P("deltas")) \o P("quote"), (S(n - 1) \union T("deltas")) \union T("quote"), ev, R)
      BY <3>2, <3>3, <3>4, ListsJoin
    <3>6. Lists(f[n].events, S(n), ev, R)
      BY <2>1, <2>4, <2>5, <2>9, <3>5
    <3> QED BY <3>6 DEF S
  <2> QED BY <2>8, <2>9
<1>3. \A n \in 0 .. m : n \in Good
  <2> HIDE DEF Good
  <2> QED BY <1>1, <1>2, UpTo
<1> QED BY <1>3

-----------------------------------------------------------------------------
(* The records of a window                                                 *)

RowsTill(frame, end) == StableSort(Picked(frame, {i \in DOMAIN frame : frame[i].ts <= end}), RowEarlier)

\* They are rows of the frame until then.
LEMMA RowsUntilEnd ==
  ASSUME NEW frame \in Seq(BookRows), NEW end
  PROVE  /\ RowsTill(frame, end) \in Seq(BookRows)
         /\ Lists(RowsTill(frame, end), {i \in DOMAIN frame : frame[i].ts <= end}, frame, RowOrder(frame))
         /\ \A k \in 1 .. Len(RowsTill(frame, end)) :
              RowsTill(frame, end)[k].ts \in Int /\ RowsTill(frame, end)[k].ts <= end
<1> DEFINE places == {i \in DOMAIN frame : frame[i].ts <= end}
           rows == RowsTill(frame, end)
<1>1. rows \in Seq(BookRows) /\ Lists(rows, places, frame, RowOrder(frame))
  <2>1. places \in SUBSET DOMAIN frame /\ rows = StableSort(Picked(frame, places), RowEarlier)
    BY DEF RowsTill
  <2> HIDE DEF places, rows
  <2> QED BY <2>1, FrameSorted
<1>2. PICK src : Gives(rows, places, frame, RowOrder(frame), src)
  BY <1>1 DEF Lists
<1>3. \A r \in BookRows : r.ts \in Int
  BY DEF BookRows
<1> HIDE DEF rows
<1>4. \A k \in 1 .. Len(rows) : rows[k] \in BookRows /\ src[k] \in places /\ rows[k] = frame[src[k]]
  BY <1>1, <1>2 DEF Gives
<1>5. \A k \in 1 .. Len(rows) : rows[k].ts \in Int /\ rows[k].ts <= end
  BY <1>3, <1>4
<1> QED BY <1>1, <1>5 DEF rows

DateAt(d) == DayOf(FeedStart, DayLength) + d - 1
From(d) == DayWindow(DateAt(d), FeedStart, FeedEnd, DayLength).from
Until(d) == DayWindow(DateAt(d), FeedStart, FeedEnd, DayLength).to
Days == Len(DateRange(FeedStart, FeedEnd, DayLength))

DayRows(frames, d) == RowsTill(frames[d], Until(d))
SourcesOf(frames, d) == DaySources(DayRows(frames, d), From(d), d, Len(DayRows(frames, d)))
SourcesTo(frames, n) == UNION {SourcesOf(frames, d) : d \in 1 .. n}
TimeOf(frames, x) == DayRows(frames, x.day)[x.row].ts

EventOf(frames) == [x \in SourcesTo(frames, Days) |-> Piece(DayRows(frames, x.day), From(x.day), x)[1]]

\* The order of the records: by time, deltas before quotes, and by row.
Follows(frames) ==
  {p \in SourcesTo(frames, Days) \X SourcesTo(frames, Days) :
     \/ TimeOf(frames, p[1]) < TimeOf(frames, p[2])
     \/ TimeOf(frames, p[1]) = TimeOf(frames, p[2]) /\ p[1].kind = "deltas" /\ p[2].kind = "quote"
     \/ TimeOf(frames, p[1]) = TimeOf(frames, p[2]) /\ p[1].kind = p[2].kind /\ p[1].row < p[2].row}

\* The days of the window are as many numbers.
LEMMA DaysCount ==
  /\ DOMAIN DateRange(FeedStart, FeedEnd, DayLength) = 1 .. DayOf(FeedEnd, DayLength) - DayOf(FeedStart, DayLength) + 1
  /\ DayOf(FeedEnd, DayLength) \in Int /\ DayOf(FeedStart, DayLength) \in Int
  /\ Days \in Nat /\ DOMAIN DateRange(FeedStart, FeedEnd, DayLength) = 1 .. Days
  /\ \A d \in 1 .. Days : DateRange(FeedStart, FeedEnd, DayLength)[d] = DateAt(d)
<1> DEFINE a == DayOf(FeedStart, DayLength)
           b == DayOf(FeedEnd, DayLength)
           n == IF b - a + 1 >= 0 THEN b - a + 1 ELSE 0
           s == DateRange(FeedStart, FeedEnd, DayLength)
<1>1. a \in Int /\ b \in Int
  BY FeedAssumption DEF DayOf
<1>2. s = [i \in 1 .. b - a + 1 |-> a + i - 1]
  BY DEF DateRange
<1> HIDE DEF a, b, s
<1>3. n \in Nat /\ 1 .. b - a + 1 = 1 .. n
  BY <1>1
<1> HIDE DEF n
<1>4. s \in Seq(Int) /\ Len(s) = n /\ DOMAIN s = 1 .. n
  <2>1. s = [i \in 1 .. n |-> a + i - 1] /\ \A i \in 1 .. n : a + i - 1 \in Int
    BY <1>1, <1>2, <1>3
  <2> QED BY <1>3, <2>1
<1>5. \A d \in 1 .. n : s[d] = a + d - 1
  BY <1>2, <1>3
<1> QED BY <1>1, <1>2, <1>3, <1>4, <1>5 DEF a, b, s, n, Days, DateAt

\* A day ends before a later one begins.
LEMMA DaysApart ==
  \A a, b \in Int : \A l \in Nat \ {0} : a < b => a * l + l - 1 < b * l
<1> SUFFICES ASSUME NEW a \in Int, NEW b \in Int, NEW l \in Nat \ {0}, a < b PROVE a * l + l - 1 < b * l
  OBVIOUS
<1> DEFINE c == b - a - 1
<1>1. c \in Nat /\ b = a + 1 + c
  OBVIOUS
<1> HIDE DEF c
<1>2. (a + 1 + c) * l = a * l + l + c * l /\ c * l >= 0 /\ a * l \in Int /\ c * l \in Int
  BY <1>1
<1> QED BY <1>1, <1>2

\* The windows of different days are apart, and what is in one has its date.
LEMMA WindowsApart ==
  /\ \A d \in Int : From(d) \in Int /\ Until(d) \in Int
  /\ \A d, e \in Int : d < e => Until(d) < From(e)
  /\ \A d, t \in Int : From(d) <= t /\ t <= Until(d) => DayOf(t, DayLength) = DateAt(d)
<1> DEFINE first(d) == DateAt(d) * DayLength
<1>1. DayLength \in Nat \ {0} /\ DayLength \in Int
  BY FeedAssumption
<1>2. \A d \in Int : DateAt(d) \in Int
  BY DaysCount DEF DateAt
<1>3. \A d \in Int : first(d) \in Int
  BY <1>1, <1>2
<1>4. \A d \in Int : /\ From(d) = IF FeedStart > first(d) THEN FeedStart ELSE first(d)
                     /\ Until(d) = IF FeedEnd < first(d) + DayLength - 1 THEN FeedEnd ELSE first(d) + DayLength - 1
  BY DEF From, Until, DayWindow
<1>5. \A d, e \in Int : d < e => first(d) + DayLength - 1 < first(e)
  <2> SUFFICES ASSUME NEW d \in Int, NEW e \in Int, d < e PROVE first(d) + DayLength - 1 < first(e)
    OBVIOUS
  <2>1. DateAt(d) < DateAt(e)
    BY DaysCount DEF DateAt
  <2> QED BY <1>1, <1>2, <2>1, DaysApart
<1>6. \A d, t \in Int : first(d) <= t /\ t <= first(d) + DayLength - 1 => DayOf(t, DayLength) = DateAt(d)
  <2> SUFFICES ASSUME NEW d \in Int, NEW t \in Int, first(d) <= t, t <= first(d) + DayLength - 1
               PROVE  DayOf(t, DayLength) = DateAt(d)
    OBVIOUS
  <2> DEFINE q == t \div DayLength
             a == DateAt(d)
  <2>1. q \in Int /\ q * DayLength <= t /\ t <= q * DayLength + DayLength - 1 /\ q * DayLength \in Int
    <3>1. q \in Int /\ t = DayLength * q + (t % DayLength) /\ t % DayLength \in 0 .. DayLength - 1
      BY <1>1
    <3> HIDE DEF q
    <3>2. DayLength * q = q * DayLength /\ q * DayLength \in Int
      BY <1>1, <3>1
    <3> QED BY <1>1, <3>1, <3>2
  <2>2. a \in Int /\ a * DayLength <= t /\ t <= a * DayLength + DayLength - 1 /\ a * DayLength \in Int
    BY <1>2, <1>3
  <2> HIDE DEF q, a
  <2>3. ~(q < a)
    <3> SUFFICES ASSUME q < a PROVE FALSE
      OBVIOUS
    <3>1. q * DayLength + DayLength - 1 < a * DayLength
      BY <1>1, <2>1, <2>2, DaysApart
    <3> QED BY <1>1, <2>1, <2>2, <3>1
  <2>4. ~(a < q)
    <3> SUFFICES ASSUME a < q PROVE FALSE
      OBVIOUS
    <3>1. a * DayLength + DayLength - 1 < q * DayLength
      BY <1>1, <2>1, <2>2, DaysApart
    <3> QED BY <1>1, <2>1, <2>2, <3>1
  <2>5. q = a
    BY <2>1, <2>2, <2>3, <2>4
  <2> QED BY <2>5 DEF DayOf, q, a
<1> HIDE DEF first
<1>7. FeedStart \in Int /\ FeedEnd \in Int
  BY FeedAssumption
<1>8. \A d \in Int : From(d) \in Int /\ Until(d) \in Int
  <2> SUFFICES ASSUME NEW d \in Int PROVE From(d) \in Int /\ Until(d) \in Int
    OBVIOUS
  <2>1. first(d) \in Int
    BY <1>3
  <2> QED BY <1>1, <1>4, <1>7, <2>1
<1>9. \A d, e \in Int : d < e => Until(d) < From(e)
  <2> SUFFICES ASSUME NEW d \in Int, NEW e \in Int, d < e PROVE Until(d) < From(e)
    OBVIOUS
  <2>1. first(d) \in Int /\ first(e) \in Int /\ first(d) + DayLength - 1 < first(e)
    BY <1>3, <1>5
  <2>2. Until(d) \in Int /\ From(e) \in Int /\ Until(d) <= first(d) + DayLength - 1 /\ first(e) <= From(e)
    BY <1>1, <1>4, <1>7, <1>8, <2>1
  <2> QED BY <1>1, <2>1, <2>2
<1>10. \A d, t \in Int : From(d) <= t /\ t <= Until(d) => DayOf(t, DayLength) = DateAt(d)
  <2> SUFFICES ASSUME NEW d \in Int, NEW t \in Int, From(d) <= t, t <= Until(d) PROVE DayOf(t, DayLength) = DateAt(d)
    OBVIOUS
  <2>1. first(d) \in Int /\ first(d) <= From(d) /\ Until(d) <= first(d) + DayLength - 1
    BY <1>1, <1>3, <1>4, <1>7
  <2>2. first(d) <= t /\ t <= first(d) + DayLength - 1
    BY <1>1, <1>8, <2>1
  <2> QED BY <1>6, <2>2
<1> QED BY <1>8, <1>9, <1>10

\* The frame of a day and its rows are what they should be.
LEMMA DayRowsAre ==
  ASSUME NEW frames \in Books, NEW d \in 1 .. Days
  PROVE  /\ frames[d] \in Seq(BookRows) /\ d \in Int
         /\ DayRows(frames, d) \in Seq(BookRows) /\ Len(DayRows(frames, d)) \in Nat
         /\ Lists(DayRows(frames, d), {i \in DOMAIN frames[d] : frames[d][i].ts <= Until(d)}, frames[d], RowOrder(frames[d]))
         /\ \A k \in 1 .. Len(DayRows(frames, d)) :
              /\ DayRows(frames, d)[k] \in BookRows /\ DayRows(frames, d)[k].ts \in Int
              /\ DayRows(frames, d)[k].ts <= Until(d)
         /\ \A k, l \in 1 .. Len(DayRows(frames, d)) :
              k <= l => DayRows(frames, d)[k].ts <= DayRows(frames, d)[l].ts
<1> DEFINE frame == frames[d]
           rows == DayRows(frames, d)
           places == {i \in DOMAIN frame : frame[i].ts <= Until(d)}
<1>1. frame \in Seq(BookRows)
  BY FeedAssumption, DaysCount
<1>2. d \in Int
  OBVIOUS
<1>3. rows = RowsTill(frame, Until(d))
  BY DEF DayRows
<1> HIDE DEF frame, rows
<1>4. /\ rows \in Seq(BookRows) /\ Lists(rows, places, frame, RowOrder(frame))
      /\ \A k \in 1 .. Len(rows) : rows[k].ts \in Int /\ rows[k].ts <= Until(d)
  BY <1>1, <1>3, RowsUntilEnd
<1>5. Len(rows) \in Nat /\ \A k \in 1 .. Len(rows) : rows[k] \in BookRows
  BY <1>4
<1>6. \A k, l \in 1 .. Len(rows) : k <= l => rows[k].ts <= rows[l].ts
  <2>1. places \in SUBSET DOMAIN frame
    OBVIOUS
  <2> HIDE DEF places
  <2> QED BY <1>1, <1>4, <2>1, RowsRise
<1> QED BY <1>1, <1>2, <1>4, <1>5, <1>6 DEF frame, rows

\* A source is a row of its day, in its window.
LEMMA SourceIs ==
  ASSUME NEW frames \in Books, NEW x \in SourcesTo(frames, Days)
  PROVE  /\ x.day \in 1 .. Days /\ x.row \in 1 .. Len(DayRows(frames, x.day)) /\ x.kind \in {"deltas", "quote"}
         /\ x = Source(x.day, x.row, x.kind)
         /\ TimeOf(frames, x) \in Int /\ From(x.day) <= TimeOf(frames, x) /\ TimeOf(frames, x) <= Until(x.day)
         /\ Piece(DayRows(frames, x.day), From(x.day), x) # <<>>
         /\ x \in SourcesOf(frames, x.day)
         /\ EventOf(frames)[x] = Piece(DayRows(frames, x.day), From(x.day), x)[1]
         /\ EventOf(frames)[x].ts = TimeOf(frames, x) /\ EventOf(frames)[x].type = x.kind
<1>1. PICK d \in 1 .. Days : x \in SourcesOf(frames, d)
  BY DEF SourcesTo
<1> DEFINE rows == DayRows(frames, d)
           start == From(d)
<1>2. /\ x \in [day : {d}, row : 1 .. Len(rows), kind : {"deltas", "quote"}]
      /\ ~(rows[x.row].ts < start) /\ Piece(rows, start, x) # <<>>
  BY <1>1 DEF SourcesOf, DaySources
<1>3. x.day = d /\ x.row \in 1 .. Len(rows) /\ x.kind \in {"deltas", "quote"} /\ x = Source(d, x.row, x.kind)
  BY <1>2 DEF Source
<1>4. rows[x.row].ts \in Int /\ rows[x.row].ts <= Until(d)
  BY <1>3, DayRowsAre
<1>5. start \in Int
  BY WindowsApart
<1>6. EventOf(frames)[x] = Piece(rows, start, x)[1]
  BY <1>3 DEF EventOf
<1>7. Piece(rows, start, x)[1].ts = rows[x.row].ts /\ Piece(rows, start, x)[1].type = x.kind
  BY <1>2, <1>3, PieceIs
<1>8. TimeOf(frames, x) = rows[x.row].ts
  BY <1>3 DEF TimeOf
<1> HIDE DEF rows, start
<1>9. start <= rows[x.row].ts
  BY <1>2, <1>4, <1>5
<1> QED BY <1>1, <1>2, <1>3, <1>4, <1>6, <1>7, <1>8, <1>9 DEF rows, start

\* What BookEvents makes of the frame of a day
LEMMA DayEventsListed ==
  ASSUME NEW frames \in Books, NEW d \in 1 .. Days
  PROVE  Lists(BookEvents(frames[d], From(d), Until(d)), SourcesOf(frames, d), EventOf(frames), Follows(frames))
<1> DEFINE rows == DayRows(frames, d)
           start == From(d)
           m == Len(rows)
           state == CHOOSE f : DayStates(f, rows, start, m)
           S == SourcesOf(frames, d)
           ev == EventOf(frames)
           R == {p \in S \X S : p[1].row < p[2].row \/ (p[1].row = p[2].row /\ p[1].kind = "deltas" /\ p[2].kind = "quote")}
<1>1. m \in Nat
  BY DayRowsAre
<1>2. BookEvents(frames[d], start, Until(d)) = StableSort(state[m].events, EventLess)
  BY DEF BookEvents, DayRows, RowsTill, Keep, DayStates
<1>3. DayStates(state, rows, start, m)
  <2> HIDE DEF rows, start, m
  <2>1. \E f : DayStates(f, rows, start, m)
    BY <1>1, DayStatesExist
  <2> QED BY <2>1
<1> HIDE DEF state
<1>4. S \subseteq SourcesTo(frames, Days)
  BY DEF SourcesTo
<1>5. \A x \in S : x.day = d
  BY DEF SourcesOf, DaySources
<1>6. \A x \in S : ev[x] = Piece(rows, start, x)[1]
  BY <1>4, <1>5 DEF EventOf
<1>7. S = DaySources(rows, start, d, m)
  BY DEF SourcesOf
<1>8. \A x \in S : /\ x.kind \in {"deltas", "quote"} /\ x.row \in Int /\ TimeOf(frames, x) \in Int
                   /\ ev[x].ts = TimeOf(frames, x) /\ ev[x].type = x.kind
  <2> TAKE x \in S
  <2>1. x \in SourcesTo(frames, Days)
    BY <1>4
  <2> QED BY <2>1, SourceIs
<1> HIDE DEF S, ev, rows, start, m
<1>9. Lists(state[m].events, S, ev, R)
  <2>1. \A x, y \in S :
          x.row < y.row \/ (x.row = y.row /\ x.kind = "deltas" /\ y.kind = "quote") => <<x, y>> \in R
    OBVIOUS
  <2>2. \A x, y \in DaySources(rows, start, d, m) :
          x.row < y.row \/ (x.row = y.row /\ x.kind = "deltas" /\ y.kind = "quote") => <<x, y>> \in R
    BY <1>7, <2>1
  <2>3. \A x \in DaySources(rows, start, d, m) : ev[x] = Piece(rows, start, x)[1]
    BY <1>6, <1>7
  <2> HIDE DEF R
  <2>4. Lists(state[m].events, DaySources(rows, start, d, m), ev, R)
    BY <1>1, <1>3, <2>2, <2>3, DayListed
  <2> QED BY <1>7, <2>4
<1>10. \A x, y \in S :
         \/ ev[x].ts < ev[y].ts
         \/ ev[x].ts = ev[y].ts /\ ev[x].type = "deltas" /\ ev[y].type = "quote"
         \/ ev[x].ts = ev[y].ts /\ ev[x].type = ev[y].type /\ <<x, y>> \in R
         => <<x, y>> \in Follows(frames)
  <2> SUFFICES ASSUME NEW x \in S, NEW y \in S,
                      \/ ev[x].ts < ev[y].ts
                      \/ ev[x].ts = ev[y].ts /\ ev[x].type = "deltas" /\ ev[y].type = "quote"
                      \/ ev[x].ts = ev[y].ts /\ ev[x].type = ev[y].type /\ <<x, y>> \in R
               PROVE  <<x, y>> \in Follows(frames)
    OBVIOUS
  <2>1. <<x, y>> \in R => x.row < y.row \/ (x.kind = "deltas" /\ y.kind = "quote")
    OBVIOUS
  <2> QED BY <1>4, <1>8, <2>1 DEF Follows
<1>11. \A x \in S : ev[x].ts \in Int /\ ev[x].type \in {"deltas", "quote"}
  BY <1>8
<1> HIDE DEF R
<1>12. Lists(StableSort(state[m].events, EventLess), S, ev, Follows(frames))
  BY <1>9, <1>10, <1>11, EventsSorted
<1> QED BY <1>2, <1>12 DEF S, ev, rows, start, m

\* LoadRecords adds the events of a day, unless nothing of it is in the window.
OneDayMore(s, frames, i) ==
  IF DayWindow(DateRange(FeedStart, FeedEnd, DayLength)[i], FeedStart, FeedEnd, DayLength).from
       > DayWindow(DateRange(FeedStart, FeedEnd, DayLength)[i], FeedStart, FeedEnd, DayLength).to
  THEN s
  ELSE s \o BookEvents(frames[i], DayWindow(DateRange(FeedStart, FeedEnd, DayLength)[i], FeedStart, FeedEnd, DayLength).from,
                       DayWindow(DateRange(FeedStart, FeedEnd, DayLength)[i], FeedStart, FeedEnd, DayLength).to)

\* What it has gathered after so many days
Gathered(f, frames, m) == f = [i \in 0 .. m |-> IF i = 0 THEN <<>> ELSE OneDayMore(f[i - 1], frames, i)]

\* They exist: if not all of them did, a first one would not.
LEMMA GatheredExist ==
  ASSUME NEW frames, NEW m \in Nat
  PROVE  \E f : Gathered(f, frames, m)
<1> DEFINE none == <<>>
           Good == {n \in 0 .. m : \E f : Gathered(f, frames, n)}
<1>1. 0 \in Good
  <2> DEFINE f == [n \in 0 .. 0 |-> none]
  <2>1. f = [n \in 0 .. 0 |-> IF n = 0 THEN none ELSE OneDayMore(f[n - 1], frames, n)]
    OBVIOUS
  <2> HIDE DEF f
  <2>2. Gathered(f, frames, 0)
    BY <2>1 DEF Gathered, none
  <2> QED BY <2>2
<1>2. ASSUME NEW n \in 1 .. m, n - 1 \in Good PROVE n \in Good
  <2>1. PICK f : Gathered(f, frames, n - 1)
    BY <1>2
  <2> DEFINE k == n - 1
             new == OneDayMore(f[k], frames, n)
             g == [i \in 0 .. n |-> IF i = n THEN new ELSE f[i]]
  <2>2. k \in Nat /\ n \in Nat /\ n # 0 /\ n \in 0 .. n /\ k \in 0 .. n /\ k # n /\ \A i \in 0 .. n : i # n => i \in 0 .. k
    OBVIOUS
  <2>3. \A i \in 0 .. k : f[i] = IF i = 0 THEN none ELSE OneDayMore(f[i - 1], frames, i)
    <3> HIDE DEF none
    <3>1. f = [i \in 0 .. k |-> IF i = 0 THEN none ELSE OneDayMore(f[i - 1], frames, i)]
      BY <2>1 DEF Gathered, none
    <3> QED BY <3>1
  <2>4. \A i \in 0 .. n : g[i] = IF i = 0 THEN none ELSE OneDayMore(g[i - 1], frames, i)
    <3> TAKE i \in 0 .. n
    <3>1. CASE i = n
      <4>1. g[i] = new /\ g[i - 1] = f[k]
        BY <2>2, <3>1
      <4> QED BY <2>2, <3>1, <4>1
    <3>2. CASE i # n
      <4>1. i \in 0 .. k /\ g[i] = f[i]
        BY <2>2, <3>2
      <4>2. i # 0 => i - 1 \in 0 .. n /\ i - 1 # n /\ g[i - 1] = f[i - 1]
        BY <3>2
      <4> QED BY <2>3, <4>1, <4>2
    <3> QED BY <3>1, <3>2
  <2> HIDE DEF none, new
  <2>5. g = [i \in 0 .. n |-> g[i]]
    OBVIOUS
  <2> HIDE DEF g
  <2>6. g = [i \in 0 .. n |-> IF i = 0 THEN none ELSE OneDayMore(g[i - 1], frames, i)]
    BY <2>4, <2>5
  <2>7. Gathered(g, frames, n)
    BY <2>6 DEF Gathered, none
  <2> QED BY <2>2, <2>7
<1>3. \A n \in 0 .. m : n \in Good
  <2> HIDE DEF Good
  <2> QED BY <1>1, <1>2, UpTo
<1> QED BY <1>3

\* What LoadRecords makes of the frames: the events of all sources, in their order.
LEMMA RecordsListed ==
  ASSUME NEW frames \in Books
  PROVE  Lists(LoadRecords(frames, FeedStart, FeedEnd, DayLength), SourcesTo(frames, Days), EventOf(frames), Follows(frames))
<1> DEFINE f == CHOOSE f : Gathered(f, frames, Days)
           ev == EventOf(frames)
           R == Follows(frames)
           S(n) == SourcesTo(frames, n)
           Good == {n \in 0 .. Days : Lists(f[n], S(n), ev, R)}
<1>1. LoadRecords(frames, FeedStart, FeedEnd, DayLength) = StableSort(f[Days], EventLess)
  BY DEF LoadRecords, Gathered, OneDayMore, Days
<1>2. Gathered(f, frames, Days)
  <2>1. \E g : Gathered(g, frames, Days)
    BY DaysCount, GatheredExist
  <2> QED BY <2>1
<1> HIDE DEF f
<1>3. f[0] = <<>> /\ \A n \in 1 .. Days : f[n] = OneDayMore(f[n - 1], frames, n)
  <2> DEFINE none == <<>>
  <2> HIDE DEF none
  <2>1. f = [n \in 0 .. Days |-> IF n = 0 THEN none ELSE OneDayMore(f[n - 1], frames, n)]
    BY <1>2 DEF Gathered, none
  <2>2. \A n \in 0 .. Days : f[n] = IF n = 0 THEN none ELSE OneDayMore(f[n - 1], frames, n)
    BY <2>1
  <2>3. 0 \in 0 .. Days /\ \A n \in 1 .. Days : n \in 0 .. Days /\ n # 0
    BY DaysCount
  <2> QED BY <2>2, <2>3 DEF none
<1>4. \A n \in 1 .. Days :
        OneDayMore(f[n - 1], frames, n) =
          IF From(n) > Until(n) THEN f[n - 1] ELSE f[n - 1] \o BookEvents(frames[n], From(n), Until(n))
  <2> TAKE n \in 1 .. Days
  <2>1. DateRange(FeedStart, FeedEnd, DayLength)[n] = DateAt(n)
    BY DaysCount
  <2> QED BY <2>1 DEF OneDayMore, From, Until
<1>5. \A x, y \in S(Days) : x.day < y.day => <<x, y>> \in R
  <2> SUFFICES ASSUME NEW x \in S(Days), NEW y \in S(Days), x.day < y.day PROVE <<x, y>> \in R
    OBVIOUS
  <2>1. /\ x.day \in Int /\ y.day \in Int /\ TimeOf(frames, x) \in Int /\ TimeOf(frames, y) \in Int
        /\ TimeOf(frames, x) <= Until(x.day) /\ From(y.day) <= TimeOf(frames, y)
    BY SourceIs
  <2>2. Until(x.day) \in Int /\ From(y.day) \in Int /\ Until(x.day) < From(y.day)
    BY <2>1, WindowsApart
  <2>3. TimeOf(frames, x) < TimeOf(frames, y)
    BY <2>1, <2>2
  <2> QED BY <2>3 DEF Follows
<1>6. 0 \in Good
  <2>1. S(0) = {}
    <3>1. 1 .. 0 = {}
      OBVIOUS
    <3> QED BY <3>1 DEF SourcesTo
  <2>2. 0 \in 0 .. Days
    BY DaysCount
  <2>3. Lists(<<>>, {}, ev, R)
    BY NothingListed
  <2> HIDE DEF S, ev, R
  <2> QED BY <1>3, <2>1, <2>2, <2>3
<1>7. ASSUME NEW n \in 1 .. Days, n - 1 \in Good PROVE n \in Good
  <2> DEFINE T == SourcesOf(frames, n)
  <2>1. S(n) = S(n - 1) \union T
    <3>1. \A d : d \in 1 .. n <=> d \in 1 .. n - 1 \/ d = n
      BY DaysCount
    <3> QED BY <3>1 DEF SourcesTo
  <2>2. S(n) \subseteq S(Days)
    <3>1. 1 .. n \subseteq 1 .. Days
      BY DaysCount
    <3> QED BY <3>1 DEF SourcesTo
  <2>3. \A x \in S(n - 1) : x.day < n
    <3> TAKE x \in S(n - 1)
    <3>1. PICK d \in 1 .. n - 1 : x \in SourcesOf(frames, d)
      BY DEF SourcesTo
    <3>2. x.day = d
      BY <3>1 DEF SourcesOf, DaySources
    <3> QED BY <3>1, <3>2
  <2>4. \A x \in T : x.day = n
    BY DEF SourcesOf, DaySources
  <2>5. Lists(f[n - 1], S(n - 1), ev, R)
    BY <1>7
  <2>6. CASE From(n) > Until(n)
    <3>1. T = {}
      <4> SUFFICES ASSUME NEW x \in T PROVE FALSE
        OBVIOUS
      <4>1. x \in SourcesTo(frames, Days) /\ x.day = n
        BY <2>1, <2>2, <2>4
      <4>2. TimeOf(frames, x) \in Int /\ From(n) <= TimeOf(frames, x) /\ TimeOf(frames, x) <= Until(n)
        BY <4>1, SourceIs
      <4>3. From(n) \in Int /\ Until(n) \in Int
        BY WindowsApart
      <4> QED BY <2>6, <4>2, <4>3
    <3>2. f[n] = f[n - 1]
      BY <1>3, <1>4, <2>6
    <3> HIDE DEF S, T
    <3>3. Lists(f[n], S(n), ev, R)
      BY <2>1, <2>5, <3>1, <3>2
    <3>4. n \in 0 .. Days
      BY DaysCount
    <3> QED BY <3>3, <3>4
  <2>7. CASE ~(From(n) > Until(n))
    <3>1. f[n] = f[n - 1] \o BookEvents(frames[n], From(n), Until(n))
      BY <1>3, <1>4, <2>7
    <3>2. Lists(BookEvents(frames[n], From(n), Until(n)), T, ev, R)
      BY DayEventsListed
    <3>3. \A x \in S(n - 1), y \in T : <<x, y>> \in R
      <4> TAKE x \in S(n - 1), y \in T
      <4>1. x \in S(Days) /\ y \in S(Days) /\ x.day < y.day
        BY <2>1, <2>2, <2>3, <2>4
      <4> HIDE DEF S, R
      <4> QED BY <1>5, <4>1
    <3> HIDE DEF S, T, ev, R
    <3>4. Lists(f[n], S(n), ev, R)
      BY <2>1, <2>5, <3>1, <3>2, <3>3, ListsJoin
    <3>5. n \in 0 .. Days
      BY DaysCount
    <3> QED BY <3>4, <3>5
  <2> QED BY <2>6, <2>7
<1>8. Lists(f[Days], S(Days), ev, R)
  <2>1. \A n \in 0 .. Days : n \in Good
    <3> HIDE DEF Good
    <3> QED BY <1>6, <1>7, DaysCount, UpTo
  <2>2. Days \in 0 .. Days
    BY DaysCount
  <2> QED BY <2>1, <2>2
<1>9. \A x \in S(Days) : /\ ev[x].ts \in Int /\ ev[x].type \in {"deltas", "quote"}
                         /\ ev[x].ts = TimeOf(frames, x) /\ ev[x].type = x.kind
  <2> TAKE x \in S(Days)
  <2> QED BY SourceIs
<1>10. \A x, y \in S(Days) :
         \/ ev[x].ts < ev[y].ts
         \/ ev[x].ts = ev[y].ts /\ ev[x].type = "deltas" /\ ev[y].type = "quote"
         \/ ev[x].ts = ev[y].ts /\ ev[x].type = ev[y].type /\ <<x, y>> \in R
         => <<x, y>> \in R
  <2> HIDE DEF ev
  <2> QED BY <1>9 DEF Follows
<1>11. Lists(StableSort(f[Days], EventLess), S(Days), ev, R)
  <2> HIDE DEF S, ev, R
  <2> QED BY <1>8, <1>9, <1>10, EventsSorted
<1> QED BY <1>1, <1>11

-----------------------------------------------------------------------------
(* The book between two rows                                               *)

\* The order of the records: times do not fall, nor do days, and of a day's deltas the rows rise.
LEMMA FollowsMeans ==
  ASSUME NEW frames \in Books, NEW x \in SourcesTo(frames, Days), NEW y \in SourcesTo(frames, Days),
         <<x, y>> \in Follows(frames)
  PROVE  /\ TimeOf(frames, x) <= TimeOf(frames, y) /\ x.day <= y.day
         /\ x.day = y.day /\ x.kind = y.kind => x.row < y.row
<1> DEFINE t == TimeOf(frames, x)
           u == TimeOf(frames, y)
<1>1. /\ x.day \in 1 .. Days /\ y.day \in 1 .. Days /\ t \in Int /\ u \in Int
      /\ From(x.day) <= t /\ t <= Until(x.day) /\ From(y.day) <= u /\ u <= Until(y.day)
      /\ x.row \in 1 .. Len(DayRows(frames, x.day)) /\ y.row \in 1 .. Len(DayRows(frames, y.day))
  BY SourceIs
<1>2. \/ t < u
      \/ t = u /\ x.kind = "deltas" /\ y.kind = "quote"
      \/ t = u /\ x.kind = y.kind /\ x.row < y.row
  BY DEF Follows
<1>3. x.day = y.day /\ y.row <= x.row => u <= t
  BY <1>1, DayRowsAre DEF TimeOf
<1> HIDE DEF t, u
<1>4. t <= u
  BY <1>1, <1>2
<1>5. x.day \in Int /\ y.day \in Int /\ x.row \in Int /\ y.row \in Int
  BY <1>1
<1>6. x.day <= y.day
  <2> SUFFICES ASSUME y.day < x.day PROVE FALSE
    BY <1>5
  <2>1. Until(y.day) < From(x.day) /\ Until(y.day) \in Int /\ From(x.day) \in Int
    BY <1>5, WindowsApart
  <2> QED BY <1>1, <1>4, <2>1
<1>7. ASSUME x.day = y.day, x.kind = y.kind PROVE x.row < y.row
  <2>1. CASE t < u
    <3>1. ~(y.row <= x.row)
      BY <1>1, <1>3, <1>7, <2>1
    <3> QED BY <1>5, <3>1
  <2>2. CASE ~(t < u)
    BY <1>2, <1>7, <2>2
  <2> QED BY <2>1, <2>2
<1> QED BY <1>4, <1>6, <1>7 DEF t, u

\* The sides of a row's book are sides.
LEMMA BookSides ==
  ASSUME NEW row \in BookRows
  PROVE  IsSide(BookOf(row).bids) /\ IsSide(BookOf(row).asks)
<1>1. row.bids \in Seq(Levels) /\ row.asks \in Seq(Levels)
  BY DEF BookRows
<1>2. IsSide(SideMap(BidsOf(row))) /\ IsSide(SideMap(AsksOf(row)))
  BY <1>1, LevelsLeft, SideMade DEF BidsOf, AsksOf
<1> QED BY <1>2 DEF BookOf

\* A row without deltas, once there is a first book, has the book of the row before.
LEMMA RowSteady ==
  ASSUME NEW rows \in Seq(BookRows), NEW start, NEW k \in 2 .. Len(rows),
         Emitted(rows, start, k - 1), DeltasAt(rows, start, k) = <<>>
  PROVE  BookOf(rows[k]) = BookOf(rows[k - 1])
<1> DEFINE p == BookOf(rows[k - 1])
           q == BookOf(rows[k])
<1>1. rows[k] \in BookRows /\ rows[k - 1] \in BookRows
  <2>1. Len(rows) \in Nat
    OBVIOUS
  <2>2. k \in 1 .. Len(rows) /\ k - 1 \in 1 .. Len(rows)
    BY <2>1
  <2> QED BY <2>2
<1>2. IsSide(p.bids) /\ IsSide(p.asks) /\ IsSide(q.bids) /\ IsSide(q.asks)
  BY <1>1, BookSides
<1>3. q.bids = SideMap(BidsOf(rows[k])) /\ q.asks = SideMap(AsksOf(rows[k])) /\ q = [bids |-> q.bids, asks |-> q.asks]
      /\ p = [bids |-> p.bids, asks |-> p.asks]
  BY DEF BookOf
<1> HIDE DEF p, q
<1>4. Diff(rows[k].ts, p, q.bids, q.asks) = <<>>
  BY <1>3 DEF DeltasAt, p
<1>5. DOMAIN Changes(p.bids, q.bids) = {} /\ DOMAIN Changes(p.asks, q.asks) = {}
  <2> DEFINE b == Changes(p.bids, q.bids)
             a == Changes(p.asks, q.asks)
  <2>1. Diff(rows[k].ts, p, q.bids, q.asks) =
          IF DOMAIN b = {} /\ DOMAIN a = {} THEN <<>> ELSE <<Deltas(rows[k].ts, FALSE, b, a)>>
    BY DEF Diff
  <2> HIDE DEF a, b
  <2>2. \A e : <<e>> # <<>>
    OBVIOUS
  <2>3. DOMAIN b = {} /\ DOMAIN a = {}
    BY <1>4, <2>1, <2>2
  <2> QED BY <2>3 DEF a, b
<1>6. p.bids = q.bids /\ p.asks = q.asks
  BY <1>2, <1>5, NoChange
<1>7. p = q
  BY <1>3, <1>6
<1> QED BY <1>7 DEF p, q

\* And so on, for as many rows.
LEMMA RowsSteady ==
  ASSUME NEW rows \in Seq(BookRows), NEW start, NEW k \in 1 .. Len(rows), NEW l \in 1 .. Len(rows), k <= l,
         Emitted(rows, start, k), \A i \in k + 1 .. l : DeltasAt(rows, start, i) = <<>>
  PROVE  BookOf(rows[l]) = BookOf(rows[k])
<1> DEFINE m == l - k
           Good == {i \in 0 .. m : BookOf(rows[k + i]) = BookOf(rows[k])}
<1>1. Len(rows) \in Nat /\ k \in Int /\ l \in Int /\ m \in Nat /\ k + m = l
  <2>1. Len(rows) \in Nat
    OBVIOUS
  <2> QED BY <2>1
<1>2. 0 \in Good
  <2>1. k + 0 = k /\ 0 \in 0 .. m
    BY <1>1
  <2> QED BY <2>1
<1> HIDE DEF m
<1>3. \A i \in 1 .. m : i - 1 \in Good => i \in Good
  <2> SUFFICES ASSUME NEW i \in 1 .. m, i - 1 \in Good PROVE i \in Good
    OBVIOUS
  <2> DEFINE n == k + i
  <2>1. n \in 2 .. Len(rows) /\ n \in k + 1 .. l /\ k + (i - 1) = n - 1 /\ k <= n - 1 /\ i \in 0 .. m
    BY <1>1
  <2>2. Emitted(rows, start, n - 1)
    <3>1. 1 .. k \subseteq 1 .. n - 1
      BY <1>1, <2>1
    <3> QED BY <3>1 DEF Emitted
  <2>3. BookOf(rows[n - 1]) = BookOf(rows[k])
    BY <2>1
  <2> HIDE DEF n
  <2>4. BookOf(rows[n]) = BookOf(rows[n - 1])
    BY <2>1, <2>2, RowSteady
  <2> QED BY <2>1, <2>3, <2>4 DEF n
<1>4. \A i \in 0 .. m : i \in Good
  <2> HIDE DEF Good
  <2> QED BY <1>1, <1>2, <1>3, UpTo
<1>5. m \in 0 .. m
  BY <1>1
<1> QED BY <1>1, <1>4, <1>5

\* Once a row of the window has levels there is a row with deltas.
LEMMA FirstDeltas ==
  ASSUME NEW rows, NEW start, NEW k \in Nat, Emitted(rows, start, k)
  PROVE  \E j \in 1 .. k : ~(rows[j].ts < start) /\ DeltasAt(rows, start, j) # <<>>
<1> DEFINE J == {j \in 1 .. k : ~(rows[j].ts < start) /\ (BidsOf(rows[j]) # <<>> \/ AsksOf(rows[j]) # <<>>)}
<1>1. J \in SUBSET Nat /\ J # {}
  BY DEF Emitted
<1>2. PICK j \in J : \A i \in J : j <= i
  <2> HIDE DEF J
  <2> QED BY <1>1, LeastNumber
<1>3. ~Emitted(rows, start, j - 1)
  <2> SUFFICES ASSUME Emitted(rows, start, j - 1) PROVE FALSE
    OBVIOUS
  <2>1. PICK i \in 1 .. j - 1 : ~(rows[i].ts < start) /\ (BidsOf(rows[i]) # <<>> \/ AsksOf(rows[i]) # <<>>)
    BY DEF Emitted
  <2>2. i \in J /\ i < j
    BY <2>1
  <2> QED BY <1>2, <2>2
<1>4. DeltasAt(rows, start, j) # <<>>
  <2>1. DeltasAt(rows, start, j) = Snapshot(rows[j].ts, BidsOf(rows[j]), AsksOf(rows[j]))
    BY <1>3 DEF DeltasAt
  <2>2. \A e : <<e>> # <<>>
    OBVIOUS
  <2> QED BY <2>1, <2>2 DEF Snapshot
<1> QED BY <1>4

-----------------------------------------------------------------------------
(* The book after so many records                                          *)

\* The frames and the records made of them, each of a source
Told(frames, s, src) ==
  /\ frames \in Books /\ Len(s) \in Nat
  /\ Gives(s, SourcesTo(frames, Days), EventOf(frames), Follows(frames), src)

\* The last deltas of the first n records
LastDeltas(src, n, i) == i \in 1 .. n /\ src[i].kind = "deltas" /\ \A j \in i + 1 .. n : src[j].kind # "deltas"

RowOf(frames, x) == DayRows(frames, x.day)[x.row]

\* At a source there has been a row of the window with levels.
LEMMA SourceEmits ==
  ASSUME NEW frames \in Books, NEW x \in SourcesTo(frames, Days)
  PROVE  Emitted(DayRows(frames, x.day), From(x.day), x.row)
<1> DEFINE rows == DayRows(frames, x.day)
           start == From(x.day)
           k == x.row
<1>1. /\ x.kind \in {"deltas", "quote"} /\ Piece(rows, start, x) # <<>> /\ x.day \in Int
      /\ k \in 1 .. Len(rows) /\ start <= TimeOf(frames, x) /\ TimeOf(frames, x) \in Int
  BY SourceIs
<1>2. start \in Int
  BY <1>1, WindowsApart
<1>3. ~(rows[k].ts < start)
  <2>1. TimeOf(frames, x) = rows[k].ts
    BY DEF TimeOf
  <2> HIDE DEF start, rows, k
  <2> QED BY <1>1, <1>2, <2>1
<1>4. k \in 1 .. k /\ 1 .. k - 1 \subseteq 1 .. k
  BY <1>1
<1>5. CASE Emitted(rows, start, k - 1)
  BY <1>4, <1>5 DEF Emitted
<1>6. CASE ~Emitted(rows, start, k - 1)
  <2>1. BidsOf(rows[k]) # <<>> \/ AsksOf(rows[k]) # <<>>
    <3>1. CASE x.kind = "deltas"
      <4>1. Piece(rows, start, x) = Snapshot(rows[k].ts, BidsOf(rows[k]), AsksOf(rows[k]))
        BY <1>6, <3>1 DEF Piece, DeltasAt
      <4> QED BY <1>1, <4>1 DEF Snapshot
    <3>2. CASE x.kind = "quote"
      <4>1. Piece(rows, start, x) = QuoteOf(rows[k].ts, BidsOf(rows[k]), AsksOf(rows[k]))
        BY <3>2 DEF Piece, QuoteAt
      <4> QED BY <1>1, <4>1 DEF QuoteOf
    <3> QED BY <1>1, <3>1, <3>2
  <2> QED BY <1>3, <1>4, <2>1 DEF Emitted
<1> QED BY <1>5, <1>6

\* When the first n records are those of the days before and of a day's rows up to one, the
\* last deltas of them made the book of that row.
LEMMA BookTill ==
  ASSUME NEW frames, NEW s, NEW src, Told(frames, s, src), NEW n \in 0 .. Len(s), NEW d \in 1 .. Days,
         NEW l \in 1 .. Len(DayRows(frames, d)), Emitted(DayRows(frames, d), From(d), l),
         \A w \in SourcesTo(frames, Days) :
           w.day = d /\ w.kind = "deltas" /\ w.row <= l => \E i \in 1 .. n : src[i] = w,
         \A i \in 1 .. n :
           src[i].kind = "deltas" => src[i].day <= d /\ (src[i].day = d => src[i].row <= l)
  PROVE  \E i \in 1 .. n : LastDeltas(src, n, i) /\ BookOf(RowOf(frames, src[i])) = BookOf(DayRows(frames, d)[l])
<1> DEFINE rows == DayRows(frames, d)
           start == From(d)
           S == SourcesTo(frames, Days)
           I == {i \in 1 .. n : src[i].kind = "deltas"}
<1>0. frames \in Books /\ Len(s) \in Nat /\ Gives(s, S, EventOf(frames), Follows(frames), src)
  BY DEF Told
<1>1. /\ rows \in Seq(BookRows) /\ Len(rows) \in Nat /\ d \in Int /\ start \in Int
      /\ \A k \in 1 .. Len(rows) : rows[k].ts \in Int
      /\ \A j, k \in 1 .. Len(rows) : j <= k => rows[j].ts <= rows[k].ts
  BY <1>0, DayRowsAre, WindowsApart
<1>2. \A k \in 1 .. l : ~(rows[k].ts < start) /\ DeltasAt(rows, start, k) # <<>> => Source(d, k, "deltas") \in S
  <2> SUFFICES ASSUME NEW k \in 1 .. l, ~(rows[k].ts < start), DeltasAt(rows, start, k) # <<>>
               PROVE  Source(d, k, "deltas") \in S
    OBVIOUS
  <2> DEFINE x == Source(d, k, "deltas")
  <2>1. k \in 1 .. Len(rows)
    BY <1>1
  <2>2. x \in [day : {d}, row : 1 .. Len(rows), kind : {"deltas", "quote"}] /\ x.row = k /\ x.kind = "deltas"
    BY <2>1 DEF Source
  <2>3. Piece(rows, start, x) # <<>>
    BY <2>2 DEF Piece
  <2> HIDE DEF x
  <2>4. x \in SourcesOf(frames, d)
    BY <2>2, <2>3 DEF SourcesOf, DaySources
  <2>5. x \in S
    BY <2>4 DEF SourcesTo
  <2> QED BY <2>5 DEF x
<1>3. \A day, k, kind : Source(day, k, kind).day = day /\ Source(day, k, kind).row = k /\ Source(day, k, kind).kind = kind
  BY DEF Source
<1>4. PICK j \in 1 .. l : ~(rows[j].ts < start) /\ DeltasAt(rows, start, j) # <<>>
  <2>1. l \in Nat
    BY <1>1
  <2> QED BY <2>1, FirstDeltas
<1>5. PICK p \in 1 .. n : src[p] = Source(d, j, "deltas")
  <2>1. Source(d, j, "deltas") \in S /\ j <= l
    BY <1>1, <1>2, <1>4
  <2> QED BY <1>3, <2>1
<1>6. p \in I /\ src[p].day = d
  BY <1>3, <1>5
<1>7. PICK i \in I : \A k \in I : i >= k
  <2>1. I \in SUBSET Int /\ I \subseteq 1 .. n
    OBVIOUS
  <2>2. IsFiniteSet(1 .. n)
    BY <1>0, FS_Interval
  <2>3. IsFiniteSet(I) /\ I # {}
    BY <1>6, <2>1, <2>2, FS_Subset
  <2> HIDE DEF I
  <2> QED BY <2>1, <2>3, GreatestIn
<1> DEFINE y == src[i]
<1>8. LastDeltas(src, n, i)
  <2>1. \A k \in i + 1 .. n : k \in 1 .. n /\ ~(i >= k)
    BY <1>0
  <2> QED BY <1>7, <2>1 DEF LastDeltas
<1>9. \A k \in 1 .. n : k \in 1 .. Len(s) /\ src[k] \in S
  BY <1>0 DEF Gives
<1>10. \A k, m \in 1 .. n : k < m => <<src[k], src[m]>> \in Follows(frames)
  BY <1>0, <1>9 DEF Gives
<1>11. y.day = d /\ y.row \in 1 .. l /\ y.kind = "deltas" /\ y \in S
  <2>1. y \in S /\ y.kind = "deltas" /\ y.day <= d /\ (y.day = d => y.row <= l)
    BY <1>7, <1>9
  <2>2. y.day \in Int /\ y.row \in 1 .. Len(DayRows(frames, y.day))
    BY <1>0, <2>1, SourceIs
  <2>3. d <= y.day
    <3>1. CASE p = i
      BY <1>1, <1>6, <3>1
    <3>2. CASE p # i
      <4>1. p < i /\ p \in 1 .. n /\ i \in 1 .. n
        BY <1>6, <1>7, <3>2
      <4>2. <<src[p], y>> \in Follows(frames) /\ src[p] \in S
        BY <1>9, <1>10, <4>1
      <4>3. src[p].day <= y.day
        BY <1>0, <2>1, <4>2, FollowsMeans
      <4> QED BY <1>6, <4>3
    <3> QED BY <3>1, <3>2
  <2> QED BY <1>1, <2>1, <2>2, <2>3
<1> DEFINE k0 == y.row
<1>12. ~(rows[k0].ts < start) /\ DeltasAt(rows, start, k0) # <<>>
  <2>1. TimeOf(frames, y) = rows[k0].ts
    BY <1>11 DEF TimeOf
  <2>2. start <= TimeOf(frames, y) /\ TimeOf(frames, y) \in Int /\ Piece(rows, start, y) # <<>>
    BY <1>0, <1>11, SourceIs
  <2>3. Piece(rows, start, y) = DeltasAt(rows, start, k0)
    BY <1>11 DEF Piece
  <2> HIDE DEF start
  <2> QED BY <1>1, <2>1, <2>2, <2>3
<1>13. Emitted(rows, start, k0)
  <2>1. Emitted(DayRows(frames, y.day), From(y.day), y.row)
    <3> HIDE DEF y
    <3> QED BY <1>0, <1>11, SourceEmits
  <2> QED BY <1>11, <2>1
<1>14. \A k \in k0 + 1 .. l : DeltasAt(rows, start, k) = <<>>
  <2> SUFFICES ASSUME NEW k \in k0 + 1 .. l, DeltasAt(rows, start, k) # <<>> PROVE FALSE
    OBVIOUS
  <2> DEFINE w == Source(d, k, "deltas")
  <2>1. k \in 1 .. l /\ k0 < k /\ k0 \in 1 .. Len(rows) /\ k \in 1 .. Len(rows) /\ k \in Int /\ k0 \in Int
    BY <1>1, <1>11
  <2>2. ~(rows[k].ts < start)
    <3>1. rows[k0].ts <= rows[k].ts /\ rows[k0].ts \in Int /\ rows[k].ts \in Int
      <4> HIDE DEF rows, start, k0
      <4>1. k0 <= k
        BY <2>1
      <4> QED BY <1>1, <2>1, <4>1
    <3> QED BY <1>1, <1>12, <3>1
  <2>3. w \in S /\ w.day = d /\ w.row = k /\ w.kind = "deltas"
    BY <1>2, <1>3, <2>1, <2>2
  <2> HIDE DEF w
  <2>4. PICK q \in 1 .. n : src[q] = w
    BY <2>1, <2>3
  <2>5. q \in I /\ q <= i /\ q # i
    BY <1>7, <2>1, <2>3, <2>4
  <2>6. q < i /\ i \in 1 .. n
    BY <2>5
  <2>7. <<w, y>> \in Follows(frames)
    BY <1>10, <2>4, <2>6
  <2>8. w.row < y.row
    BY <1>0, <1>11, <2>3, <2>7, FollowsMeans
  <2> QED BY <2>1, <2>3, <2>8
<1>15. BookOf(rows[l]) = BookOf(rows[k0])
  <2>1. k0 \in 1 .. Len(rows) /\ k0 <= l
    BY <1>1, <1>11
  <2>2. l \in 1 .. Len(rows)
    OBVIOUS
  <2> HIDE DEF rows, start, k0
  <2> QED BY <1>1, <1>13, <1>14, <2>1, <2>2, RowsSteady
<1>16. RowOf(frames, y) = rows[k0]
  BY <1>11 DEF RowOf
<1> QED BY <1>7, <1>8, <1>15, <1>16

\* The last deltas applied made the engine's book that of their row.
BookIs(frames, s, n, book) ==
  \A src, i : Told(frames, s, src) /\ LastDeltas(src, n, i) => book = BookOf(RowOf(frames, src[i]))

FeedInv ==
  /\ DOMAIN feed = {"frames", "records", "applied", "book"}
  /\ feed.frames \in Books /\ feed.applied \in Int
  /\ feed.applied # NotLoaded =>
       /\ feed.records = LoadRecords(feed.frames, FeedStart, FeedEnd, DayLength)
       /\ feed.applied \in 0 .. Len(feed.records)
       /\ BookIs(feed.frames, feed.records, feed.applied, feed.book)

\* The records are told.
LEMMA RecordsTold ==
  ASSUME NEW frames \in Books
  PROVE  \E src : Told(frames, LoadRecords(frames, FeedStart, FeedEnd, DayLength), src)
<1> DEFINE s == LoadRecords(frames, FeedStart, FeedEnd, DayLength)
<1>1. Lists(s, SourcesTo(frames, Days), EventOf(frames), Follows(frames))
  BY RecordsListed
<1> HIDE DEF s
<1>2. Len(s) \in Nat
  BY <1>1, ListHas DEF Lists
<1>3. \E src : Told(frames, s, src)
  BY <1>1, <1>2 DEF Lists, Told
<1> QED BY <1>3 DEF s

\* Deltas make the book of their row of the book of the row before.
LEMMA DeltasMake ==
  ASSUME NEW rows \in Seq(BookRows), NEW start, NEW k \in 1 .. Len(rows), DeltasAt(rows, start, k) # <<>>, NEW book,
         Emitted(rows, start, k - 1) => book = BookOf(rows[k - 1])
  PROVE  Applied(book, DeltasAt(rows, start, k)[1]) = BookOf(rows[k])
<1> DEFINE b == SideMap(BidsOf(rows[k]))
           a == SideMap(AsksOf(rows[k]))
           ts == rows[k].ts
           e == DeltasAt(rows, start, k)
<1>1. BookOf(rows[k]) = [bids |-> b, asks |-> a]
  BY DEF BookOf
<1>2. \A t, clear, x, y :
        /\ Deltas(t, clear, x, y).type = "deltas" /\ Deltas(t, clear, x, y).clear = clear
        /\ Deltas(t, clear, x, y).bids = x /\ Deltas(t, clear, x, y).asks = y
  <2> TAKE t, clear, x, y
  <2> DEFINE r == Deltas(t, clear, x, y)
  <2>1. r.type = "deltas" /\ r.bids = x /\ r.asks = y
    BY DEF Deltas
  <2>2. r.clear = clear
    BY Zenon DEF Deltas
  <2> QED BY <2>1, <2>2
<1>3. \A x : <<x>>[1] = x
  OBVIOUS
<1>4. CASE Emitted(rows, start, k - 1)
  <2> DEFINE p == BookOf(rows[k - 1])
             c == Changes(p.bids, b)
             d == Changes(p.asks, a)
             no == FALSE
             r == Deltas(ts, no, c, d)
  <2>1. k - 1 \in 1 .. Len(rows)
    <3>1. PICK j \in 1 .. k - 1 : TRUE
      BY <1>4 DEF Emitted
    <3>2. Len(rows) \in Nat
      OBVIOUS
    <3> QED BY <3>1, <3>2
  <2>2. rows[k - 1] \in BookRows /\ rows[k] \in BookRows
    BY <2>1
  <2>3. IsSide(p.bids) /\ IsSide(p.asks) /\ IsSide(b) /\ IsSide(a)
    <3>1. IsSide(BookOf(rows[k]).bids) /\ IsSide(BookOf(rows[k]).asks)
      BY <2>2, BookSides
    <3>2. IsSide(BookOf(rows[k - 1]).bids) /\ IsSide(BookOf(rows[k - 1]).asks)
      BY <2>2, BookSides
    <3> QED BY <3>1, <3>2 DEF BookOf
  <2>4. e = Diff(ts, p, b, a)
    BY <1>4 DEF DeltasAt
  <2>5. Diff(ts, p, b, a) = IF DOMAIN c = {} /\ DOMAIN d = {} THEN <<>> ELSE <<r>>
    BY DEF Diff
  <2> HIDE DEF e, p, b, a, c, d, r
  <2>6. e = <<r>>
    BY <2>4, <2>5 DEF e
  <2>7. e[1] = r
    BY <1>3, <2>6
  <2> HIDE DEF no
  <2>8. r.type = "deltas" /\ r.clear = no /\ r.bids = c /\ r.asks = d
    BY <1>2 DEF r
  <2>9. Applied(book, r) = [bids |-> Patched(book.bids, c), asks |-> Patched(book.asks, d)]
    <3>1. r.type # "quote" /\ ~r.clear
      BY <2>8 DEF no
    <3> QED BY <2>8, <3>1 DEF Applied
  <2>10. book = p
    BY <1>4 DEF p
  <2>11. Patched(p.bids, c) = b /\ Patched(p.asks, d) = a
    BY <2>3, ChangesApply DEF c, d
  <2> QED BY <1>1, <2>7, <2>9, <2>10, <2>11 DEF e
<1>5. CASE ~Emitted(rows, start, k - 1)
  <2> DEFINE yes == TRUE
             r == Deltas(ts, yes, b, a)
             bs == BidsOf(rows[k])
             as == AsksOf(rows[k])
  <2>1. e = Snapshot(ts, bs, as)
    BY <1>5 DEF DeltasAt
  <2>2. Snapshot(ts, bs, as) = IF bs = <<>> /\ as = <<>> THEN <<>> ELSE <<r>>
    BY DEF Snapshot
  <2> HIDE DEF e, b, a, r, bs, as
  <2>3. e = <<r>>
    BY <2>1, <2>2 DEF e
  <2>4. e[1] = r
    BY <1>3, <2>3
  <2> HIDE DEF yes
  <2>5. r.type = "deltas" /\ r.clear = yes /\ r.bids = b /\ r.asks = a
    BY <1>2 DEF r
  <2>6. Applied(book, r) = [bids |-> b, asks |-> a]
    <3>1. r.type # "quote" /\ r.clear
      BY <2>5 DEF yes
    <3> QED BY <2>5, <3>1 DEF Applied
  <2> QED BY <1>1, <2>4, <2>6 DEF e
<1> QED BY <1>4, <1>5

\* One record more: a quote leaves the book, deltas make that of their row.
LEMMA OneRecordMore ==
  ASSUME NEW frames, NEW s, NEW n \in 0 .. Len(s), Len(s) \in Nat, n < Len(s), NEW book, BookIs(frames, s, n, book)
  PROVE  BookIs(frames, s, n + 1, Applied(book, s[n + 1]))
<1> DEFINE e == s[n + 1]
<1> SUFFICES ASSUME NEW src, NEW i, Told(frames, s, src), LastDeltas(src, n + 1, i)
             PROVE  Applied(book, e) = BookOf(RowOf(frames, src[i]))
  BY DEF BookIs
<1> DEFINE S == SourcesTo(frames, Days)
           x == src[n + 1]
<1>1. frames \in Books /\ Gives(s, S, EventOf(frames), Follows(frames), src)
  BY DEF Told
<1>2. n + 1 \in 1 .. Len(s) /\ n \in Nat
  OBVIOUS
<1>3. x \in S /\ e = EventOf(frames)[x]
  BY <1>1, <1>2 DEF Gives
<1>4. i \in 1 .. n + 1 /\ src[i].kind = "deltas" /\ \A j \in i + 1 .. n + 1 : src[j].kind # "deltas"
  BY DEF LastDeltas
<1> DEFINE rows == DayRows(frames, x.day)
           start == From(x.day)
           k == x.row
<1>5. /\ x.day \in 1 .. Days /\ k \in 1 .. Len(rows) /\ x.kind \in {"deltas", "quote"}
      /\ e = Piece(rows, start, x)[1] /\ e.type = x.kind /\ Piece(rows, start, x) # <<>>
  BY <1>1, <1>3, SourceIs
<1>6. CASE x.kind = "quote"
  <2>1. i # n + 1
    BY <1>4, <1>6
  <2>2. i \in 1 .. n /\ \A j \in i + 1 .. n : j \in i + 1 .. n + 1
    BY <1>2, <1>4, <2>1
  <2>3. LastDeltas(src, n, i)
    BY <1>4, <2>2 DEF LastDeltas
  <2>4. book = BookOf(RowOf(frames, src[i]))
    BY <2>3 DEF BookIs
  <2>5. Applied(book, e) = book
    <3>1. e.type = "quote"
      BY <1>5, <1>6
    <3> HIDE DEF e
    <3> QED BY <3>1 DEF Applied
  <2> QED BY <2>4, <2>5
<1>7. CASE x.kind = "deltas"
  <2>1. i = n + 1
    <3> SUFFICES ASSUME i # n + 1 PROVE FALSE
      OBVIOUS
    <3>1. n + 1 \in i + 1 .. n + 1
      BY <1>2, <1>4
    <3> QED BY <1>4, <1>7, <3>1
  <2>2. e = DeltasAt(rows, start, k)[1] /\ DeltasAt(rows, start, k) # <<>>
    BY <1>5, <1>7 DEF Piece
  <2>3. rows \in Seq(BookRows) /\ Len(rows) \in Nat
    BY <1>1, <1>5, DayRowsAre
  <2>4. ASSUME Emitted(rows, start, k - 1) PROVE book = BookOf(rows[k - 1])
    <3> DEFINE d == x.day
               l == k - 1
    <3>1. l \in 1 .. Len(rows) /\ l < k
      <4>1. PICK j \in 1 .. k - 1 : TRUE
        BY <2>4 DEF Emitted
      <4> QED BY <1>5, <2>3, <4>1
    <3>2. ASSUME NEW w \in S, w.day = d, w.kind = "deltas", w.row <= l PROVE \E j \in 1 .. n : src[j] = w
      <4>1. PICK j \in 1 .. Len(s) : src[j] = w
        BY <1>1 DEF Gives
      <4>2. w.row < k /\ w.row \in Int /\ k \in Int
        BY <1>1, <1>5, <3>1, <3>2, SourceIs
      <4>3. ~(n + 1 < j)
        <5> SUFFICES ASSUME n + 1 < j PROVE FALSE
          OBVIOUS
        <5>1. <<x, w>> \in Follows(frames)
          BY <1>1, <1>2, <4>1 DEF Gives
        <5>2. x.row < w.row
          BY <1>1, <1>3, <1>7, <3>2, <5>1, FollowsMeans
        <5> QED BY <4>2, <5>2
      <4>4. j # n + 1
        BY <4>1, <4>2
      <4>5. j \in 1 .. n
        BY <1>2, <4>3, <4>4
      <4> QED BY <4>1, <4>5
    <3>3. ASSUME NEW j \in 1 .. n, src[j].kind = "deltas" PROVE src[j].day <= d /\ (src[j].day = d => src[j].row <= l)
      <4>1. j \in 1 .. Len(s) /\ j < n + 1
        BY <1>2
      <4>2. src[j] \in S /\ <<src[j], x>> \in Follows(frames)
        BY <1>1, <1>2, <4>1 DEF Gives
      <4>3. src[j].day <= d /\ (src[j].day = d => src[j].row < k)
        BY <1>1, <1>3, <1>7, <3>3, <4>2, FollowsMeans
      <4>4. src[j].row \in Int /\ k \in Int
        BY <1>1, <1>5, <4>2, SourceIs
      <4> QED BY <4>3, <4>4
    <3> HIDE DEF S, x, rows, start, l
    <3>4. \E j \in 1 .. n : LastDeltas(src, n, j) /\ BookOf(RowOf(frames, src[j])) = BookOf(rows[l])
      <4>1. l \in 1 .. Len(DayRows(frames, d)) /\ Emitted(DayRows(frames, d), From(d), l)
        BY <2>4, <3>1 DEF rows, start, l
      <4>2. \A w \in SourcesTo(frames, Days) :
              w.day = d /\ w.kind = "deltas" /\ w.row <= l => \E j \in 1 .. n : src[j] = w
        BY <3>2 DEF S
      <4>3. \A j \in 1 .. n : src[j].kind = "deltas" => src[j].day <= d /\ (src[j].day = d => src[j].row <= l)
        BY <3>3
      <4>4. \E j \in 1 .. n : LastDeltas(src, n, j) /\ BookOf(RowOf(frames, src[j])) = BookOf(DayRows(frames, d)[l])
        <5> HIDE DEF d
        <5>1. d \in 1 .. Days
          BY <1>5 DEF d
        <5> QED BY <4>1, <4>2, <4>3, <5>1, BookTill
      <4> QED BY <4>4 DEF rows
    <3> QED BY <3>4 DEF BookIs, l
  <2>5. RowOf(frames, src[i]) = rows[k]
    BY <2>1 DEF RowOf
  <2>6. Applied(book, e) = BookOf(rows[k])
    <3> HIDE DEF rows, start, k, e
    <3> QED BY <1>5, <2>2, <2>3, <2>4, DeltasMake
  <2> QED BY <2>5, <2>6
<1> QED BY <1>5, <1>6, <1>7

\* The rows until a time are, up to any row, those of the day.
LEMMA RowUntil ==
  ASSUME NEW frames \in Books, NEW d \in 1 .. Days, NEW t \in Int, t <= Until(d),
         NEW k \in 1 .. Len(DayRows(frames, d)), DayRows(frames, d)[k].ts <= t
  PROVE  \E q \in 1 .. Len(RowsTill(frames[d], t)) :
           /\ RowsTill(frames[d], t)[q] = DayRows(frames, d)[k]
           /\ \A i \in q + 1 .. Len(RowsTill(frames[d], t)) :
                \E j \in k + 1 .. Len(DayRows(frames, d)) :
                  RowsTill(frames[d], t)[i] = DayRows(frames, d)[j] /\ DayRows(frames, d)[j].ts <= t
<1> DEFINE frame == frames[d]
           rows == DayRows(frames, d)
           s == RowsTill(frame, t)
           R == RowOrder(frame)
           P(u) == {i \in DOMAIN frame : frame[i].ts <= u}
<1>1. frame \in Seq(BookRows) /\ Len(rows) \in Nat /\ Lists(rows, P(Until(d)), frame, R)
  BY DayRowsAre
<1>2. Lists(s, P(t), frame, R)
  <2> HIDE DEF frame
  <2> QED BY <1>1, RowsUntilEnd
<1>3. PICK a : Gives(rows, P(Until(d)), frame, R, a)
  BY <1>1 DEF Lists
<1>4. PICK b : Gives(s, P(t), frame, R, b)
  BY <1>2 DEF Lists
<1>5. Len(s) \in Nat
  BY <1>2, ListHas DEF Lists
<1>6. \A i \in DOMAIN frame : i \in Int /\ frame[i].ts \in Int
  <2>1. \A r \in BookRows : r.ts \in Int
    BY DEF BookRows
  <2> HIDE DEF frame
  <2>2. \A i \in DOMAIN frame : i \in Int /\ frame[i] \in BookRows
    BY <1>1
  <2> QED BY <2>1, <2>2
<1>7. Until(d) \in Int
  BY WindowsApart
<1>8. P(t) \subseteq P(Until(d))
  <2> HIDE DEF frame
  <2> QED BY <1>6, <1>7
<1>9. \A x, y \in DOMAIN frame : <<x, y>> \in R => <<y, x>> \notin R
  <2> HIDE DEF frame
  <2> QED BY <1>6 DEF RowOrder
<1> HIDE DEF frame, rows, s, R
<1>10. a[k] \in P(t) /\ rows[k] = frame[a[k]]
  <2>1. a[k] \in P(Until(d)) /\ rows[k] = frame[a[k]]
    BY <1>3 DEF Gives, rows
  <2> QED BY <2>1 DEF rows
<1>11. PICK q \in 1 .. Len(s) : b[q] = a[k]
  BY <1>4, <1>10 DEF Gives
<1>12. s[q] = rows[k]
  BY <1>4, <1>10, <1>11 DEF Gives
<1>13. \A i \in q + 1 .. Len(s) : \E j \in k + 1 .. Len(rows) : s[i] = rows[j] /\ rows[j].ts <= t
  <2> TAKE i \in q + 1 .. Len(s)
  <2>1. i \in 1 .. Len(s) /\ q < i
    BY <1>5
  <2>2. b[i] \in P(t) /\ s[i] = frame[b[i]] /\ <<b[q], b[i]>> \in R
    BY <1>4, <1>11, <2>1 DEF Gives
  <2>3. PICK j \in 1 .. Len(rows) : a[j] = b[i]
    BY <1>3, <1>8, <2>2 DEF Gives
  <2>4. rows[j] = frame[b[i]]
    BY <1>3, <2>3 DEF Gives
  <2>5. k < j
    <3> SUFFICES ASSUME ~(k < j) PROVE FALSE
      OBVIOUS
    <3>0. k \in 1 .. Len(rows)
      BY DEF rows
    <3>1. CASE j < k
      <4>1. <<a[j], a[k]>> \in R
        BY <1>3, <3>0, <3>1 DEF Gives
      <4> QED BY <1>9, <1>10, <1>11, <2>2, <2>3, <4>1
    <3>2. CASE j = k
      BY <1>9, <1>10, <1>11, <2>2, <2>3, <3>2
    <3> QED BY <1>1, <3>0, <3>1, <3>2
  <2>6. j \in k + 1 .. Len(rows)
    BY <1>1, <2>5 DEF rows
  <2> QED BY <2>2, <2>4, <2>6
<1> QED BY <1>12, <1>13 DEF s, rows, frame

\* Before a later time the records of the rows up to a time are all there: the last row of the
\* time made the book, and the last quote is of the last row with two sides.
LEMMA BookThen ==
  ASSUME NEW frames, NEW s, NEW src, Told(frames, s, src), NEW n \in 1 .. Len(s),
         n = Len(s) \/ s[n + 1].ts > s[n].ts
  PROVE  \E l \in src[n].row .. Len(DayRows(frames, src[n].day)) :
           /\ DayRows(frames, src[n].day)[l].ts = s[n].ts
           /\ \A j \in l + 1 .. Len(DayRows(frames, src[n].day)) : ~(DayRows(frames, src[n].day)[j].ts <= s[n].ts)
           /\ \E i \in 1 .. n :
                LastDeltas(src, n, i) /\ BookOf(RowOf(frames, src[i])) = BookOf(DayRows(frames, src[n].day)[l])
           /\ src[n].kind = "quote" =>
                \A j \in src[n].row + 1 .. l :
                  BidsOf(DayRows(frames, src[n].day)[j]) = <<>> \/ AsksOf(DayRows(frames, src[n].day)[j]) = <<>>
<1> DEFINE S == SourcesTo(frames, Days)
           x == src[n]
           d == x.day
           k == x.row
           t == s[n].ts
           rows == DayRows(frames, d)
           L == {j \in 1 .. Len(rows) : rows[j].ts <= t}
<1>1. frames \in Books /\ Len(s) \in Nat /\ Gives(s, S, EventOf(frames), Follows(frames), src)
  BY DEF Told
<1>2. /\ src \in [1 .. Len(s) -> S]
      /\ \A w \in S : \E i \in 1 .. Len(s) : src[i] = w
      /\ \A i \in 1 .. Len(s) : s[i] = EventOf(frames)[src[i]]
      /\ \A i, j \in 1 .. Len(s) : i < j => <<src[i], src[j]>> \in Follows(frames)
  BY <1>1 DEF Gives
<1>3. \A i \in 1 .. Len(s) : src[i] \in S /\ s[i].ts = TimeOf(frames, src[i]) /\ s[i].ts \in Int
  <2> TAKE i \in 1 .. Len(s)
  <2>1. src[i] \in S /\ s[i] = EventOf(frames)[src[i]]
    BY <1>2
  <2> QED BY <1>1, <2>1, SourceIs
<1>4. x \in S /\ t = TimeOf(frames, x) /\ t \in Int
  BY <1>3
<1>5. d \in 1 .. Days /\ k \in 1 .. Len(rows) /\ From(d) <= t /\ t <= Until(d) /\ t = rows[k].ts /\ From(d) \in Int
  <2>1. d \in 1 .. Days /\ k \in 1 .. Len(rows) /\ From(d) <= TimeOf(frames, x) /\ TimeOf(frames, x) <= Until(d)
    BY <1>1, <1>4, SourceIs
  <2>2. TimeOf(frames, x) = rows[k].ts
    BY DEF TimeOf
  <2>3. From(d) \in Int
    <3>1. d \in Int
      BY <2>1
    <3> HIDE DEF d
    <3> QED BY <3>1, WindowsApart
  <2> HIDE DEF t, d, rows, k
  <2> QED BY <1>4, <2>1, <2>2, <2>3
<1>6. /\ Len(rows) \in Nat
      /\ \A j \in 1 .. Len(rows) : rows[j].ts \in Int
      /\ \A i, j \in 1 .. Len(rows) : i <= j => rows[i].ts <= rows[j].ts
  BY <1>1, <1>5, DayRowsAre
<1>7. Emitted(rows, From(d), k)
  BY <1>1, <1>4, SourceEmits
<1> HIDE DEF rows, t
<1>8. PICK l \in L : \A j \in L : l >= j
  <2>1. L \in SUBSET Int /\ L \subseteq 1 .. Len(rows) /\ k \in L
    BY <1>4, <1>5
  <2>2. IsFiniteSet(1 .. Len(rows))
    BY <1>6, FS_Interval
  <2>3. IsFiniteSet(L) /\ L # {}
    BY <2>1, <2>2, FS_Subset
  <2> HIDE DEF L
  <2> QED BY <2>1, <2>3, GreatestIn
<1>9. k \in L /\ l \in 1 .. Len(rows) /\ rows[l].ts <= t
  BY <1>4, <1>5, <1>8
<1>10. k <= l /\ l \in k .. Len(rows) /\ rows[l].ts = t
  <2>1. k <= l /\ l \in k .. Len(rows)
    BY <1>8, <1>9
  <2>2. rows[k].ts <= rows[l].ts /\ rows[l].ts \in Int
    BY <1>5, <1>6, <1>9, <2>1
  <2> QED BY <1>4, <1>5, <1>9, <2>1, <2>2
<1>11. \A j \in l + 1 .. Len(rows) : ~(rows[j].ts <= t)
  <2> SUFFICES ASSUME NEW j \in l + 1 .. Len(rows), rows[j].ts <= t PROVE FALSE
    OBVIOUS
  <2>1. j \in L /\ ~(l >= j)
    BY <1>9
  <2> QED BY <1>8, <2>1
\* What is of the time is among the first n.
<1>12. ASSUME NEW w \in S, TimeOf(frames, w) <= t PROVE \E i \in 1 .. n : src[i] = w
  <2>1. PICK i \in 1 .. Len(s) : src[i] = w
    BY <1>2
  <2>2. i <= n
    <3> SUFFICES ASSUME n < i PROVE FALSE
      BY <1>1
    <3>1. n + 1 \in 1 .. Len(s) /\ n # Len(s) /\ n + 1 <= i
      BY <1>1
    <3>2. s[n + 1].ts > t /\ s[n + 1].ts \in Int /\ s[i].ts \in Int /\ s[i].ts = TimeOf(frames, w)
      BY <1>3, <2>1, <3>1 DEF t
    <3>3. s[n + 1].ts <= s[i].ts
      <4>1. CASE n + 1 = i
        BY <3>2, <4>1
      <4>2. CASE n + 1 # i
        <5>1. n + 1 < i
          BY <1>1, <3>1, <4>2
        <5>2. <<src[n + 1], src[i]>> \in Follows(frames) /\ src[n + 1] \in S /\ src[i] \in S
          BY <1>2, <1>3, <3>1, <5>1
        <5>3. TimeOf(frames, src[n + 1]) <= TimeOf(frames, src[i])
          BY <1>1, <5>2, FollowsMeans
        <5> QED BY <1>3, <3>1, <5>3
      <4> QED BY <4>1, <4>2
    <3> QED BY <1>4, <1>12, <3>2, <3>3
  <2>3. i \in 1 .. n
    BY <2>2
  <2> QED BY <2>1, <2>3
<1>13. \E i \in 1 .. n : LastDeltas(src, n, i) /\ BookOf(RowOf(frames, src[i])) = BookOf(rows[l])
  <2>1. Emitted(rows, From(d), l)
    <3>1. 1 .. k \subseteq 1 .. l
      BY <1>5, <1>9, <1>10
    <3> QED BY <1>7, <3>1 DEF Emitted
  <2>2. ASSUME NEW w \in S, w.day = d, w.row <= l PROVE \E i \in 1 .. n : src[i] = w
    <3>1. w.row \in 1 .. Len(DayRows(frames, w.day)) /\ TimeOf(frames, w) = DayRows(frames, w.day)[w.row].ts
      BY <1>1, SourceIs DEF TimeOf
    <3>2. w.row \in 1 .. Len(rows) /\ TimeOf(frames, w) = rows[w.row].ts
      BY <2>2, <3>1 DEF rows
    <3>3. TimeOf(frames, w) <= t
      BY <1>6, <1>9, <1>10, <2>2, <3>2
    <3> QED BY <1>12, <3>3
  <2>3. ASSUME NEW i \in 1 .. n PROVE src[i].day <= d /\ (src[i].day = d => src[i].row <= l)
    <3>1. i \in 1 .. Len(s) /\ i <= n
      BY <1>1
    <3>2. src[i] \in S /\ src[i].day \in Int /\ src[i].row \in 1 .. Len(DayRows(frames, src[i].day)) /\ d \in Int
      BY <1>1, <1>3, <1>5, <3>1, SourceIs
    <3>3. TimeOf(frames, src[i]) <= t /\ src[i].day <= d
      <4>1. CASE i = n
        BY <1>4, <3>2, <4>1
      <4>2. CASE i # n
        <5>1. <<src[i], x>> \in Follows(frames)
          BY <1>2, <3>1, <4>2
        <5>2. TimeOf(frames, src[i]) <= TimeOf(frames, x) /\ src[i].day <= x.day
          BY <1>1, <1>4, <3>2, <5>1, FollowsMeans
        <5> QED BY <1>4, <5>2
      <4> QED BY <4>1, <4>2
    <3>4. ASSUME src[i].day = d PROVE src[i].row <= l
      <4>1. src[i].row \in 1 .. Len(rows) /\ TimeOf(frames, src[i]) = rows[src[i].row].ts
        BY <3>2, <3>4 DEF TimeOf, rows
      <4>2. src[i].row \in L
        BY <3>3, <4>1
      <4> QED BY <1>8, <4>2
    <3> QED BY <3>3, <3>4
  <2> DEFINE m == n
  <2>4. m \in 0 .. Len(s)
    BY <1>1
  <2>5. \E i \in 1 .. m : LastDeltas(src, m, i) /\ BookOf(RowOf(frames, src[i])) = BookOf(DayRows(frames, d)[l])
    <3>1. l \in 1 .. Len(DayRows(frames, d)) /\ Emitted(DayRows(frames, d), From(d), l)
      BY <1>9, <2>1 DEF rows
    <3>2. \A w \in SourcesTo(frames, Days) :
            w.day = d /\ w.kind = "deltas" /\ w.row <= l => \E i \in 1 .. m : src[i] = w
      BY <2>2
    <3>3. \A i \in 1 .. m : src[i].kind = "deltas" => src[i].day <= d /\ (src[i].day = d => src[i].row <= l)
      BY <2>3
    <3>4. d \in 1 .. Days
      BY <1>5
    <3> HIDE DEF d, m, L, x, k, S
    <3> QED BY <2>4, <3>1, <3>2, <3>3, <3>4, BookTill
  <2> QED BY <2>5 DEF rows
<1>14. ASSUME x.kind = "quote", NEW j \in k + 1 .. l PROVE BidsOf(rows[j]) = <<>> \/ AsksOf(rows[j]) = <<>>
  <2> SUFFICES ASSUME BidsOf(rows[j]) # <<>>, AsksOf(rows[j]) # <<>> PROVE FALSE
    OBVIOUS
  <2> DEFINE w == Source(d, j, "quote")
  <2>1. j \in 1 .. Len(rows) /\ k < j /\ j <= l /\ k <= j
    BY <1>5, <1>9
  <2>2. rows[j].ts = t
    <3>1. t <= rows[j].ts /\ rows[j].ts <= t /\ rows[j].ts \in Int
      <4> HIDE DEF k
      <4> QED BY <1>5, <1>6, <1>9, <1>10, <2>1
    <3> QED BY <1>4, <3>1
  <2>3. w.day = d /\ w.row = j /\ w.kind = "quote" /\ w \in [day : {d}, row : 1 .. Len(rows), kind : {"deltas", "quote"}]
    BY <2>1 DEF Source
  <2> HIDE DEF w
  <2>4. Piece(rows, From(d), w) # <<>>
    <3>1. Piece(rows, From(d), w) = QuoteOf(rows[j].ts, BidsOf(rows[j]), AsksOf(rows[j]))
      BY <2>3 DEF Piece, QuoteAt
    <3>2. \A e : <<e>> # <<>>
      OBVIOUS
    <3> QED BY <3>1, <3>2 DEF QuoteOf
  <2>5. ~(rows[j].ts < From(d))
    BY <1>4, <1>5, <2>2
  <2>6. w \in S
    <3>1. w \in SourcesOf(frames, d)
      BY <2>3, <2>4, <2>5 DEF SourcesOf, DaySources, rows
    <3> QED BY <1>5, <3>1 DEF SourcesTo
  <2>7. TimeOf(frames, w) = t
    BY <2>2, <2>3 DEF TimeOf, rows
  <2>8. PICK i \in 1 .. n : src[i] = w
    BY <1>4, <1>12, <2>6, <2>7
  <2>9. i # n /\ i < n
    BY <2>1, <2>3, <2>8
  <2>10. <<w, x>> \in Follows(frames)
    BY <1>1, <1>2, <2>8, <2>9
  <2>11. w.row < x.row
    BY <1>1, <1>4, <1>14, <2>3, <2>6, <2>10, FollowsMeans
  <2>12. j < k
    BY <2>3, <2>11
  <2> QED BY <1>5, <2>1, <2>12
<1> QED BY <1>10, <1>11, <1>13, <1>14 DEF rows, t

\* When the engine is about to go on to a later time its book is that of the last row.
LEMMA BookShown ==
  ASSUME FeedInv, feed.applied > 0
  PROVE  BookRebuilt
<1> DEFINE frames == feed.frames
           s == feed.records
           n == feed.applied
           now == s[n]
           t == now.ts
<1>1. frames \in Books /\ n \in Int /\ n # NotLoaded
  BY DEF FeedInv, NotLoaded
<1>2. s = LoadRecords(frames, FeedStart, FeedEnd, DayLength) /\ n \in 0 .. Len(s) /\ BookIs(frames, s, n, feed.book)
  BY <1>1 DEF FeedInv
<1>3. PICK src : Told(frames, s, src)
  BY <1>1, <1>2, RecordsTold
<1>4. n \in 1 .. Len(s)
  BY <1>1, <1>2
<1> SUFFICES ASSUME n = Len(s) \/ s[n + 1].ts > now.ts
             PROVE  LET rows == RowsUntil(t)
                        quoted == Last(Keep(rows, LAMBDA r : BidsOf(r) # <<>> /\ AsksOf(r) # <<>>))
                    IN  /\ feed.book = BookOf(Last(rows))
                        /\ now.type = "quote" =>
                             /\ quoted.ts = t
                             /\ now.bid = Last(BidsOf(quoted)).price
                             /\ now.ask = Last(AsksOf(quoted)).price
  BY DEF BookRebuilt, BookOf, BidsOf, AsksOf
<1> DEFINE x == src[n]
           d == x.day
           k == x.row
           rows == DayRows(frames, d)
           till == RowsUntil(t)
<1>5. x \in SourcesTo(frames, Days) /\ now = EventOf(frames)[x]
  BY <1>3, <1>4 DEF Told, Gives
<1>6. /\ d \in 1 .. Days /\ k \in 1 .. Len(rows) /\ From(d) <= t /\ t <= Until(d) /\ t \in Int /\ now.type = x.kind
      /\ t = rows[k].ts /\ now = Piece(rows, From(d), x)[1] /\ Piece(rows, From(d), x) # <<>>
  BY <1>1, <1>5, SourceIs DEF TimeOf
<1>7. till = RowsTill(frames[d], t)
  <2>1. d \in Int
    BY <1>6
  <2>2. DayOf(t, DayLength) = DayOf(FeedStart, DayLength) + d - 1
    <3> HIDE DEF d, t
    <3> QED BY <1>6, <2>1, WindowsApart DEF DateAt
  <2>3. DayOf(t, DayLength) - DayOf(FeedStart, DayLength) + 1 = d
    BY <2>1, <2>2, DaysCount
  <2>4. till = RowsTill(frames[DayOf(t, DayLength) - DayOf(FeedStart, DayLength) + 1], t)
    BY DEF RowsUntil, RowsTill, Keep
  <2> QED BY <2>3, <2>4
<1>8. till \in Seq(BookRows) /\ Len(till) \in Nat
  <2>1. frames[d] \in Seq(BookRows)
    BY <1>1, <1>6, DayRowsAre
  <2>2. till \in Seq(BookRows)
    BY <1>7, <2>1, RowsUntilEnd
  <2> HIDE DEF till
  <2> QED BY <2>2
<1>9. PICK l \in k .. Len(rows) :
        /\ rows[l].ts = t
        /\ \A j \in l + 1 .. Len(rows) : ~(rows[j].ts <= t)
        /\ \E i \in 1 .. n : LastDeltas(src, n, i) /\ BookOf(RowOf(frames, src[i])) = BookOf(rows[l])
        /\ x.kind = "quote" => \A j \in k + 1 .. l : BidsOf(rows[j]) = <<>> \/ AsksOf(rows[j]) = <<>>
  <2>1. n = Len(s) \/ s[n + 1].ts > s[n].ts
    OBVIOUS
  <2> HIDE DEF frames, s, n, now, t, x, d, k, rows, till
  <2>2. \E l \in src[n].row .. Len(DayRows(frames, src[n].day)) :
          /\ DayRows(frames, src[n].day)[l].ts = s[n].ts
          /\ \A j \in l + 1 .. Len(DayRows(frames, src[n].day)) : ~(DayRows(frames, src[n].day)[j].ts <= s[n].ts)
          /\ \E i \in 1 .. n :
               LastDeltas(src, n, i) /\ BookOf(RowOf(frames, src[i])) = BookOf(DayRows(frames, src[n].day)[l])
          /\ src[n].kind = "quote" =>
               \A j \in src[n].row + 1 .. l :
                 BidsOf(DayRows(frames, src[n].day)[j]) = <<>> \/ AsksOf(DayRows(frames, src[n].day)[j]) = <<>>
    BY <1>3, <1>4, <2>1, BookThen
  <2> QED BY <2>2 DEF now, t, x, d, k, rows
<1>10. Len(rows) \in Nat /\ l \in 1 .. Len(rows) /\ k \in Int /\ k <= l
  <2>1. Len(rows) \in Nat
    BY <1>1, <1>6, DayRowsAre
  <2> HIDE DEF rows, k
  <2> QED BY <1>6, <1>9, <2>1
<1> HIDE DEF till, rows, t
<1>11. \A i \in 1 .. Len(rows) : rows[i].ts <= t => 
         \E q \in 1 .. Len(till) :
           /\ till[q] = rows[i]
           /\ \A h \in q + 1 .. Len(till) : \E j \in i + 1 .. Len(rows) : till[h] = rows[j] /\ rows[j].ts <= t
  <2> TAKE i \in 1 .. Len(rows)
  <2> HAVE rows[i].ts <= t
  <2> HIDE DEF frames
  <2>1. d \in 1 .. Days /\ t <= Until(d) /\ t \in Int /\ i \in 1 .. Len(DayRows(frames, d)) /\ DayRows(frames, d)[i].ts <= t
    BY <1>6 DEF rows
  <2> HIDE DEF d, x, k
  <2>2. \E q \in 1 .. Len(RowsTill(frames[d], t)) :
          /\ RowsTill(frames[d], t)[q] = DayRows(frames, d)[i]
          /\ \A h \in q + 1 .. Len(RowsTill(frames[d], t)) :
               \E j \in i + 1 .. Len(DayRows(frames, d)) :
                 RowsTill(frames[d], t)[h] = DayRows(frames, d)[j] /\ DayRows(frames, d)[j].ts <= t
    BY <1>1, <2>1, RowUntil
  <2> QED BY <1>7, <2>2 DEF rows
<1>12. Last(till) = rows[l]
  <2>1. PICK q \in 1 .. Len(till) :
          /\ till[q] = rows[l]
          /\ \A h \in q + 1 .. Len(till) : \E j \in l + 1 .. Len(rows) : till[h] = rows[j] /\ rows[j].ts <= t
    BY <1>6, <1>9, <1>10, <1>11
  <2>2. q = Len(till)
    <3> SUFFICES ASSUME q # Len(till) PROVE FALSE
      OBVIOUS
    <3>1. Len(till) \in q + 1 .. Len(till)
      BY <1>8
    <3> QED BY <1>9, <2>1, <3>1
  <2> QED BY <2>1, <2>2 DEF Last
<1>13. feed.book = BookOf(rows[l])
  BY <1>2, <1>3, <1>9 DEF BookIs
<1>14. ASSUME now.type = "quote"
       PROVE  LET quoted == Last(Keep(till, LAMBDA r : BidsOf(r) # <<>> /\ AsksOf(r) # <<>>))
              IN  /\ quoted.ts = t /\ now.bid = Last(BidsOf(quoted)).price /\ now.ask = Last(AsksOf(quoted)).price
  <2> DEFINE bids == BidsOf(rows[k])
             asks == AsksOf(rows[k])
             P == {i \in DOMAIN till : BidsOf(till[i]) # <<>> /\ AsksOf(till[i]) # <<>>}
  <2>1. x.kind = "quote"
    BY <1>6, <1>14
  <2>2. /\ QuoteOf(rows[k].ts, bids, asks) # <<>>
        /\ now = QuoteOf(rows[k].ts, bids, asks)[1]
    BY <1>6, <2>1 DEF Piece, QuoteAt
  <2>3. bids # <<>> /\ asks # <<>> /\ now = Quote(rows[k].ts, Last(bids).price, Last(asks).price)
    <3> HIDE DEF bids, asks, now
    <3>1. \A e : <<e>>[1] = e
      OBVIOUS
    <3>2. bids # <<>> /\ asks # <<>>
      BY <2>2 DEF QuoteOf
    <3>3. QuoteOf(rows[k].ts, bids, asks) = <<Quote(rows[k].ts, Last(bids).price, Last(asks).price)>>
      BY <3>2 DEF QuoteOf
    <3> QED BY <2>2, <3>1, <3>2, <3>3
  <2>4. now.bid = Last(bids).price /\ now.ask = Last(asks).price
    BY <2>3 DEF Quote
  <2>5. k \in 1 .. Len(rows) /\ rows[k].ts <= t
    BY <1>6, <1>10
  <2>6. PICK q \in 1 .. Len(till) :
          /\ till[q] = rows[k]
          /\ \A h \in q + 1 .. Len(till) : \E j \in k + 1 .. Len(rows) : till[h] = rows[j] /\ rows[j].ts <= t
    BY <1>11, <2>5
  <2>7. P \in SUBSET DOMAIN till /\ DOMAIN till = 1 .. Len(till)
    BY <1>8
  <2>8. q \in P
    BY <2>3, <2>6, <2>7
  <2>9. \A h \in P : ~(q < h)
    <3> SUFFICES ASSUME NEW h \in P, q < h PROVE FALSE
      OBVIOUS
    <3>1. h \in q + 1 .. Len(till)
      BY <2>7
    <3>2. PICK j \in k + 1 .. Len(rows) : till[h] = rows[j] /\ rows[j].ts <= t
      BY <2>6, <3>1
    <3>3. ~(j \in l + 1 .. Len(rows))
      BY <1>9, <3>2
    <3>4. j \in k + 1 .. l
      BY <1>10, <3>2, <3>3
    <3>5. BidsOf(rows[j]) = <<>> \/ AsksOf(rows[j]) = <<>>
      BY <1>9, <2>1, <3>4
    <3> QED BY <3>2, <3>5
  <2>10. Keep(till, LAMBDA r : BidsOf(r) # <<>> /\ AsksOf(r) # <<>>) = Picked(till, P)
    BY DEF Keep
  <2>11. Last(Picked(till, P)) = till[q]
    <3> DEFINE R == {p \in P \X P : p[1] < p[2]}
    <3>1. \A h \in P : <<q, h>> \notin R
      BY <2>9
    <3>2. Lists(Picked(till, P), P, till, R)
      <4> HIDE DEF P
      <4> QED BY <1>8, <2>7, PickedLists
    <3> HIDE DEF P, R
    <3> QED BY <2>8, <3>1, <3>2, LastListed
  <2>12. rows[k].ts = t
    BY <1>6
  <2> QED BY <2>4, <2>6, <2>10, <2>11, <2>12
<1> QED BY <1>12, <1>13, <1>14 DEF till, t

-----------------------------------------------------------------------------
\* The replay starts with the frames and no records.
LEMMA FeedInits == FeedInit => FeedInv
<1> SUFFICES ASSUME FeedInit PROVE FeedInv
  OBVIOUS
<1>1. PICK frames \in Books : feed = [frames |-> frames, records |-> <<>>, applied |-> NotLoaded, book |-> NoBook]
  BY DEF FeedInit
<1>2. DOMAIN feed = {"frames", "records", "applied", "book"} /\ feed.frames = frames /\ feed.applied = NotLoaded
  BY <1>1
<1>3. NotLoaded \in Int
  BY DEF NotLoaded
<1> QED BY <1>2, <1>3 DEF FeedInv

\* Loading makes the records of the frames; each step applies the next of them.
LEMMA FeedSteps == FeedInv /\ FeedNext => FeedInv'
<1> SUFFICES ASSUME FeedInv, FeedNext PROVE FeedInv'
  OBVIOUS
<1>1. DOMAIN feed = {"frames", "records", "applied", "book"} /\ feed.frames \in Books /\ feed.applied \in Int
  BY DEF FeedInv
<1>2. CASE LoadBook
  <2> DEFINE s == LoadRecords(feed.frames, FeedStart, FeedEnd, DayLength)
  <2>1. feed' = [feed EXCEPT !.records = s, !.applied = 0]
    BY <1>2 DEF LoadBook
  <2>2. Len(s) \in Nat
    BY <1>1, RecordsTold DEF Told
  <2> HIDE DEF s
  <2>3. /\ DOMAIN feed' = DOMAIN feed /\ feed'.frames = feed.frames /\ feed'.records = s /\ feed'.applied = 0
    BY <1>1, <2>1
  <2>4. \A book : BookIs(feed.frames, s, 0, book)
    BY DEF BookIs, LastDeltas
  <2>5. 0 \in 0 .. Len(s)
    BY <2>2
  <2> QED BY <1>1, <2>3, <2>4, <2>5 DEF FeedInv, s
<1>3. CASE Feed
  <2> DEFINE s == feed.records
             n == feed.applied
             m == n + 1
             book == Applied(feed.book, s[m])
  <2>1. n # NotLoaded /\ n < Len(s) /\ feed' = [feed EXCEPT !.applied = m, !.book = book]
    BY <1>3 DEF Feed
  <2>2. /\ s = LoadRecords(feed.frames, FeedStart, FeedEnd, DayLength) /\ n \in 0 .. Len(s)
        /\ BookIs(feed.frames, s, n, feed.book)
    BY <2>1 DEF FeedInv
  <2>3. Len(s) \in Nat
    BY <1>1, <2>2, RecordsTold DEF Told
  <2>4. BookIs(feed.frames, s, m, book)
    <3> HIDE DEF s, n
    <3> QED BY <2>1, <2>2, <2>3, OneRecordMore
  <2>5. m \in 0 .. Len(s) /\ m \in Int
    BY <2>1, <2>2, <2>3
  <2> HIDE DEF m, book
  <2>6. /\ DOMAIN feed' = DOMAIN feed /\ feed'.frames = feed.frames /\ feed'.records = s
        /\ feed'.applied = m /\ feed'.book = book
    BY <1>1, <2>1
  <2> HIDE DEF s
  <2> QED BY <1>1, <2>2, <2>4, <2>5, <2>6 DEF FeedInv
<1> QED BY <1>2, <1>3 DEF FeedNext

-----------------------------------------------------------------------------
(* The book a replay rebuilds                                              *)

\* Only when a book is rebuilt is there anything applied.
RebuildInv == IF activity = "book" THEN FeedInv ELSE feed = [applied |-> NotLoaded]

\* Only the steps of the feed change it.
LEMMA RebuildInvariant == DataSpec => []RebuildInv
<1>1. DataInit => RebuildInv
  <2> SUFFICES ASSUME DataInit PROVE RebuildInv
    OBVIOUS
  <2>1. activity = "book" => FeedInit
    BY DEF DataInit
  <2>2. activity # "book" => feed = [applied |-> NotLoaded]
    BY DEF DataInit
  <2> QED BY <2>1, <2>2, FeedInits DEF RebuildInv
<1>2. RebuildInv /\ [DataNext]_dataVars => RebuildInv'
  <2> SUFFICES ASSUME RebuildInv, [DataNext]_dataVars PROVE RebuildInv'
    OBVIOUS
  <2>1. CASE activity = "book" /\ FeedNext /\ UNCHANGED activity
    <3>1. FeedInv'
      BY <2>1, FeedSteps DEF RebuildInv
    <3>2. activity' = "book"
      BY <2>1
    <3> QED BY <3>1, <3>2 DEF RebuildInv
  <2>2. CASE UNCHANGED <<activity, feed>>
    <3>1. activity' = activity /\ feed' = feed
      BY <2>2
    <3> QED BY <3>1 DEF RebuildInv, FeedInv
  <2>3. DataNext => (activity = "book" /\ FeedNext /\ UNCHANGED activity) \/ UNCHANGED <<activity, feed>>
    BY DEF DataNext
  <2>4. UNCHANGED dataVars => UNCHANGED <<activity, feed>>
    BY DEF dataVars
  <2> QED BY <2>1, <2>2, <2>3, <2>4
<1> QED BY <1>1, <1>2, PTL DEF DataSpec

\* Whenever the engine is about to go on to a later time its book is the vendor's of the last
\* row up to then, and the quote it was given last shows the touch of the last row of its time
\* with two sides (_book_events_from_frame and load_order_book_and_quotes, which send the
\* first book of a day's window as a snapshot and the later ones as differences, and sort the
\* records of all days once more).
THEOREM BookFollows == DataSpec => []BookRebuilt
<1>1. RebuildInv => BookRebuilt
  <2> SUFFICES ASSUME RebuildInv PROVE BookRebuilt
    OBVIOUS
  <2>1. CASE feed.applied > 0
    <3>1. activity = "book"
      <4> SUFFICES ASSUME activity # "book" PROVE FALSE
        OBVIOUS
      <4>1. feed.applied = NotLoaded
        BY DEF RebuildInv
      <4> QED BY <2>1, <4>1 DEF NotLoaded
    <3> QED BY <2>1, <3>1, BookShown DEF RebuildInv
  <2>2. CASE ~(feed.applied > 0)
    BY <2>2 DEF BookRebuilt
  <2> QED BY <2>1, <2>2
<1> QED BY <1>1, RebuildInvariant, PTL
=============================================================================
