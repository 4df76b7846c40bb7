------------------------------ MODULE Discovery -----------------------------
(***************************************************************************)
(* The search for markets to replay (adapters/polymarket/research.py,      *)
(* adapters/polymarket/gamma_markets.py, adapters/kalshi/research.py):     *)
(* lists fetched page by page while the venue's lists change, then         *)
(* filtered, sorted and cut.                                               *)
(*                                                                         *)
(* A venue lists what it has by descending number.  Gamma's pages are      *)
(* places in the list as it is when they are asked for; a cursor of Kalshi *)
(* is the last number answered.  Polymarket's games are listed by series,  *)
(* everything else is in the series 1.                                     *)
(***************************************************************************)
EXTENDS MarketSelection, MarketMetadata

CONSTANTS Catalog,        \* what a number stands for: a market, or an event with its markets
          Kinds,          \* the searches considered, of those below
          Series,         \* the series Gamma's sports have with the games tag, in their order
          PageLimit,      \* rows of a page (200)
          MaxResults,     \* max_results
          MaxPages,       \* max_pages of Kalshi's search
          CandidateLimit, \* candidate_limit
          Now,            \* the hour of the search
          Within,         \* max_hours_to_close, max_days_since_close
          Filters,        \* the bounds on volume, price and expiry
          GamesOnly,      \* games_only
          MaxChanges      \* bound of the model: changes of the venue's lists

\* An event with its markets and their numbers
IsEvent(event) ==
  /\ {"markets", "volume"} \subseteq DOMAIN event /\ event.volume \in Int
  /\ event.markets \in Seq(Range(event.markets))
  /\ \A m \in Range(event.markets) :
       {"volumes", "starts", "closes", "event_total_volume"} \subseteq DOMAIN m /\ m.volumes \in Seq(Int)

ASSUME DiscoveryAssumption ==
  /\ Kinds \subseteq {"live", "resolved", "games", "kalshi-live", "kalshi-resolved"}
  /\ PageLimit \in Nat \ {0} /\ MaxResults \in Nat \ {0} /\ CandidateLimit \in Nat
  /\ IsFiniteSet(DOMAIN Catalog) /\ DOMAIN Catalog \subseteq Nat /\ Series \in Seq(Range(Series))
  /\ "games" \in Kinds => \A n \in DOMAIN Catalog : IsEvent(Catalog[n])

VARIABLES listing,   \* listing.of[s]: the numbers series s lists; listing.changes: how often they changed
          search     \* the search: its kind, where it is, what it has collected and found

SeriesOf(kind) == IF kind = "games" THEN Range(Series) ELSE {1}

DiscoveryInit ==
  \E kind \in Kinds :
    /\ listing = [of |-> [s \in SeriesOf(kind) |-> {n \in DOMAIN Catalog : s \in Catalog[n].series}],
                  changes |-> 0]
    /\ search = [kind |-> kind, pc |-> IF kind = "games" THEN "sports" ELSE "pages",
                 series |-> 1, offset |-> 0, pages |-> 0, cursor |-> None,
                 collected |-> <<>>, found |-> <<>>]

\* A market opens, closes or changes its state while the search goes on (external).
ListChanges ==
  /\ search.pc \notin {"done", "failed"}
  /\ listing.changes < MaxChanges
  /\ \E s \in DOMAIN listing.of, n \in DOMAIN Catalog :
       listing' = [of |-> [listing.of EXCEPT ![s] = IF n \in @ THEN @ \ {n} ELSE @ \union {n}],
                   changes |-> listing.changes + 1]
  /\ UNCHANGED search

NewestFirst(numbers) == Ranked(numbers, LAMBDA a, b : a > b)
Entries(numbers) == LET s == NewestFirst(numbers) IN [i \in DOMAIN s |-> Catalog[s[i]]]
PageOf(entries, offset, limit) == SubSeq(entries, offset + 1, Min({Len(entries), offset + limit}))

MoveTo(fields) == search' = [k \in DOMAIN search |-> Get(fields, k, search[k])]
-----------------------------------------------------------------------------
(* Polymarket: discover_markets over list_markets                           *)

Query(kind) == BuildMarketsQuery(IF kind = "live" THEN [is_active |-> TRUE] ELSE [closed |-> TRUE])

GammaSearch == search.pc = "pages" /\ search.kind \in {"live", "resolved"}

\* One page of iter_markets, cut by list_markets.
GammaPage ==
  /\ GammaSearch
  /\ LET page == PageOf(Matching(Entries(listing.of[1]), Query(search.kind)), search.offset, PageLimit)
         results == FirstOf(search.collected \o page, MaxResults)
     IN  MoveTo([collected |-> results, offset |-> search.offset + PageLimit,
                 pc |-> IF Len(page) < PageLimit \/ Len(results) >= MaxResults THEN "filter" ELSE "pages"])
  /\ UNCHANGED listing

\* Any other answer raises.
GammaPageFails ==
  /\ GammaSearch
  /\ MoveTo([pc |-> "failed"])
  /\ UNCHANGED listing
-----------------------------------------------------------------------------
(* Polymarket: _discover_resolved_game_markets_from_events                  *)

TargetBuffer == 3 * CandidateLimit
PerSeriesLimit == Min({MaxResults, PageLimit})

\* A list of sports that cannot be read means no games.
SportsAnswered ==
  /\ search.pc = "sports"
  /\ \/ MoveTo([pc |-> IF Series = <<>> THEN "sort" ELSE "pages"])
     \/ MoveTo([pc |-> "done"])
  /\ UNCHANGED listing

\* The main market of an event is a game that is wanted, and its slug is a new one.
NewGame(event, slugs) ==
  MainMarket(event) # <<>> /\ LET m == MainMarket(event)[1]
                             IN  /\ m.slug \notin slugs
                                 /\ EventVolume(m) >= Filters.minVolume
                                 /\ IsGameMarket(m)
                                 /\ IsResolvedSportsMarket(m, Now, Within, None)

Slugs(markets) == {markets[i].slug : i \in DOMAIN markets}

\* Mutant of Collected: what another page brought is not remembered.
CollectedPerPage(collected, page) ==
  LET all[n \in 0 .. Len(page)] ==
        IF n = 0 THEN <<>>
        ELSE IF NewGame(page[n], Slugs(all[n - 1])) THEN Append(all[n - 1], MainMarket(page[n])[1]) ELSE all[n - 1]
  IN  collected \o all[Len(page)]

\* The events of a page, one after another, whose main market is wanted and has not been seen.
Collected(collected, page) ==
  LET all[n \in 0 .. Len(page)] ==
        IF n = 0 THEN collected
        ELSE IF NewGame(page[n], Slugs(all[n - 1])) THEN Append(all[n - 1], MainMarket(page[n])[1]) ELSE all[n - 1]
  IN  all[Len(page)]

GamesSearch == search.pc = "pages" /\ search.kind = "games"

NextSeries(collected) ==
  MoveTo([collected |-> collected, series |-> search.series + 1, offset |-> 0,
          pc |-> IF search.series = Len(Series) \/ Len(collected) >= TargetBuffer THEN "sort" ELSE "pages"])

GamesPage ==
  /\ GamesSearch
  /\ LET limit == Min({PageLimit, PerSeriesLimit - search.offset})
         page == PageOf(Entries(listing.of[Series[search.series]]), search.offset, limit)
         collected == Collected(search.collected, page)
     IN  IF /\ Len(page) = limit
            /\ search.offset + limit < PerSeriesLimit
            /\ Len(collected) < TargetBuffer
         THEN MoveTo([collected |-> collected, offset |-> search.offset + limit])
         ELSE NextSeries(collected)
  /\ UNCHANGED listing

\* A series whose page cannot be had ends; the search goes on.
GamesPageFails ==
  /\ GamesSearch
  /\ NextSeries(search.collected)
  /\ UNCHANGED listing

GamesSorted ==
  /\ search.pc = "sort"
  /\ MoveTo([found |-> FirstOf(StableSort(search.collected, LAMBDA m, n : EventVolume(m) > EventVolume(n)),
                               CandidateLimit),
             pc |-> "done"])
  /\ UNCHANGED listing
-----------------------------------------------------------------------------
(* Kalshi: discover_markets over the events endpoint                        *)

KalshiSearch == search.pc = "pages" /\ search.kind \in {"kalshi-live", "kalshi-resolved"}

KalshiPage ==
  /\ KalshiSearch
  /\ LET left == {n \in listing.of[1] : search.cursor = None \/ n < search.cursor}
         numbers == FirstOf(NewestFirst(left), PageLimit)
         markets == FlattenSeq([i \in DOMAIN numbers |-> EventMarketsOf(Catalog[numbers[i]])])
     IN  IF numbers = <<>> THEN MoveTo([pc |-> "filter"])
         ELSE MoveTo([collected |-> search.collected \o markets, pages |-> search.pages + 1,
                      cursor |-> Last(numbers),
                      pc |-> IF Last(numbers) = Min(left) \/ search.pages + 1 = MaxPages THEN "filter" ELSE "pages"])
  /\ UNCHANGED listing

\* What has been collected so far counts.
KalshiPageFails ==
  /\ KalshiSearch
  /\ MoveTo([pc |-> "filter"])
  /\ UNCHANGED listing
-----------------------------------------------------------------------------
\* The predicates of discover_live_sports_markets and discover_resolved_sports_markets
Wanted(m) ==
  /\ IF search.kind \in {"live", "kalshi-live"}
     THEN IsSportsMarket(m, Now, Within, None)
     ELSE IsResolvedSportsMarket(m, Now, Within, None)
  /\ GamesOnly => IsGameMarket(m)

Filtered ==
  /\ search.pc = "filter"
  /\ MoveTo([found |-> Candidates(Keep(search.collected, Wanted), [Filters EXCEPT !.limit = CandidateLimit]),
             pc |-> "done"])
  /\ UNCHANGED listing

DiscoveryNext ==
  \/ ListChanges
  \/ GammaPage \/ GammaPageFails
  \/ SportsAnswered \/ GamesPage \/ GamesPageFails \/ GamesSorted
  \/ KalshiPage \/ KalshiPageFails
  \/ Filtered
-----------------------------------------------------------------------------
(* The search of the games promises each game once, although series share   *)
(* games and a list may change before the next series is asked: whoever     *)
(* replays what was found trades no game twice.                             *)
FoundOnce ==
  search.kind = "games" => \A i, j \in DOMAIN search.found : search.found[i].slug = search.found[j].slug => i = j
=============================================================================
