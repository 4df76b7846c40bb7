----------------------------- MODULE MarketData -----------------------------
(***************************************************************************)
(* What the data layer does for a replay, one activity at a time: search   *)
(* for markets, load and replay one, load bars, rebuild a book.            *)
(***************************************************************************)
EXTENDS Discovery, MarketReplay, TelonexRecords

CONSTANTS Activities

ASSUME DataAssumption == Activities \subseteq {"search", "replay", "bars", "book"}

VARIABLES activity

dataVars == <<activity, listing, search, market, load, replay, bars, feed>>

DataInit ==
  /\ activity \in Activities
  /\ IF activity = "search" THEN DiscoveryInit ELSE listing = <<>> /\ search = [kind |-> "none", found |-> <<>>]
  /\ IF activity = "replay" THEN ReplayInit
     ELSE market = <<>> /\ load = [pc |-> "none", ticks |-> <<>>] /\ replay = [job |-> "none"]
  /\ BarsInit
  /\ IF activity = "book" THEN FeedInit ELSE feed = [applied |-> NotLoaded]

DataNext ==
  \/ /\ activity = "search" /\ DiscoveryNext
     /\ UNCHANGED <<activity, market, load, replay, bars, feed>>
  \/ /\ activity = "replay" /\ ReplayNext
     /\ UNCHANGED <<activity, listing, search, bars, feed>>
  \/ /\ activity = "bars" /\ BarsNext
     /\ UNCHANGED <<activity, listing, search, market, load, replay, feed>>
  \/ /\ activity = "book" /\ FeedNext
     /\ UNCHANGED <<activity, listing, search, market, load, replay, bars>>

DataSpec == DataInit /\ [][DataNext]_dataVars
-----------------------------------------------------------------------------
\* A history that is replayed, of trades or of bars, lacks nothing the venue had of the window.
HistoryWhole == TradesComplete /\ BarsWhole
=============================================================================
