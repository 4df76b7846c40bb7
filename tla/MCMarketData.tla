---------------------------- MODULE MCMarketData ----------------------------
EXTENDS MarketData

\* Two trades of one transaction and one second, a row for the other token, one the code
\* refuses, and rows on both sides of the window 2 .. 3.
Trade(ts, within, hash, asset, side, price, size, named) ==
  [ts |-> ts, within |-> within, hash |-> hash, asset |-> asset, side |-> side, price |-> price,
   size |-> size, named |-> named]
MCTape ==
  <<Trade(1, 0, 1, 1, BUY, 30, 1, TRUE), Trade(2, 5, 2, 2, BUY, 60, 2, TRUE),
    Trade(3, 0, 3, 1, BUY, 40, 3, FALSE), Trade(3, 0, 3, 1, SELL, 70, 4, FALSE),
    Trade(4, 0, 4, 2, BUY, 30, 5, TRUE), Trade(4, 5, 5, 1, SELL, 101, 6, TRUE)>>

MCFillModels == {TakerFillModel(1, 4, 10), SpreadFillModel(6, 11)}
MCFeeRates == {None, 100}
NotAsked == -1

\* Two series share the game 4; what is closed, what is no game, what is too small.
Market(slug, active, volume, marks, close) ==
  [venue |-> "POLYMARKET", slug |-> slug, active |-> active, archived |-> FALSE, closed |-> ~active,
   volumes |-> <<volume>>, prices |-> <<50>>, ends |-> <<close>>, closes |-> <<None, close>>,
   starts |-> <<None, None>>, marks |-> marks, event_total_volume |-> 0, series |-> {1},
   category |-> "sports", status |-> "settled", opens |-> 0]
Game == {"prefix", "versus"}
Event(slug, markets, series, volume) ==
  [slug |-> slug, markets |-> markets, series |-> series, volume |-> volume, startTime |-> 1, closedTime |-> 9,
   category |-> "sports"]
Ticker(slug, volume, marks) == [Market(slug, FALSE, volume, marks, 9) EXCEPT !.venue = "KALSHI", !.prices = <<0, 4200>>,
                                                                             !.volumes = <<0, volume, volume>>]

MCCatalog ==
  <<Event("a", <<Market("a", TRUE, 5, Game, 9)>>, {1}, 5)
      @@ Market("a", TRUE, 5, Game, 12),
    Event("b", <<Market("b", FALSE, 7, Game, 9)>>, {2}, 7) @@ Market("b", FALSE, 7, Game, 9),
    Event("c", <<Market("c-spread", FALSE, 7, Game, 9)>>, {1}, 7) @@ Market("c", TRUE, 1, Game, 11),
    Event("d", <<Market("d", FALSE, 7, Game, 9), Ticker("d", 3, {"match"})>>, {1, 2}, 9)
      @@ Market("d", FALSE, 9, Game, 9)>>
MCSeries == <<1, 2>>
MCFilters == [minVolume |-> 2, priceMin |-> 10, priceMax |-> NotAsked, minExpiry |-> NotAsked, limit |-> 2]

Field(cents) == <<NoPrice, [hundredths |-> 100 * cents, decimal |-> FALSE]>>
Candle(at, cents) == [end |-> at, open |-> Field(cents), high |-> Field(cents), low |-> Field(cents),
                      close |-> Field(cents), volume |-> 1]
Quiet(at) == [Candle(at, 1) EXCEPT !.open = <<NoPrice, NoPrice>>]
MCCandles == <<Candle(4, 50), Candle(2, 40), Quiet(3), Candle(1, 30), Candle(6, 60)>>

Level(price, size) == [price |-> price, size |-> size]
Row(ts, bids, asks) == [ts |-> ts, bids |-> bids, asks |-> asks]
Bids == {<<>>, <<Level(40, 1)>>, <<Level(45, 2), Level(40, 1)>>}
Asks == {<<Level(60, 1)>>, <<Level(55, 1), Level(60, 2), Level(70, 0)>>}
FirstDays  == {<<Row(0, b, <<Level(60, 1)>>), Row(2, c, a), Row(2, d, <<Level(60, 1)>>)>> : b \in Bids, c \in Bids, d \in Bids, a \in Asks}
SecondDays == {<<Row(3, b, a), Row(5, c, <<Level(60, 1)>>), Row(4, d, a)>> : b \in Bids, c \in Bids, d \in Bids, a \in Asks}
MCBooks == FirstDays \X SecondDays
=============================================================================
