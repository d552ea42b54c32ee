------------------------------- MODULE MCBoard -------------------------------
EXTENDS Board

\* Ids: the tokens 1..6, root 7, players 8 and 9, four markets with their
\* shares 10..17, producers 18..21, the players' first plants 22 and 23; 24 is
\* the next to be made.
Alice == 8
Bob == 9
TwoPlayers == <<"alice", "bob">>
Plants == <<"solar", "hydro">>
Periods == [payout |-> 3, asic |-> 3, steel |-> 2, silicon |-> 5, concrete |-> 4]

Heartbeat == [kind |-> "heartbeat"]
Trade(pair, a, b, sell, cap) ==
    [kind |-> "trade", pair |-> pair, amount_a |-> a, amount_b |-> b,
     sell |-> sell, cap |-> cap]
Mint(kind, type, scale) == [kind |-> kind, plant_type |-> type, scale |-> scale]
List(nft, price, currency) ==
    [kind |-> "list", nft |-> nft, price |-> price, currency |-> currency]
Purchase(nft, limit, currency) ==
    [kind |-> "purchase", nft |-> nft, limit_price |-> limit, currency |-> currency]
Send(to, n, t) == [kind |-> "send", to |-> to, amount |-> n, currency |-> t]
Take(nft, n, t) == [kind |-> "remove", nft |-> nft, amount |-> n, currency |-> t]

\* Buying and selling on both sides of a market, in both spellings of the
\* pair, with caps, and minting
MarketMoves ==
    {Trade(<<btc, asic>>, 0, 3, FALSE, NoCap), Trade(<<asic, btc>>, 0, 7, TRUE, 2),
     Trade(<<btc, steel>>, 5, 0, FALSE, 1),
     Mint("super_mint", "solar", 1)}

\* A plant that is sold and resold, coins that go in and out of plants
PlantMoves ==
    {List(22, 2, btc), List(22, 5, real_sats), Purchase(22, 3, btc),
     Purchase(22, 9, real_sats), Send(22, 1, btc), Take(22, 1, asic), Take(22, 5, btc)}

TimeMoves == {Heartbeat, Send(Alice, 3, btc), Mint("super_mint", "solar", 1)}

\* The whole stock of a market, and more; a pair that has no market; a sale beyond
\* a u128
StockMoves == {Trade(<<btc, asic>>, 0, 21, FALSE, NoCap),
               Trade(<<btc, asic>>, 0, 25, FALSE, NoCap),
               Mint("super_mint", "solar", 21),
               Trade(<<steel, silicon>>, 3, 0, TRUE, NoCap),
               Trade(<<steel, silicon>>, 3, 0, TRUE, 1),
               Trade(<<btc, asic>>, 0, 999500, TRUE, NoCap), Heartbeat}
\* A lockup, which is an NFT, is listed and bought, and its coins are asked for.
LockupMoves == {Take(22, 1, asic), Take(24, 1, asic), List(24, 2, btc),
                Purchase(24, 2, btc), Heartbeat}

Views == {[pair |-> <<btc, asic>>, amount_a |-> 0, amount_b |-> 2, sell |-> FALSE],
          [pair |-> <<steel, btc>>, amount_a |-> 3, amount_b |-> 0, sell |-> TRUE],
          [plant_type |-> "solar", scale |-> 1]}
\* A pair that has no market, and one that is none
OtherViews == {[pair |-> <<steel, silicon>>, amount_a |-> 3, amount_b |-> 0, sell |-> TRUE],
               [pair |-> <<btc, 40>>, amount_a |-> 1, amount_b |-> 0, sell |-> FALSE]}

\* Games of trades, of property, and one in which time passes
Setups ==
    [market |-> [start_amount |-> 40, finish_time |-> 100, moves |-> MarketMoves,
                 times |-> {0, 6}, views |-> Views],
     plants |-> [start_amount |-> 4, finish_time |-> 100, moves |-> PlantMoves,
                 times |-> {0, 4}, views |-> {}],
     time |-> [start_amount |-> 40, finish_time |-> 9, moves |-> TimeMoves,
               times |-> {0, 4, 9}, views |-> {}],
     stock |-> [start_amount |-> 40, finish_time |-> 100, moves |-> StockMoves,
                times |-> {0, 4}, views |-> OtherViews],
     lockup |-> [start_amount |-> 4, finish_time |-> 100, moves |-> LockupMoves,
                 times |-> {0, 4}, views |-> {}]]

LockupSetup == [s \in {"lockup"} |-> Setups[s]]
=============================================================================
