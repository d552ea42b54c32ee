-------------------------------- MODULE Board --------------------------------
(***************************************************************************)
(* The board game (common/mine-with-friends-board): the state every player  *)
(* and the litigator compute from the sequenced moves.  A step is one call  *)
(* of GameBoard::play or one of the desktop application's queries, which    *)
(* also get the board mutably (ux/src-tauri/src/commands/view.rs).          *)
(*                                                                          *)
(* The fields of the game are those of TokenSwap and                        *)
(*                                                                          *)
(*   users      key -> EntityID (users_by_key)                              *)
(*   nfts       EntityID -> [owner, transfer_count]                         *)
(*   plants     EntityID -> [plant_type, watts], the NFTs that are plants   *)
(*   nft_sales  EntityID -> [price, currency, seller, transfer_count]       *)
(*   seq        EntityID -> number of the player's last move                *)
(*   ticks      EntityID -> [first_time, elapsed]                           *)
(*   elapsed    the game's clock                                            *)
(*   callbacks  time -> the events scheduled for it, in the order they came *)
(*                                                                          *)
(* The chat and the event log, which nothing but the user interface reads,  *)
(* are left out.                                                            *)
(***************************************************************************)
EXTENDS TokenSwap, SequencesExt

CONSTANTS
    Players,          \* GameSetup.players, sorted and without duplicates
    Setup,            \* name -> GameSetup's start_amount and finish_time, and what
                      \* the model has the players of that game do: the moves
                      \* they make, the times (time_millis) they put on them,
                      \* and the views their user interfaces ask for
    StartPlants,      \* the types in start_locations, in order
    RootSats,         \* the literals of post_init and GameBoard::new
    RootRealSats,
    TotalUnits,
    BasePrice,
    Period,           \* of each recurring event: "payout" and the materials
    MiningSubsidy,
    HashPerWatt,
    WattsPerScale,
    LastSequence,     \* a player's moves are numbered up to this; the first,
                      \* number 0, is the Heartbeat of its genesis envelope
    LastEntityID      \* no move is made when this many EntityIDs are used

(* The variants of GameMove; a location is not used by the game. *)
PlantType == {"solar", "hydro", "flare"}
Variant ==
         [kind : {"heartbeat", "chat"}]
    \cup [kind : {"trade"}, pair : Nat \X Nat, amount_a : Nat, amount_b : Nat,
          sell : BOOLEAN, cap : Nat \cup {NoCap}]
    \cup [kind : {"mint", "super_mint"}, plant_type : PlantType, scale : Nat]
    \cup [kind : {"purchase"}, nft : Nat, limit_price : Nat, currency : Nat]
    \cup [kind : {"list"}, nft : Nat, price : Nat, currency : Nat]
    \cup [kind : {"send"}, to : Nat, amount : Nat, currency : Nat]
    \cup [kind : {"remove"}, nft : Nat, amount : Nat, currency : Nat]

\* What the user interfaces ask: what a trade or a plant would cost
View ==      [pair : Nat \X Nat, amount_a : Nat, amount_b : Nat, sell : BOOLEAN]
        \cup [plant_type : PlantType, scale : Nat]

\* start_locations[i] has to exist for each player.
ASSUME BoardAssumption ==
    /\ Players \in Seq(STRING) /\ IsInjective(Players)
    /\ StartPlants \in Seq(PlantType)
    /\ Len(Players) <= Len(StartPlants)
    /\ {RootSats, RootRealSats, TotalUnits, BasePrice, MiningSubsidy, HashPerWatt,
        WattsPerScale, LastSequence, LastEntityID} \subseteq Nat
    /\ Period \in [{"payout", "asic", "steel", "silicon", "concrete"} -> Nat \ {0}]
    /\ TotalUnits > 0
    /\ \A s \in DOMAIN Setup :
          /\ {Setup[s].start_amount, Setup[s].finish_time} \cup Setup[s].times \subseteq Nat
          /\ Setup[s].moves \subseteq Variant /\ Setup[s].views \subseteq View

VARIABLES
    game,
    last,       \* of the last step: whose it was (0: nobody's), what came of it,
                \* and the move, if that ended the game's task
    game_task   \* start_game: "playing", or "dead" after a panic

vars == <<game, last, game_task>>

\* The tokens, in the order they are made
btc == 1
real_sats == 2
concrete == 3
asic == 4
steel == 5
silicon == 6
root_user == 7
BaseToken == {btc, real_sats, concrete, asic, steel, silicon}

NonTransferrable == -1      \* u128::max_value() as a transfer_count

Sum(f, S) == FoldFunctionOnSet(+, 0, f, S)

-----------------------------------------------------------------------------
(* Power plants *)

plant_prices ==
    [solar |-> <<<<steel, 1>>, <<silicon, 8>>, <<concrete, 1>>>>,
     hydro |-> <<<<steel, 3>>, <<silicon, 1>>, <<concrete, 6>>>>,
     flare |-> <<<<steel, 4>>, <<silicon, 2>>, <<concrete, 4>>>>]

\* The bill's material and amount at place i
Material(type, i) == plant_prices[type][i][1]
Quantity(type, scale, i) == plant_prices[type][i][2] * scale
Bill == 1..3

Lesser(x, y) == IF x <= y THEN x ELSE y

compute_hashrate(g, p) ==
    Lesser(balance_check(g, asic, p), g.plants[p].watts) * HashPerWatt

PlantsOf(g, e) == {p \in DOMAIN g.plants : g.nfts[p].owner = e}
HashrateOf(g, e) == Sum([p \in DOMAIN g.plants |-> compute_hashrate(g, p)],
                        PlantsOf(g, e))
TotalHashrate(g) == Sum([p \in DOMAIN g.plants |-> compute_hashrate(g, p)],
                        DOMAIN g.plants)
PlantOwner(g) == {g.nfts[p].owner : p \in DOMAIN g.plants}

\* A new NFT and power plant of owner
add_plant(g, owner, type, scale) ==
    LET id == g.alloc + 1
    IN [g EXCEPT !.alloc = id,
                 !.nfts = Put(@, id, [owner |-> owner, transfer_count |-> 0]),
                 !.plants = Put(@, id, [plant_type |-> type,
                                        watts |-> scale * WattsPerScale])]

-----------------------------------------------------------------------------
(* Scheduled events *)

schedule(g, time, cb) ==
    [g EXCEPT !.callbacks =
        Put(@, time, Append(IF time \in DOMAIN @ THEN @[time] ELSE <<>>, cb))]

\* Each owner's share of the subsidy without the rounding of the sum
payout_rounded_up(g, e) ==
    ((HashrateOf(g, e) * 1024 * MiningSubsidy) \div TotalHashrate(g)) \div 1024 + 1

payout(g, e) ==
    ((HashrateOf(g, e) * 1024 * MiningSubsidy) \div TotalHashrate(g)) \div 1024

\* The owners are paid in the order of their EntityIDs.
PayOwners(g) ==
    LET paid[e \in 0..g.alloc] ==
            IF e = 0 THEN g
            ELSE IF e \in PlantOwner(g) THEN mint(paid[e - 1], btc, e, payout(g, e))
            ELSE paid[e - 1]
    IN paid[g.alloc]

PowerPlantEvent(g, cb) ==
    schedule(IF TotalHashrate(g) = 0 THEN g ELSE PayOwners(g),
             g.elapsed + Period.payout, cb)

\* The first time it makes a market with a tenth of its units and the coins
\* for it, which are minted.
open_market(g, cb) ==
    LET start == TotalUnits \div 10
        base == BasePrice * start
        minted == mint(mint(g, cb.asset, cb.id, TotalUnits), btc, cb.id, base)
    IN deposit(minted, <<cb.asset, btc>>, start, base, cb.id)

SellHundredth(g, cb) ==
    do_sell_trade(g, <<cb.asset, btc>>, balance_check(g, cb.asset, cb.id) \div 100, 0,
                  NoCap, FALSE, cb.id).game

\* While it has something left the producer comes back.
Renew(g, cb) ==
    IF balance_check(g, cb.asset, cb.id) = 0 THEN g
    ELSE schedule(g, g.elapsed + Period[cb.kind], [cb EXCEPT !.first = FALSE])

\* The producers sell a hundredth of what they have left, whatever comes of it.
Producer(g, cb) ==
    Renew(SellHundredth(IF cb.first THEN open_market(g, cb) ELSE g, cb), cb)

ASICProducer(g, cb) == Producer(g, cb)
SteelSmelter(g, cb) == Producer(g, cb)
SiliconRefinery(g, cb) == Producer(g, cb)
ConcreteMiller(g, cb) == Producer(g, cb)

release_lockup(g, cb) ==
    transfer(g, cb.asset, cb.id, g.nfts[cb.id].owner,
             balance_check(g, cb.asset, cb.id))

action(g, cb) ==
    CASE cb.kind = "payout" -> PowerPlantEvent(g, cb)
      [] cb.kind = "asic" -> ASICProducer(g, cb)
      [] cb.kind = "steel" -> SteelSmelter(g, cb)
      [] cb.kind = "silicon" -> SiliconRefinery(g, cb)
      [] cb.kind = "concrete" -> ConcreteMiller(g, cb)
      [] cb.kind = "lockup" -> release_lockup(g, cb)

Due(g) == {t \in DOMAIN g.callbacks : t <= g.elapsed}

\* The actions of the events cbs, one after the other
Perform(g, cbs) ==
    LET after[i \in 0..Len(cbs)] ==
            IF i = 0 THEN g ELSE action(after[i - 1], cbs[i])
    IN after[Len(cbs)]

Undue(g) == [g EXCEPT !.callbacks = Restrict(@, DOMAIN @ \ Due(g))]

run_latest_only(g) ==
    IF Due(g) = {} THEN g
    ELSE LET t == CHOOSE t \in Due(g) : \A u \in Due(g) : u <= t
         IN Perform(Undue(g), g.callbacks[t])

\* The events due are taken out and run in order of time; what they schedule
\* waits for the next run, due or not.
run(g) ==
    LET after[t \in -1..g.elapsed] ==
            IF t = -1 THEN Undue(g)
            ELSE IF t \in Due(g) THEN Perform(after[t - 1], g.callbacks[t])
            ELSE after[t - 1]
    IN after[g.elapsed]

-----------------------------------------------------------------------------
(* The game's clock and its end *)

UserIds(g) == {g.users[k] : k \in DOMAIN g.users}

\* The first time a player gives is its zero; its clock never goes back.
Ticked(g, from, time) ==
    LET tick == IF from \in DOMAIN g.ticks THEN g.ticks[from]
                ELSE [first_time |-> time, elapsed |-> 0]
        spent == IF time >= tick.first_time THEN time - tick.first_time ELSE 0
    IN [g EXCEPT !.ticks = Put(@, from,
            [tick EXCEPT !.elapsed = IF spent > @ THEN spent ELSE @])]

\* The n-th smallest of the players' elapsed times: the least that n of them
\* do not exceed
NthElapsed(g, n) ==
    Min({v \in {g.ticks[p].elapsed : p \in DOMAIN g.ticks} :
            Cardinality({p \in DOMAIN g.ticks : g.ticks[p].elapsed <= v}) >= n})

Median(g) ==
    LET count == Cardinality(DOMAIN g.ticks)
        upper == NthElapsed(g, count \div 2 + 1)
    IN IF count % 2 = 1 THEN upper ELSE (upper + NthElapsed(g, count \div 2)) \div 2

update_current_time_unsafe(g, from, time) ==
    LET h == Ticked(g, from, time) IN [h EXCEPT !.elapsed = Median(h)]

update_current_time(g, from, time) ==
    LET h == Ticked(g, from, time)
    IN [h EXCEPT !.elapsed = IF Median(h) > @ THEN Median(h) ELSE @]

\* In parts of 100000
get_user_hashrate_share(g, e) ==
    IF TotalHashrate(g) = 0 THEN 0
    ELSE (HashrateOf(g, e) * 100000) \div TotalHashrate(g)

Dominators(g) == {e \in PlantOwner(g) : get_user_hashrate_share(g, e) * 2 >= 100000}

TimeExpired(g) == g.elapsed >= Setup[g.setup].finish_time
game_is_finished(g) ==
    \/ TimeExpired(g)
    \/ g.elapsed >= (3 * Setup[g.setup].finish_time) \div 4 /\ Dominators(g) # {}

\* What the bounty pays to each player, or to the dominating one and the host.
\* The players are in the order of their keys.
get_close_distribution_rounded(g, bounty) ==
    IF TimeExpired(g)
    THEN LET balance(i) == balance_check(g, btc, g.users[Players[i]])
             total == Sum([i \in DOMAIN Players |-> balance(i)], DOMAIN Players)
         IN [i \in DOMAIN Players |->
                IF total = 0 THEN bounty \div Len(Players)
                ELSE (balance(i) * bounty + total \div 2) \div total]
    ELSE <<bounty - bounty \div 4, bounty \div 4>>

get_close_distribution(g, bounty) ==
    IF TimeExpired(g)
    THEN LET balance(i) == balance_check(g, btc, g.users[Players[i]])
             total == Sum([i \in DOMAIN Players |-> balance(i)], DOMAIN Players)
             reward == [i \in DOMAIN Players |->
                           IF total = 0 THEN bounty \div Len(Players)
                           ELSE (balance(i) * bounty) \div total]
             excess == bounty - Sum(reward, DOMAIN Players)
         IN [i \in DOMAIN Players |-> reward[i] + IF i = 1 THEN excess ELSE 0]
    ELSE <<bounty - bounty \div 4, bounty \div 4>>

-----------------------------------------------------------------------------
(* The moves.  Each gives an Outcome. *)

Done(g) == Outcome(g, "ok", 0, 0)

\* step for each item of a bill, in order
OverBill(step(_, _), x) == step(step(step(x, 1), 2), 3)

\* Sends the bill's materials to the new plant.
pay_bill(g, owner, type, scale) ==
    OverBill(LAMBDA h, i : transfer(h, Material(type, i), owner, h.alloc,
                                    Quantity(type, scale, i)),
             add_plant(g, owner, type, scale))

CanPayBill(g, owner, type, scale) ==
    \A i \in Bill : balance_check(g, Material(type, i), owner)
                        >= Quantity(type, scale, i)

mint_power_plant(g, m, owner) ==
    IF CanPayBill(g, owner, m.plant_type, m.scale)
    THEN Done(pay_bill(g, owner, m.plant_type, m.scale))
    ELSE Refused(g, "insufficient")

\* Each material's purchase, simulated against the board as it is.
Quote(g, owner, m, i) ==
    do_buy_trade(g, <<Material(m.plant_type, i), btc>>,
                 Quantity(m.plant_type, m.scale, i), 0, NoCap, TRUE, owner)

\* The first refusal, or the costs
estimate_materials_cost(g, m, owner) ==
    OverBill(LAMBDA o, i :
                LET quote == Quote(g, owner, m, i)
                IN IF o.out # "ok" THEN o
                   ELSE IF quote.out # "ok" THEN Refused(g, quote.out)
                   ELSE Outcome(g, "ok", o.sold + quote.sold, 0),
             Done(g))

\* The purchases, one after the other; none is expected to fail.
BuyMaterials(g, m, owner) ==
    OverBill(LAMBDA o, i :
                IF o.out # "ok" THEN o
                ELSE do_buy_trade(o.game, <<Material(m.plant_type, i), btc>>,
                        Quantity(m.plant_type, m.scale, i), 0, NoCap, FALSE, owner),
             Done(g))

super_mint_unsummed(g, m, owner) ==
    LET bought == BuyMaterials(g, m, owner)
        estimate == estimate_materials_cost(g, m, owner)
    IN IF estimate.out # "ok" THEN estimate
       ELSE IF bought.out # "ok" THEN Refused(bought.game, "expect")
       ELSE mint_power_plant(bought.game, m, owner)

super_mint_buys_first(g, m, owner) ==
    LET bought == BuyMaterials(g, m, owner)
        estimate == estimate_materials_cost(g, m, owner)
    IN IF estimate.out # "ok" THEN estimate
       ELSE IF bought.out # "ok" THEN bought
       ELSE mint_power_plant(bought.game, m, owner)

super_mint(g, m, owner) ==
    LET bought == BuyMaterials(g, m, owner)
        estimate == estimate_materials_cost(g, m, owner)
    IN IF estimate.out # "ok" THEN estimate
       ELSE IF balance_check(g, btc, owner) < estimate.sold
            THEN Refused(g, "insufficient")
       ELSE IF bought.out # "ok" THEN Refused(bought.game, "expect")
       ELSE mint_power_plant(bought.game, m, owner)

list_nft_anyone(g, m, from) ==
    [g EXCEPT !.nft_sales = Put(@, m.nft,
        [price |-> m.price, currency |-> m.currency, seller |-> g.nfts[m.nft].owner,
         transfer_count |-> g.nfts[m.nft].transfer_count])]

list_nft_unknown(g, m, from) ==
    [g EXCEPT !.nft_sales = Put(@, g.alloc + 1,
        [price |-> m.price, currency |-> m.currency, seller |-> from,
         transfer_count |-> 0])]

list_nft(g, m, from) ==
    IF g.nfts[m.nft].owner # from THEN g
    ELSE [g EXCEPT !.nft_sales = Put(@, m.nft,
            [price |-> m.price, currency |-> m.currency, seller |-> from,
             transfer_count |-> g.nfts[m.nft].transfer_count])]

\* An NFT that cannot be transferred stays with its owner.
nft_transfer(g, nft, to) ==
    IF g.nfts[nft].transfer_count = NonTransferrable THEN g
    ELSE [g EXCEPT !.nfts[nft] = [owner |-> to, transfer_count |-> @.transfer_count + 1]]

\* The listing still stands and the buyer accepts it.
Acceptable(g, m) ==
    /\ m.nft \in DOMAIN g.nft_sales
    /\ LET sale == g.nft_sales[m.nft]
       IN /\ sale.seller = g.nfts[m.nft].owner
          /\ sale.transfer_count = g.nfts[m.nft].transfer_count
          /\ m.currency = sale.currency
          /\ m.limit_price >= sale.price

purchase_unpaid(g, m, from) ==
    IF ~Acceptable(g, m) THEN g
    ELSE LET paid == transfer(g, m.currency, from, g.nfts[m.nft].owner,
                              g.nft_sales[m.nft].price)
         IN [nft_transfer(paid, m.nft, from) EXCEPT
                !.nft_sales = Restrict(@, DOMAIN @ \ {m.nft})]

purchase_undelivered(g, m, from) ==
    IF ~Acceptable(g, m) THEN g
    ELSE LET sale == g.nft_sales[m.nft]
             paid == transfer(g, sale.currency, from, g.nfts[m.nft].owner, sale.price)
         IN IF ~transfer_possible(g, sale.currency, from, sale.price) THEN g
            ELSE [paid EXCEPT !.nft_sales = Restrict(@, DOMAIN @ \ {m.nft})]

purchase(g, m, from) ==
    IF ~Acceptable(g, m) THEN g
    ELSE LET sale == g.nft_sales[m.nft]
             paid == transfer(g, sale.currency, from, g.nfts[m.nft].owner, sale.price)
         IN IF ~transfer_possible(g, sale.currency, from, sale.price) THEN g
            ELSE [nft_transfer(paid, m.nft, from) EXCEPT
                    !.nft_sales = Restrict(@, DOMAIN @ \ {m.nft})]

lockup_unscheduled(g, plant, owner, m) ==
    LET id == g.alloc + 1
        made == [g EXCEPT !.alloc = id,
                          !.nfts = Put(@, id, [owner |-> owner,
                                               transfer_count |-> NonTransferrable])]
    IN transfer(made, m.currency, plant, id, m.amount)

\* The coins go to a new lockup, which is released at the time 1 of the game.
lockup(g, plant, owner, m) ==
    LET id == g.alloc + 1
        made == [g EXCEPT !.alloc = id,
                          !.nfts = Put(@, id, [owner |-> owner,
                                               transfer_count |-> NonTransferrable])]
        cb == [kind |-> "lockup", id |-> id, asset |-> m.currency]
    IN transfer(schedule(made, 1, cb), m.currency, plant, id, m.amount)

remove_tokens_anyone(g, m, from) ==
    IF m.nft \notin DOMAIN g.plants THEN Refused(g, "panic")
    ELSE Done(lockup(g, m.nft, from, m))

\* Only the owner's; an NFT that is no plant is not found among the plants.
remove_tokens(g, m, from) ==
    IF g.nfts[m.nft].owner # from THEN Done(g)
    ELSE IF m.nft \notin DOMAIN g.plants THEN Refused(g, "panic")
    ELSE Done(lockup(g, m.nft, from, m))

play_inner(g, m, from) ==
    CASE m.kind \in {"heartbeat", "chat"} -> Done(g)
      [] m.kind = "trade" ->
            DoTrade(g, m.pair, m.amount_a, m.amount_b, m.sell, m.cap, FALSE, from)
      [] m.kind = "mint" -> mint_power_plant(g, m, from)
      [] m.kind = "super_mint" -> super_mint(g, m, from)
      [] m.kind = "purchase" -> Done(purchase(g, m, from))
      [] m.kind = "list" -> Done(list_nft(g, m, from))
      [] m.kind = "send" -> Done(transfer(g, m.currency, from, m.to, m.amount))
      [] m.kind = "remove" -> remove_tokens(g, m, from)

\* The tokens, NFTs and users a move names exist.
sanitize(g, m) ==
    CASE m.kind \in {"heartbeat", "chat"} -> TRUE
      [] m.kind = "trade" -> {m.pair[1], m.pair[2]} \subseteq DOMAIN g.bal
      [] m.kind \in {"mint", "super_mint"} -> m.scale # 0
      [] m.kind \in {"purchase", "list", "remove"} ->
            m.nft \in DOMAIN g.nfts /\ m.currency \in DOMAIN g.bal
      [] m.kind = "send" ->
            m.to \in UserIds(g) \cup DOMAIN g.nfts /\ m.currency \in DOMAIN g.bal

-----------------------------------------------------------------------------
(* A new game *)

Producers == <<[kind |-> "asic", asset |-> asic], [kind |-> "steel", asset |-> steel],
               [kind |-> "silicon", asset |-> silicon],
               [kind |-> "concrete", asset |-> concrete]>>

add_user(g, key) ==
    LET id == g.alloc + 1
        h == [g EXCEPT !.alloc = id, !.users = Put(@, key, id)]
        amount == Setup[g.setup].start_amount
    IN mint(mint(h, real_sats, id, amount), btc, id, amount)

add_producer(g, p) ==
    schedule([g EXCEPT !.alloc = @ + 1], 0,
             [kind |-> p.kind, asset |-> p.asset,
              id |-> g.alloc + 1, first |-> TRUE])

\* Each player starts with one plant and one ASIC in it.
add_start_plant(g, i) ==
    LET h == add_plant(g, g.users[Players[i]], StartPlants[i], 1)
    IN mint(h, asic, h.alloc, 1)

no_game(setup) ==
    [setup |-> setup, alloc |-> root_user,
     bal |-> [t \in BaseToken |-> <<>>], total |-> [t \in BaseToken |-> 0],
     markets |-> <<>>, users |-> <<>>, nfts |-> <<>>, plants |-> <<>>,
     nft_sales |-> <<>>, seq |-> <<>>, ticks |-> <<>>, elapsed |-> 0,
     callbacks |-> <<>>]

WithUsers(setup) ==
    LET joined[i \in 0..Len(Players)] ==
            IF i = 0 THEN no_game(setup) ELSE add_user(joined[i - 1], Players[i])
    IN joined[Len(Players)]

WithMarkets(g) ==
    ensure(ensure(ensure(ensure(g, <<btc, steel>>), <<btc, silicon>>),
                  <<btc, concrete>>), <<btc, asic>>)

WithRoot(g) == mint(mint(g, btc, root_user, RootSats), real_sats, root_user, RootRealSats)

\* The ASICs' EntityID is taken before the payout is scheduled.
WithProducers(g) ==
    add_producer(add_producer(add_producer(add_producer(
        schedule(g, 0, [kind |-> "payout"]),
        Producers[1]), Producers[2]), Producers[3]), Producers[4])

WithPlants(g) ==
    LET built[i \in 0..Len(Players)] ==
            IF i = 0 THEN g ELSE add_start_plant(built[i - 1], i)
    IN built[Len(Players)]

new_game(setup) == WithPlants(WithProducers(WithRoot(WithMarkets(WithUsers(setup)))))

Init ==
    /\ \E setup \in DOMAIN Setup : game = new_game(setup)
    /\ last = [from |-> 0, out |-> "ok"]
    /\ game_task = "playing"

-----------------------------------------------------------------------------
(* play, one action per way through it *)

current_move(g, from) == IF from \in DOMAIN g.seq THEN g.seq[from] ELSE 0

InSequence(g, from, sequence) ==
    \/ sequence = current_move(g, from) + 1
    \/ sequence = 0 /\ current_move(g, from) = 0

SetSequence(g, from, sequence) == [g EXCEPT !.seq = Put(@, from, sequence)]

\* A move's time and the events due by then come before the move.
process_ticks(g, from, time) == run(update_current_time(g, from, time))

Playing ==
    /\ game_task = "playing"
    /\ game.alloc + 4 <= LastEntityID

play_finished ==
    /\ Playing /\ game_is_finished(game)
    /\ \E from \in UserIds(game) : last' = [from |-> from, out |-> "finished"]
    /\ UNCHANGED <<game, game_task>>

\* Also the signer that is no player
play_no_such_user ==
    /\ Playing
    /\ last' = [from |-> 0, out |-> "no such user"]
    /\ UNCHANGED <<game, game_task>>

play_out_of_sequence(from, sequence) ==
    /\ Playing /\ ~game_is_finished(game)
    /\ ~InSequence(game, from, sequence)
    /\ game' = SetSequence(game, from, current_move(game, from))
    /\ last' = [from |-> from, out |-> "ignored"]
    /\ UNCHANGED game_task

\* The move's number is used up although nothing else of it is done.
play_unsanitized(from, sequence, m) ==
    /\ Playing /\ ~game_is_finished(game)
    /\ InSequence(game, from, sequence)
    /\ ~sanitize(game, m)
    /\ game' = SetSequence(game, from, sequence)
    /\ last' = [from |-> from, out |-> "unsanitized"]
    /\ UNCHANGED game_task

play(from, sequence, time, m) ==
    /\ Playing /\ ~game_is_finished(game)
    /\ InSequence(game, from, sequence)
    /\ sanitize(game, m)
    /\ \E o \in {play_inner(process_ticks(SetSequence(game, from, sequence), from, time),
                            m, from)} :
          /\ game' = o.game
          /\ last' = IF o.out \in {"panic", "expect"}
                     THEN [from |-> from, out |-> o.out, move |-> m]
                     ELSE [from |-> from, out |-> o.out]
          /\ game_task' = IF o.out \in {"panic", "expect"} THEN "dead" ELSE "playing"

\* The queries.  One that panics only fails to answer: it is a task of its own and
\* the lock on the board is not poisoned.  A simulated trade is of any pair: nobody
\* asks for its market, which is made, and only tokens that are none stop it first.
simulate_trade(from, v) ==
    /\ "pair" \in DOMAIN v
    /\ game' = IF {v.pair[1], v.pair[2]} \subseteq DOMAIN game.bal
               THEN DoTrade(game, v.pair, v.amount_a, v.amount_b, v.sell, NoCap, TRUE,
                            from).game
               ELSE game
    /\ last' = [from |-> 0, out |-> "view"]
    /\ UNCHANGED game_task

get_power_plant_cost(from, v) ==
    /\ "plant_type" \in DOMAIN v
    /\ game' = OverBill(LAMBDA g, i : Quote(g, from, v, i).game, game)
    /\ last' = [from |-> 0, out |-> "view"]
    /\ UNCHANGED game_task

\* Only pairs that have a market are shown.
get_ux_materials_prices ==
    /\ game' = FoldSet(LAMBDA t, g : IF has_market(g, <<t, btc>>)
                                     THEN ensure(g, <<t, btc>>) ELSE g,
                       game, DOMAIN game.bal)
    /\ last' = [from |-> 0, out |-> "view"]
    /\ UNCHANGED game_task

\* What players send (ux/src-tauri/src/commands/modify.rs): one Heartbeat with
\* the number 0 in their genesis envelope, then moves from 1 on.
MovesAt(from, sequence) ==
    IF sequence > 0 THEN Setup[game.setup].moves
    ELSE IF from \in DOMAIN game.ticks THEN {} ELSE {[kind |-> "heartbeat"]}

Next ==
    \/ play_finished
    \/ play_no_such_user
    \/ \E from \in UserIds(game) :
        \/ \E sequence \in 0..LastSequence :
            \/ play_out_of_sequence(from, sequence)
            \/ \E m \in MovesAt(from, sequence) :
                \/ play_unsanitized(from, sequence, m)
                \/ \E time \in Setup[game.setup].times : play(from, sequence, time, m)
        \/ \E v \in Setup[game.setup].views : simulate_trade(from, v) \/ get_power_plant_cost(from, v)
    \/ Setup[game.setup].views # {} /\ get_ux_materials_prices

Spec == Init /\ [][Next]_vars

-----------------------------------------------------------------------------
(* Properties *)

Scheduled(g) == UNION {ToSet(g.callbacks[t]) : t \in DOMAIN g.callbacks}
Opened(g) == \A cb \in Scheduled(g) : "first" \in DOMAIN cb => ~cb.first

\* The registries (game/mod.rs, GameBoard) agree on what exists: EntityIDs come
\* from the allocator, plants are NFTs, and only what exists is sold or scheduled.
TypeOK ==
    /\ game_task \in {"playing", "dead"}
    /\ game.alloc \in Nat /\ game.elapsed \in Nat
    /\ DOMAIN game.bal = DOMAIN game.total
    /\ BaseToken \subseteq DOMAIN game.bal
    /\ \A t \in DOMAIN game.bal : \A e \in DOMAIN game.bal[t] :
          e \in 1..game.alloc /\ game.bal[t][e] \in Nat
    /\ \A p \in DOMAIN game.markets : p[1] <= p[2] /\ game.markets[p].lp \in DOMAIN game.bal
    /\ DOMAIN game.plants \subseteq DOMAIN game.nfts
    /\ DOMAIN game.nft_sales \subseteq DOMAIN game.nfts
    /\ DOMAIN game.nfts \subseteq 1..game.alloc
    /\ DOMAIN game.seq \subseteq UserIds(game) /\ DOMAIN game.ticks \subseteq UserIds(game)

\* The cached total of a token is the sum of its balances (tokens/mod.rs:67,
\* "Cached from the sum(balances.values())").
TotalsAreSums ==
    \A t \in DOMAIN game.bal :
        game.total[t] = Sum(game.bal[t], DOMAIN game.bal[t])

\* Between moves the reserves a market has on record are what it holds
\* (token_swap.rs, raw_swap and deposit).
ReservesAreHoldings ==
    \A p \in DOMAIN game.markets :
        /\ game.markets[p].a = Holding(game, p, p[1])
        /\ game.markets[p].b = Holding(game, p, p[2])

\* The copies of the balances that the board keeps are right between moves.
BooksBalance == TypeOK /\ TotalsAreSums /\ ReservesAreHoldings

Conserved ==
    /\ Opened(game) =>
          /\ \A t \in DOMAIN game.total \ {btc} : game'.total[t] = game.total[t]
          /\ game'.total[btc] - game.total[btc] \in 0..MiningSubsidy
    /\ \A t \in DOMAIN game.bal :
          /\ \A e \in UserIds(game) :
                balance_check(game', t, e) < balance_check(game, t, e)
                    => last'.from = e
          /\ \A p \in DOMAIN game.plants :
                balance_check(game', t, p) < balance_check(game, t, p)
                    => last'.from = game.nfts[p].owner

\* Tokens are neither made nor taken.  Once the markets are open no move makes or
\* destroys any, but for one payout of at most the mining subsidy
\* (powerplant/events.rs); and a move takes tokens only from its player, from the
\* markets and from what the player's plants hold, as events do only from producers
\* and lockups.
TokensConserved == [][Conserved]_vars

Listed(n) == n \in DOMAIN game.nft_sales

ProductNeverFalls ==
    \A p \in DOMAIN game.markets :
        game'.markets[p].a * game'.markets[p].b >= game.markets[p].a * game.markets[p].b

PaidFor ==
    \A n \in DOMAIN game.nfts :
        game'.nfts[n].owner # game.nfts[n].owner =>
            /\ Listed(n)
            /\ LET sale == game.nft_sales[n]
               IN /\ sale.seller = game.nfts[n].owner
                  /\ game'.nfts[n].owner = last'.from
                  /\ balance_check(game', sale.currency, sale.seller)
                        >= balance_check(game, sale.currency, sale.seller) + sale.price

ListedByOwner ==
    \A n \in DOMAIN game'.nft_sales :
        \/ Listed(n) /\ game'.nft_sales[n] = game.nft_sales[n]
        \/ game.nfts[n].owner = last'.from

\* The listings a step ends
Ended == DOMAIN game.nft_sales \ DOMAIN game'.nft_sales

Delivered ==
    \A n \in Ended :
        IF game.nfts[n].transfer_count = NonTransferrable
        THEN game'.nfts[n] = game.nfts[n]
        ELSE game'.nfts[n] = [owner |-> last'.from,
                              transfer_count |-> game.nfts[n].transfer_count + 1]

\* Every deal is fair.  No sequence of deposits and trades lowers the product of a
\* market's reserves: rounding is always in the market's favour (token_swap.rs, the
\* formulae of both trades).  An NFT is sold against payment (nfts/sale.rs): it is
\* listed, and its price set, by its owner alone; it changes hands only for what it
\* was listed, which its owner then has; and what ends a listing makes the buyer the
\* owner and the listings before it stale.  Only a lockup stays with its seller, whom
\* the buyer has paid: see PaidIsDelivered.
DealsAreFair == [][ProductNeverFalls /\ PaidFor /\ ListedByOwner /\ Delivered]_vars

\* What is paid for is delivered, or the purchase is reverted (nfts/sale.rs:112-113,
\* "transfer may fail, so revert if so" and "Check is_transferable").  The code does not
\* check: a lockup, which its owner can list like any NFT, ignores the transfer without
\* an error; its buyer has paid, its seller keeps it and the coins released from it.
PaidIsDelivered == [][\A n \in Ended : game'.nfts[n].owner = last'.from]_vars

\* The places in an agenda, and those of one kind of event
Places(callbacks) == UNION {{t} \X DOMAIN callbacks[t] : t \in DOMAIN callbacks}
PlacesOf(kind, callbacks) ==
    {p \in Places(callbacks) : callbacks[p[1]][p[2]].kind = kind}

Recurring == {"payout", "asic", "steel", "silicon", "concrete"}

ScheduledOnce ==
    \A kind \in Recurring : Cardinality(PlacesOf(kind, game.callbacks)) = 1

NothingOverdue ==
    last.from # 0 /\ last.out = "ok" =>
        \A t \in Due(game) : \A cb \in ToSet(game.callbacks[t]) : cb.kind = "lockup"

Sends(n) == \E m \in Setup[game.setup].moves : m.kind = "send" /\ m.to = n

LocksAreReleased ==
    \A n \in DOMAIN game.nfts \ DOMAIN game.plants : \A t \in DOMAIN game.bal :
        balance_check(game, t, n) > 0 =>
            \/ [kind |-> "lockup", id |-> n, asset |-> t] \in Scheduled(game)
            \/ Sends(n)

\* Events are neither lost nor doubled when they reschedule themselves while
\* the registry runs (callbacks.rs, run): there is one payout, one event of each
\* producer, for none ever sells out, and none that was due is left over after a
\* move; and coins in a lockup have a release scheduled (lockup.rs:18-19, "releases
\* them via a scheduled event in the future"), unless players send coins there, which
\* a lockup that is already released keeps.
EventsPersist == ScheduledOnce /\ NothingOverdue /\ LocksAreReleased

Final ==
    /\ game'.elapsed >= game.elapsed
    /\ game_is_finished(game) =>
          /\ game_is_finished(game')
          /\ \A bounty \in 0..10 :
                LET paid == get_close_distribution(game', bounty)
                IN /\ \A i \in DOMAIN paid : paid[i] >= 0
                   /\ paid # <<>> => Sum(paid, DOMAIN paid) = bounty

\* The end is final.  The game's clock never goes back, also when the median of the
\* players' clocks does because another player joins in (game/mod.rs:575, "maybe
\* ensure monotonic?"), so that a finished game stays finished; and whatever the
\* bounty, it pays out all of it and no more if there is anybody to pay
\* (get_close_distribution: the excess is computed in u64).
EndIsFinal == [][Final]_vars

\* A query leaves the board, or makes a market for the pair it asks of.
Undisturbed ==
    \/ game' = game
    \/ \E v \in Setup[game.setup].views :
          /\ "pair" \in DOMAIN v /\ ~has_market(game, v.pair)
          /\ game' = ensure(game, v.pair)

RefusedAsWas ==
    \E time \in Setup[game.setup].times :
        \E g \in {process_ticks(game, last'.from, time)} :
            /\ game'.nfts = g.nfts /\ game'.nft_sales = g.nft_sales
            /\ game'.elapsed = g.elapsed /\ game'.callbacks = g.callbacks
            /\ \A t \in DOMAIN g.bal : \A e \in DOMAIN game'.bal[t] :
                  game'.bal[t][e] = balance_check(g, t, e)

\* A move that is refused leaves everything as the events due before it left
\* it: a SuperMint does not buy part of its materials (powerplant/mod.rs).  Asking what
\* a trade would cost moves nothing on the board, which every player has to compute
\* alike (view.rs, simulate_trade gets it mutably): where the pair has a market the
\* board is just as it was, else it has an empty market more, and with it two EntityIDs
\* less than the boards of the others.
RefusedChangesNothing ==
    [][/\ last'.out = "view" => Undisturbed
       /\ last'.out \in {"insufficient", "invalid", "slipped"} => RefusedAsWas]_vars

\* The trades that the formulae of token_swap.rs have no answer to: a purchase of exactly
\* what the market has (:345, the division by what is left), a sale into a market that
\* has nothing (:548), and amounts beyond a u128 (:343-347, :539-548)
Unanswerable(g, m) ==
    LET p == normalize(m.pair)
        n == m.amount_a + m.amount_b
        this == IF m.amount_a = 0 THEN m.pair[2] ELSE m.pair[1]
        other == IF m.amount_a = 0 THEN m.pair[1] ELSE m.pair[2]
        k == Holding(g, p, this) * Holding(g, p, other)
    IN /\ p \in DOMAIN g.markets
       /\ IF m.sell THEN Holding(g, p, other) = 0 \/ k + Holding(g, p, this) + n > U128Max
          ELSE Holding(g, p, this) = n \/ 2 * k + Holding(g, p, this) > U128Max

\* A SuperMint one of whose purchases is of exactly what its market has
UsesUp(g, m) ==
    \E i \in Bill : Quantity(m.plant_type, m.scale, i)
                     = Holding(g, <<Material(m.plant_type, i), btc>>, Material(m.plant_type, i))

Fatal(g, m, from) ==
    \/ m.kind = "trade" /\ Unanswerable(g, m)
    \/ m.kind = "super_mint" /\ UsesUp(g, m)
    \/ m.kind = "remove" /\ g.nfts[m.nft].owner = from /\ m.nft \notin DOMAIN g.plants

\* What a producer that has opened its market sells to always has something of both
\* tokens, and not so much that a sale overflows.
ProducersCanSell(g) ==
    \A cb \in Scheduled(g) :
        "first" \in DOMAIN cb /\ ~cb.first =>
            LET p == normalize(<<cb.asset, btc>>)
                mkt == g.markets[p]
            IN /\ mkt.a > 0 /\ mkt.b > 0
               /\ mkt.a * mkt.b + mkt.a + mkt.b + g.total[cb.asset] <= U128Max

=============================================================================
