------------------------------ MODULE TokenSwap ------------------------------
(***************************************************************************)
(* The tokens of the board and the markets between them                     *)
(* (common/mine-with-friends-board/src/tokens/mod.rs and token_swap.rs).    *)
(*                                                                          *)
(* The game is one record and an operation is an operator from the game to  *)
(* the game after it, so that Board can compose operations the way play     *)
(* does.  A trade gives an outcome record: the game, and out, one of "ok",  *)
(* the TradeErrors and "panic".  This module uses the fields                *)
(*                                                                          *)
(*   alloc    the last EntityID handed out                                  *)
(*   bal      per token the balances: a function of its holders             *)
(*   total    per token the cached total                                    *)
(*   markets  per normalized pair the market, with its cached reserves      *)
(*                                                                          *)
(* An EntityID is a number; a token is named by its own EntityID.           *)
(* u128 arithmetic is the unbounded one up to U128Max, beyond which it      *)
(* panics, as it does in the builds that check for overflow.  That bound is *)
(* on the formulae of the two trades, which add amounts that players name.  *)
(* It holds of itself elsewhere: balances and their sums are within the     *)
(* totals, a deposit is only ever made into an empty market, and the        *)
(* product that raw_swap compares is less than the sum that roundup_div has *)
(* formed before it.                                                        *)
(***************************************************************************)
EXTENDS Integers, Sequences

CONSTANT U128Max

ASSUME U128Assumption == U128Max \in Nat \ {0}

NoCap == -1     \* Option::None

\* An insertion into a map
Put(f, x, v) == [y \in DOMAIN f \cup {x} |-> IF y = x THEN v ELSE f[y]]

-----------------------------------------------------------------------------
(* Tokens *)

balance_check(g, t, e) == IF e \in DOMAIN g.bal[t] THEN g.bal[t][e] ELSE 0

\* The balances of t with e's set to n
SetBalance(g, t, e, n) == [g EXCEPT !.bal[t] = Put(@, e, n)]

new_token(g, t) ==
    [g EXCEPT !.bal = Put(@, t, <<>>), !.total = Put(@, t, 0)]

mint(g, t, e, n) ==
    [SetBalance(g, t, e, balance_check(g, t, e) + n) EXCEPT !.total[t] = @ + n]

\* Only transfer burns, and only what is there.
burn(g, t, e, n) ==
    [SetBalance(g, t, e, balance_check(g, t, e) - n) EXCEPT !.total[t] = @ - n]

transfer_possible(g, t, from, n) == balance_check(g, t, from) >= n

transfer_inflating(g, t, from, to, n) ==
    IF transfer_possible(g, t, from, n)
    THEN LET read == balance_check(g, t, to)
         IN SetBalance(burn(g, t, from, n), t, to, read + n) ELSE g

\* Without the cover the call returns false and has no effect.
transfer(g, t, from, to, n) ==
    IF transfer_possible(g, t, from, n)
    THEN mint(burn(g, t, from, n), t, to, n) ELSE g

-----------------------------------------------------------------------------
(* Markets *)

normalize(pair) == IF pair[1] <= pair[2] THEN pair ELSE <<pair[2], pair[1]>>

has_market(g, pair) == normalize(pair) \in DOMAIN g.markets

\* A new market takes two EntityIDs: its shares' token, then its own.
ensure(g, pair) ==
    IF has_market(g, pair) THEN g
    ELSE LET lp == g.alloc + 1
             mkt == [id |-> g.alloc + 2, lp |-> lp, a |-> 0, b |-> 0]
         IN [new_token(g, lp) EXCEPT
                !.alloc = @ + 2, !.markets = Put(@, normalize(pair), mkt)]

\* What the market of pair holds of t
Holding(g, pair, t) == balance_check(g, t, g.markets[normalize(pair)].id)

\* Shares in proportion to the shares there are
MintShares(g, p, amount_a, amount_b, from) ==
    LET lp == g.markets[p].lp
    IN [mint(g, lp, from, (g.total[lp] * amount_a) \div Holding(g, p, p[1])) EXCEPT
           !.markets[p].a = @ + amount_a, !.markets[p].b = @ + amount_b]

\* The ratio of a deposit has to be that of the holdings.
DepositInto(g, p, amount_a, amount_b, from) ==
    LET id == g.markets[p].id
        paid_a == transfer(g, p[1], from, id, amount_a)
    IN IF \/ amount_a * Holding(g, p, p[2]) # Holding(g, p, p[1]) * amount_b
          \/ ~transfer_possible(g, p[1], from, amount_a)
          \/ ~transfer_possible(paid_a, p[2], from, amount_b)
       THEN g
       ELSE MintShares(transfer(paid_a, p[2], from, id, amount_b),
                       p, amount_a, amount_b, from)

deposit(g, pair, amount_1, amount_2, from) ==
    LET same == normalize(pair) = pair
    IN IF amount_1 = 0 \/ amount_2 = 0 THEN g
       ELSE DepositInto(ensure(g, pair), normalize(pair),
                        IF same THEN amount_1 ELSE amount_2,
                        IF same THEN amount_2 ELSE amount_1, from)

\* A definition named X_fault is X with a bug the code could have had.
\* Nothing uses it: put in place of X, it shows that a property notices.
roundup_div(x, y) == (x + y - 1) \div y

\* There is nothing to divide by, or the sum overflows, or already the x in it.
div_panics(x, y) == y = 0 \/ x + y > U128Max

Outcome(g, out, sold, bought) ==
    [game |-> g, out |-> out, sold |-> sold, bought |-> bought]
Refused(g, out) == Outcome(g, out, 0, 0)

raw_swap_stale_reserves(g, pair, buying, n, sender) ==
    [out |-> "ok", game |-> transfer(g, buying, g.markets[pair].id, sender, n)]

raw_swap_one_reserve(g, pair, buying, n, sender) ==
    LET h == transfer(g, buying, g.markets[pair].id, sender, n)
        left == Holding(h, pair, buying)
    IN [out |-> "ok",
        game |-> IF buying = pair[1] THEN [h EXCEPT !.markets[pair].a = left]
                 ELSE [h EXCEPT !.markets[pair].b = left]]

\* After the payment the holdings must be worth the reserves on record, which
\* they then become; else the game stays g.
Reserve(g, paid, pair) ==
    LET mkt == g.markets[pair]
        a == Holding(paid, pair, pair[1])
        b == Holding(paid, pair, pair[2])
    IN IF a * b < mkt.a * mkt.b THEN [out |-> "invalid", game |-> g]
       ELSE [out |-> "ok",
             game |-> [paid EXCEPT !.markets[pair].a = a, !.markets[pair].b = b]]

\* The market pays n of buying out.
raw_swap(g, pair, buying, n, sender) ==
    LET id == g.markets[pair].id
    IN IF ~transfer_possible(g, buying, id, n)
       THEN [out |-> "insufficient", game |-> g]
       ELSE Reserve(g, IF n = 0 THEN g ELSE transfer(g, buying, id, sender, n), pair)

\* A swap that is refused gives the sender back what it sold.
Refund(swap, pair, selling, sold, bought, sender) ==
    IF swap.out = "ok" THEN Outcome(swap.game, "ok", sold, bought)
    ELSE Refused(transfer(swap.game, selling, swap.game.markets[pair].id, sender, sold),
                 swap.out)

Settle_unsimulated(g, pair, selling, buying, sold, bought, simulate, sender) ==
    IF sold > balance_check(g, selling, sender) THEN Refused(g, "insufficient")
    ELSE Refund(raw_swap(transfer(g, selling, sender, g.markets[pair].id, sold),
                         pair, buying, bought, sender),
                pair, selling, sold, bought, sender)

\* The two legs of a trade at the amounts computed.
Settle(g, pair, selling, buying, sold, bought, simulate, sender) ==
    IF sold > balance_check(g, selling, sender) THEN Refused(g, "insufficient")
    ELSE IF simulate THEN Outcome(g, "ok", sold, bought)
    ELSE Refund(raw_swap(transfer(g, selling, sender, g.markets[pair].id, sold),
                         pair, buying, bought, sender),
                pair, selling, sold, bought, sender)

\* What has to be sold to a market that holds qs and qb for n of the qb, and
\* what is bought of the qb for n sold, each rounded in the market's favour.
AmountSold(qs, qb, n) == roundup_div(qs * qb, qb - n) - qs
AmountBought(qs, qb, n) == qb - roundup_div(qs * qb, qs + n)


\* Trades a fixed amount n of buying; at most max is sold for it.
BuyFixed(g, pair, selling, buying, n, max, simulate, sender) ==
    LET qs == Holding(g, pair, selling)
        qb == Holding(g, pair, buying)
        sold == AmountSold(qs, qb, n)
    IN IF n > qb THEN Refused(g, "insufficient")
       ELSE IF div_panics(qs * qb, qb - n) \/ div_panics(qs * qb, qs + sold)
            THEN Refused(g, "panic")
       ELSE IF max # NoCap /\ sold > max THEN Refused(g, "slipped")
       ELSE Settle(g, pair, selling, buying, sold, AmountBought(qs, qb, sold),
                   simulate, sender)

\* Trades at most n of selling, for at least min.  The amount sold shrinks to
\* what the amount bought costs.
SellFixed(g, pair, selling, buying, n, min, simulate, sender) ==
    LET qs == Holding(g, pair, selling)
        qb == Holding(g, pair, buying)
        bought == AmountBought(qs, qb, n)
    IN IF min # NoCap /\ qb < min THEN Refused(g, "insufficient")
       ELSE IF div_panics(qs * qb, qs + n) \/ div_panics(qs * qb, qb - bought)
            THEN Refused(g, "panic")
       ELSE IF min # NoCap /\ bought < min THEN Refused(g, "slipped")
       ELSE Settle(g, pair, selling, buying, AmountSold(qs, qb, bought), bought,
                   simulate, sender)

\* The pair names the direction: exactly one of the amounts is not zero.
\* The market is made even if the trade is then refused.
DoTrade(g, pair, amount_a, amount_b, sell, cap, simulate, sender) ==
    LET h == ensure(g, pair)
        p == normalize(pair)
        other == IF amount_a = 0 THEN pair[1] ELSE pair[2]
        given == IF amount_a = 0 THEN pair[2] ELSE pair[1]
        n == amount_a + amount_b
    IN IF (amount_a = 0) = (amount_b = 0) THEN Refused(h, "invalid")
       ELSE IF sell THEN SellFixed(h, p, given, other, n, cap, simulate, sender)
       ELSE BuyFixed(h, p, other, given, n, cap, simulate, sender)

do_sell_trade(g, pair, a, b, min, simulate, sender) ==
    DoTrade(g, pair, a, b, TRUE, min, simulate, sender)
do_buy_trade(g, pair, a, b, max, simulate, sender) ==
    DoTrade(g, pair, a, b, FALSE, max, simulate, sender)
=============================================================================
