----------------------------- MODULE BoardProofs -----------------------------
(***************************************************************************)
(* What Board's run checks on small games, proved for every number of        *)
(* players, every start amount, price, period and subsidy, and every         *)
(* sequence of moves of any kind.  BoardInv is the inductive invariant:      *)
(* Books (the tokens' totals and the markets' reserves), Registry (what the  *)
(* other registers name), Agenda (what is scheduled) and Started.  A board   *)
(* is a record, and the lemmas are about the operators from a board to the   *)
(* next: LedgerStep is what every operation on tokens keeps, EventStep what  *)
(* every event keeps, and Move what every move of a player keeps.            *)
(***************************************************************************)
EXTENDS Board, WellFoundedInduction, SequenceTheorems, FiniteSetTheorems, TLAPS

-----------------------------------------------------------------------------
(* Induction *)

\* A set with 0 and the successor of each of its numbers has them all.
LEMMA Induction ==
    ASSUME NEW S, 0 \in S, \A n \in Nat : n \in S => n + 1 \in S
    PROVE  Nat \subseteq S
<1> DEFINE T == {n \in Nat : n \notin S}
           R == {p \in Nat \X Nat : p[1] < p[2]}
<1>1. SUFFICES ASSUME T # {} PROVE FALSE
  OBVIOUS
<1>2. IsWellFoundedOn(R, Nat)
  BY NatLessThanWellFounded DEF OpToRel
<1>3. PICK x \in T : \A y \in T : ~(<<y, x>> \in R)
  <2>1. T \subseteq Nat
    OBVIOUS
  <2> HIDE DEF T, R
  <2>2. QED BY ONLY <1>1, <1>2, <2>1, WFMin
<1>4. x # 0 /\ x \in Nat /\ x - 1 \in Nat
  OBVIOUS
<1>5. <<x - 1, x>> \in R
  BY <1>4
<1>6. QED BY <1>3, <1>4, <1>5

\* Induction over the subsets of a finite set, by one element less.
LEMMA FiniteInduction ==
    ASSUME NEW S, IsFiniteSet(S), NEW T, {} \in T,
           \A s \in SUBSET S : s # {} /\ (\A x \in s : s \ {x} \in T) => s \in T
    PROVE  SUBSET S \subseteq T
<1> DEFINE C == {n \in Nat : \A s \in SUBSET S : Cardinality(s) = n => s \in T}
<1>1. \A s \in SUBSET S : IsFiniteSet(s) /\ Cardinality(s) \in Nat
  BY FS_Subset, FS_CardinalityType
<1>2. 0 \in C
  BY <1>1, FS_EmptySet
<1>3. ASSUME NEW n \in Nat, n \in C PROVE n + 1 \in C
  <2>1. SUFFICES ASSUME NEW s \in SUBSET S, Cardinality(s) = n + 1 PROVE s \in T
    BY <1>3
  <2>2. s # {} /\ IsFiniteSet(s)
    BY <1>1, <2>1, FS_EmptySet
  <2>3. ASSUME NEW x \in s PROVE s \ {x} \in T
    <3>1. Cardinality(s \ {x}) = Cardinality(s) - 1
      BY <2>2, FS_RemoveElement
    <3>2. Cardinality(s \ {x}) = n /\ s \ {x} \in SUBSET S
      BY <2>1, <3>1
    <3>3. QED BY <1>3, <3>2
  <2>4. QED BY <2>2, <2>3
<1>4. Nat \subseteq C
  <2> HIDE DEF C
  <2>1. QED BY <1>2, <1>3, Induction
<1>5. QED BY <1>1, <1>4

-----------------------------------------------------------------------------
(* Sums.  The sum over a set takes its elements in an order of CHOOSE's; the *)
(* lemmas free it from that order.                                           *)

\* h gives the sum of f over each subset of S: any element can be taken out.
IsSum(h, f, S) ==
    /\ DOMAIN h = SUBSET S
    /\ h[{}] = 0
    /\ \A s \in SUBSET S : h[s] \in Int
    /\ \A s \in SUBSET S : \A x \in s : h[s] = f[x] + h[s \ {x}]

\* Such sums exist.
LEMMA SumExists ==
    ASSUME NEW S, IsFiniteSet(S), NEW f, \A x \in S : f[x] \in Int
    PROVE  \E h : IsSum(h, f, S)
<1> DEFINE T == {s \in SUBSET S : \E h : IsSum(h, f, s)}
<1>1. {} \in T
  <2> DEFINE h == [u \in SUBSET {} |-> 0]
  <2>1. IsSum(h, f, {})
    BY DEF IsSum
  <2>2. QED BY <2>1
<1>2. ASSUME NEW s \in SUBSET S, NEW x \in S \ s, s \in T PROVE s \cup {x} \in T
  <2>1. PICK h : IsSum(h, f, s)
    BY <1>2
  <2> DEFINE k == [u \in SUBSET (s \cup {x}) |-> IF x \in u THEN f[x] + h[u \ {x}] ELSE h[u]]
  <2>2. \A u \in SUBSET (s \cup {x}) : u \ {x} \in SUBSET s /\ (x \notin u => u \in SUBSET s)
    OBVIOUS
  <2>3. \A u \in SUBSET (s \cup {x}) : k[u] \in Int
    BY <2>1, <2>2 DEF IsSum
  <2>4. k[{}] = 0
    BY <2>1 DEF IsSum
  <2>5. ASSUME NEW u \in SUBSET (s \cup {x}), NEW y \in u PROVE k[u] = f[y] + k[u \ {y}]
    <3>1. CASE y = x
      <4>1. k[u] = f[x] + h[u \ {x}] /\ u \ {y} \in SUBSET s /\ x \notin u \ {y}
        BY <3>1, <2>2
      <4>2. k[u \ {y}] = h[u \ {x}]
        BY <3>1, <4>1
      <4> HIDE DEF k
      <4>3. QED BY <3>1, <4>1, <4>2
    <3>2. CASE y # x /\ x \notin u
      BY <3>2, <2>1, <2>2 DEF IsSum
    <3>3. CASE y # x /\ x \in u
      <4>1. PICK v, w : v = u \ {x} /\ w = v \ {y}
        OBVIOUS
      <4>2. (u \ {y}) \ {x} = w /\ y \in v /\ v \in SUBSET s /\ w \in SUBSET s
        BY <3>3, <4>1
      <4>3. k[u] = f[x] + h[v] /\ k[u \ {y}] = f[x] + h[w]
        BY <3>3, <4>1, <4>2
      <4>4. h[v] = f[y] + h[w] /\ h[w] \in Int
        <5>1. h[v] = f[y] + h[v \ {y}]
          BY <4>2, <2>1 DEF IsSum
        <5>2. QED BY <5>1, <4>1, <4>2, <2>1 DEF IsSum
      <4>5. f[x] \in Int /\ f[y] \in Int
        OBVIOUS
      <4> HIDE DEF k
      <4>6. k[u] = f[x] + (f[y] + h[w])
        BY <4>3, <4>4
      <4>7. QED BY ONLY <4>3, <4>4, <4>5, <4>6
    <3>4. QED BY <3>1, <3>2, <3>3
  <2>6. IsSum(k, f, s \cup {x})
    <3>1. DOMAIN k = SUBSET (s \cup {x})
      OBVIOUS
    <3> HIDE DEF k
    <3>2. QED BY <3>1, <2>3, <2>4, <2>5 DEF IsSum
  <2>7. QED BY <2>6
<1>3. ASSUME NEW s \in SUBSET S, s # {}, \A x \in s : s \ {x} \in T PROVE s \in T
  <2>1. PICK x \in s : TRUE
    BY <1>3
  <2>2. s \ {x} \in SUBSET S /\ x \in S \ (s \ {x}) /\ s = (s \ {x}) \cup {x}
    BY <2>1
  <2> HIDE DEF T
  <2>3. QED BY <1>2, <1>3, <2>2
<1>4. S \in T
  <2> HIDE DEF T
  <2>1. QED BY <1>1, <1>3, FiniteInduction
<1>5. QED BY <1>4

\* They are what Sum computes.
LEMMA SumIs ==
    ASSUME NEW S, IsFiniteSet(S), NEW f, NEW h, IsSum(h, f, S)
    PROVE  Sum(f, S) = h[S]
<1> DEFINE Step(k, s) == IF s = {} THEN 0
                         ELSE LET x == CHOOSE x \in s : TRUE IN f[x] + k[s \ {x}]
           Iter(k) == k = [s \in SUBSET S |-> Step(k, s)]
           iter == CHOOSE k : Iter(k)
<1>1. Sum(f, S) = iter[S]
  BY DEF Sum, FoldFunctionOnSet, MapThenFoldSet
<1>2. \A s \in SUBSET S : h[s] = Step(h, s)
  <2>1. SUFFICES ASSUME NEW s \in SUBSET S, s # {} PROVE h[s] = Step(h, s)
    BY DEF IsSum
  <2>2. (CHOOSE x \in s : TRUE) \in s
    BY <2>1
  <2>3. QED BY <2>1, <2>2 DEF IsSum
<1> DEFINE hh == [s \in SUBSET S |-> h[s]]
<1>3. \A s \in SUBSET S : s \ {CHOOSE x \in s : TRUE} \in SUBSET S
  OBVIOUS
<1>4. Iter(hh)
  BY <1>2, <1>3
<1>5. Iter(iter)
  <2> HIDE DEF Iter, hh
  <2>1. QED BY <1>4
<1>6. \A s \in SUBSET S : iter[s] = Step(iter, s)
  <2>1. iter = [s \in SUBSET S |-> Step(iter, s)]
    BY <1>5
  <2> HIDE DEF iter
  <2>2. QED BY <2>1
<1> HIDE DEF iter
<1> DEFINE T == {s \in SUBSET S : iter[s] = h[s]}
<1>7. {} \in T
  BY <1>6 DEF IsSum
<1>8. ASSUME NEW s \in SUBSET S, s # {}, \A x \in s : s \ {x} \in T PROVE s \in T
  <2>1. PICK y : y = CHOOSE z \in s : TRUE
    OBVIOUS
  <2>2. y \in s
    BY <1>8, <2>1
  <2>3. iter[s] = f[y] + iter[s \ {y}] /\ h[s] = f[y] + h[s \ {y}]
    BY <1>6, <1>2, <1>8, <2>1
  <2>4. QED BY <1>8, <2>2, <2>3
<1>9. S \in T
  <2> HIDE DEF T, Step
  <2>1. QED BY <1>7, <1>8, FiniteInduction
<1>10. QED BY <1>1, <1>9

\* A sum, with one of its elements taken out
LEMMA SumSplit ==
    ASSUME NEW S, IsFiniteSet(S), NEW f, \A y \in S : f[y] \in Int, NEW x \in S
    PROVE  /\ Sum(f, S) \in Int /\ Sum(f, S \ {x}) \in Int
           /\ Sum(f, S) = f[x] + Sum(f, S \ {x})
<1>1. PICK h : IsSum(h, f, S)
  BY SumExists
<1> DEFINE k == [s \in SUBSET (S \ {x}) |-> h[s]]
<1>2. IsSum(k, f, S \ {x})
  BY <1>1 DEF IsSum
<1>3. IsFiniteSet(S \ {x}) /\ k[S \ {x}] = h[S \ {x}]
  BY FS_RemoveElement
<1> HIDE DEF k
<1>4. Sum(f, S) = h[S] /\ Sum(f, S \ {x}) = h[S \ {x}]
  BY <1>1, <1>2, <1>3, SumIs
<1>5. h[S] \in Int /\ h[S \ {x}] \in Int /\ h[S] = f[x] + h[S \ {x}]
  BY <1>1 DEF IsSum
<1>6. QED BY <1>4, <1>5

\* The sum of nothing
LEMMA SumEmpty == ASSUME NEW f PROVE Sum(f, {}) = 0
BY DEF Sum, FoldFunctionOnSet, MapThenFoldSet

\* A sum depends on the values at the elements only.
LEMMA SumSame ==
    ASSUME NEW S, IsFiniteSet(S), NEW f, NEW g,
           \A y \in S : f[y] \in Int /\ f[y] = g[y]
    PROVE  Sum(f, S) = Sum(g, S)
<1>1. PICK h : IsSum(h, f, S)
  BY SumExists
<1>2. IsSum(h, g, S)
  BY <1>1 DEF IsSum
<1>3. QED BY <1>1, <1>2, SumIs

\* The sum of natural numbers is one, and at least each of them.
LEMMA SumNat ==
    ASSUME NEW S, IsFiniteSet(S), NEW f, \A y \in S : f[y] \in Nat
    PROVE  Sum(f, S) \in Nat /\ \A y \in S : f[y] <= Sum(f, S)
<1>1. PICK h : IsSum(h, f, S)
  BY SumExists
<1> DEFINE T == {s \in SUBSET S : h[s] \in Nat}
<1>2. {} \in T
  BY <1>1 DEF IsSum
<1>3. ASSUME NEW s \in SUBSET S, s # {}, \A x \in s : s \ {x} \in T PROVE s \in T
  <2>1. PICK x \in s : TRUE
    BY <1>3
  <2>2. h[s] = f[x] + h[s \ {x}] /\ h[s \ {x}] \in Nat /\ f[x] \in Nat
    BY <1>1, <1>3 DEF IsSum
  <2>3. QED BY <2>2
<1>4. SUBSET S \subseteq T
  <2> HIDE DEF T
  <2>1. QED BY <1>2, <1>3, FiniteInduction
<1>5. Sum(f, S) = h[S] /\ h[S] \in Nat
  BY <1>1, <1>4, SumIs
<1>6. ASSUME NEW y \in S PROVE f[y] <= Sum(f, S)
  <2>1. h[S] = f[y] + h[S \ {y}] /\ h[S \ {y}] \in Nat
    BY <1>1, <1>4 DEF IsSum
  <2>2. QED BY <2>1, <1>5
<1>7. QED BY <1>5, <1>6

\* What an insertion does to the sum of a map
LEMMA SumPut ==
    ASSUME NEW f, IsFiniteSet(DOMAIN f), \A y \in DOMAIN f : f[y] \in Int,
           NEW x, NEW v \in Int
    PROVE  Sum(Put(f, x, v), DOMAIN Put(f, x, v)) =
               Sum(f, DOMAIN f) + v - (IF x \in DOMAIN f THEN f[x] ELSE 0)
<1> DEFINE p == Put(f, x, v)
           D == DOMAIN f
           R == D \ {x}
<1>1. DOMAIN p = D \cup {x} /\ p[x] = v /\ \A y \in R : p[y] = f[y]
  BY DEF Put
<1>2. IsFiniteSet(D \cup {x}) /\ IsFiniteSet(R) /\ (D \cup {x}) \ {x} = R
  BY FS_AddElement, FS_RemoveElement
<1>3. \A y \in D \cup {x} : p[y] \in Int
  BY <1>1
<1> HIDE DEF p
<1>4. Sum(p, D \cup {x}) = v + Sum(p, R) /\ Sum(p, R) \in Int
  BY <1>1, <1>2, <1>3, SumSplit
<1>5. Sum(p, R) = Sum(f, R)
  BY <1>1, <1>2, SumSame
<1>6. CASE x \in D
  <2>1. Sum(f, D) = f[x] + Sum(f, R) /\ Sum(f, R) \in Int /\ f[x] \in Int
    BY <1>6, SumSplit
  <2>2. QED BY <1>1, <1>4, <1>5, <1>6, <2>1 DEF p
<1>7. CASE x \notin D
  <2>1. R = D
    BY <1>7
  <2>2. QED BY <1>1, <1>4, <1>5, <1>7, <2>1 DEF p
<1>8. QED BY <1>6, <1>7

(* The invariant.  Field are the fields of a game.                           *)
Field == {"setup", "alloc", "bal", "total", "markets", "users", "nfts", "plants",
          "nft_sales", "seq", "ticks", "elapsed", "callbacks"}

\* The accounts of the markets, and the EntityIDs that are none of them
MarketIds(g) == {g.markets[p].id : p \in DOMAIN g.markets}
Holder(g) == (1..g.alloc) \ MarketIds(g)

\* The tokens: who has an account, and that the cached totals are right
Wallets(g) ==
    /\ DOMAIN g = Field
    /\ g.alloc \in Nat
    /\ DOMAIN g.total = DOMAIN g.bal
    /\ BaseToken \subseteq DOMAIN g.bal
    /\ DOMAIN g.bal \subseteq 1..g.alloc
    /\ \A t \in DOMAIN g.bal :
          /\ DOMAIN g.bal[t] \subseteq 1..g.alloc
          /\ \A e \in DOMAIN g.bal[t] : g.bal[t][e] \in Nat
          /\ g.total[t] = Sum(g.bal[t], DOMAIN g.bal[t])

\* A market's account, shares and reserves
MarketSound(g, p) ==
    /\ p \in (DOMAIN g.bal) \X (DOMAIN g.bal) /\ p[1] <= p[2]
    /\ DOMAIN g.markets[p] = {"id", "lp", "a", "b"}
    /\ g.markets[p].id \in 1..g.alloc
    /\ g.markets[p].lp \in DOMAIN g.bal
    /\ g.markets[p].a = balance_check(g, p[1], g.markets[p].id)
    /\ g.markets[p].b = balance_check(g, p[2], g.markets[p].id)

\* No two markets have one account.
Markets(g) ==
    /\ \A p \in DOMAIN g.markets : MarketSound(g, p)
    /\ \A p, q \in DOMAIN g.markets : g.markets[p].id = g.markets[q].id => p = q

Books(g) == Wallets(g) /\ Markets(g)

ProducerKind == {"asic", "steel", "silicon", "concrete"}

\* The events: a lockup's release, and a producer's, which has an EntityID of its own
Lockup(g) == DOMAIN g.nfts \ DOMAIN g.plants
Event(g) ==
         [kind : {"payout"}]
    \cup [kind : {"lockup"}, id : Lockup(g), asset : DOMAIN g.bal]
    \cup {cb \in [kind : ProducerKind, asset : BaseToken \ {btc},
                  id : Holder(g) \ (UserIds(g) \cup DOMAIN g.nfts), first : BOOLEAN] :
            <<cb.kind, cb.asset>> \in {<<"asic", asic>>, <<"steel", steel>>,
                                      <<"silicon", silicon>>, <<"concrete", concrete>>}}
Agenda(g) ==
    \A t \in DOMAIN g.callbacks : t \in Nat /\ g.callbacks[t] \in Seq(Event(g))

\* What else the board keeps names what exists, and no market's account.
Registry(g) ==
    /\ g.setup \in DOMAIN Setup
    /\ g.elapsed \in Nat
    /\ \A k \in DOMAIN g.users : g.users[k] \in Holder(g)
    /\ \A n \in DOMAIN g.nfts :
          n \in Holder(g) \ UserIds(g) /\ g.nfts[n].owner \in UserIds(g)
    /\ \A p \in DOMAIN g.plants : p \in DOMAIN g.nfts /\ g.plants[p].watts \in Nat
    /\ \A n \in DOMAIN g.nft_sales :
          /\ n \in DOMAIN g.nfts
          /\ g.nft_sales[n].price \in Nat /\ g.nft_sales[n].currency \in DOMAIN g.bal
    /\ DOMAIN g.seq \subseteq UserIds(g)
    /\ \A u \in DOMAIN g.ticks :
          u \in UserIds(g) /\ g.ticks[u] \in [first_time : Nat, elapsed : Nat]

\* The players have joined, and each material has its market.
Material4 == {asic, steel, silicon, concrete}
Started(g) ==
    /\ DOMAIN g.users = {Players[i] : i \in DOMAIN Players}
    /\ \A t \in Material4 : <<btc, t>> \in DOMAIN g.markets

Sound(g) == Books(g) /\ Registry(g) /\ Agenda(g)
BoardInv == Sound(game) /\ Started(game) /\ game_task \in {"playing", "dead"}

-----------------------------------------------------------------------------
(* The tokens *)

\* h is g but for the tokens' balances and totals.
SameBut(g, h) ==
    /\ DOMAIN h = Field /\ DOMAIN h.bal = DOMAIN g.bal
    /\ \A x \in Field \ {"bal", "total"} : h[x] = g[x]

\* h is g with the balances b and the total n of t.
Changes(g, h, t, b, n) ==
    /\ SameBut(g, h)
    /\ h.bal = [g.bal EXCEPT ![t] = b] /\ h.total = [g.total EXCEPT ![t] = n]

\* What a balance is
LEMMA BalanceFacts ==
    ASSUME NEW g, Wallets(g), NEW t \in DOMAIN g.bal
    PROVE  /\ \A e : balance_check(g, t, e) \in Nat
           /\ \A e : e \notin 1..g.alloc => balance_check(g, t, e) = 0
           /\ IsFiniteSet(DOMAIN g.bal[t])
           /\ g.total[t] \in Nat
           /\ \A e : balance_check(g, t, e) <= g.total[t]
<1>1. DOMAIN g.bal[t] \subseteq 1..g.alloc /\ (\A e \in DOMAIN g.bal[t] : g.bal[t][e] \in Nat)
      /\ g.total[t] = Sum(g.bal[t], DOMAIN g.bal[t]) /\ g.alloc \in Nat
  BY DEF Wallets
<1>2. IsFiniteSet(DOMAIN g.bal[t])
  <2>1. IsFiniteSet(1..g.alloc)
    BY <1>1, FS_Interval
  <2>2. QED BY <1>1, <2>1, FS_Subset
<1>3. g.total[t] \in Nat /\ \A e \in DOMAIN g.bal[t] : g.bal[t][e] <= g.total[t]
  BY <1>1, <1>2, SumNat
<1>4. QED BY <1>1, <1>2, <1>3 DEF balance_check

\* A token's accounts are rewritten, and its total with them.
LEMMA ChangeIsSound ==
    ASSUME NEW g, Wallets(g), NEW t \in DOMAIN g.bal, NEW e \in 1..g.alloc, NEW v \in Nat,
           NEW h, Changes(g, h, t, Put(g.bal[t], e, v),
                          g.total[t] + v - balance_check(g, t, e))
    PROVE  /\ Wallets(h)
           /\ \A u \in DOMAIN g.bal : \A x :
                 balance_check(h, u, x) = IF u = t /\ x = e THEN v ELSE balance_check(g, u, x)
<1> DEFINE b == Put(g.bal[t], e, v)
<1>1. /\ DOMAIN h = Field /\ DOMAIN h.bal = DOMAIN g.bal /\ DOMAIN h.total = DOMAIN g.total
      /\ h.alloc = g.alloc
      /\ h.bal[t] = b /\ \A u \in DOMAIN g.bal : u # t => h.bal[u] = g.bal[u]
      /\ h.total[t] = g.total[t] + v - balance_check(g, t, e)
      /\ \A u \in DOMAIN g.bal : u # t => h.total[u] = g.total[u]
  BY DEF Changes, SameBut, Field, Wallets
<1>2. /\ DOMAIN b = DOMAIN g.bal[t] \cup {e}
      /\ \A x \in DOMAIN b : b[x] = IF x = e THEN v ELSE g.bal[t][x]
  BY DEF Put
<1>3. DOMAIN g.bal[t] \subseteq 1..g.alloc /\ (\A x \in DOMAIN g.bal[t] : g.bal[t][x] \in Nat)
      /\ g.total[t] = Sum(g.bal[t], DOMAIN g.bal[t])
  BY DEF Wallets
<1>4. IsFiniteSet(DOMAIN g.bal[t]) /\ g.total[t] \in Nat
  BY BalanceFacts
<1>5. Sum(b, DOMAIN b) = g.total[t] + v - (IF e \in DOMAIN g.bal[t] THEN g.bal[t][e] ELSE 0)
  BY <1>3, <1>4, SumPut
<1>6. h.total[t] = Sum(b, DOMAIN b)
  BY <1>1, <1>5 DEF balance_check
<1> HIDE DEF b
<1>7. Wallets(h)
  <2>1. ASSUME NEW u \in DOMAIN h.bal
        PROVE  /\ DOMAIN h.bal[u] \subseteq 1..h.alloc
               /\ \A x \in DOMAIN h.bal[u] : h.bal[u][x] \in Nat
               /\ h.total[u] = Sum(h.bal[u], DOMAIN h.bal[u])
    <3>1. CASE u = t
      BY <3>1, <1>1, <1>2, <1>3, <1>6
    <3>2. CASE u # t
      BY <3>2, <1>1 DEF Wallets
    <3>3. QED BY <3>1, <3>2
  <2>2. QED BY <1>1, <2>1 DEF Wallets
<1>8. ASSUME NEW u \in DOMAIN g.bal, NEW x
      PROVE  balance_check(h, u, x) = IF u = t /\ x = e THEN v ELSE balance_check(g, u, x)
  BY <1>1, <1>2 DEF balance_check
<1>9. QED BY <1>7, <1>8

\* The fields after a mint and after a burn
LEMMA MintChanges ==
    ASSUME NEW g, Wallets(g), NEW t \in DOMAIN g.bal, NEW e, NEW n \in Nat
    PROVE  LET v == balance_check(g, t, e) + n
           IN /\ v \in Nat
              /\ Changes(g, mint(g, t, e, n), t, Put(g.bal[t], e, v),
                         g.total[t] + v - balance_check(g, t, e))
<1> DEFINE v == balance_check(g, t, e) + n
           s == SetBalance(g, t, e, v)
<1>1. DOMAIN g = Field /\ DOMAIN g.total = DOMAIN g.bal
  BY DEF Wallets
<1>2. balance_check(g, t, e) \in Nat /\ g.total[t] \in Nat
  BY BalanceFacts
<1>3. g.total[t] + v - balance_check(g, t, e) = g.total[t] + n /\ v \in Nat
  BY <1>2
<1>4. /\ DOMAIN s = Field /\ s.bal = [g.bal EXCEPT ![t] = Put(g.bal[t], e, v)]
      /\ s.total = g.total /\ \A x \in Field \ {"bal"} : s[x] = g[x]
  BY <1>1 DEF SetBalance, Field
<1> HIDE DEF v, s
<1>5. mint(g, t, e, n) = [s EXCEPT !.total = [s.total EXCEPT ![t] = s.total[t] + n]]
  BY <1>1, <1>4 DEF mint, s, v
<1> DEFINE h == [s EXCEPT !.total = [s.total EXCEPT ![t] = s.total[t] + n]]
<1>6. /\ DOMAIN h = Field /\ h.bal = s.bal
      /\ h.total = [g.total EXCEPT ![t] = g.total[t] + n]
      /\ \A x \in Field \ {"total"} : h[x] = s[x]
  BY <1>4 DEF Field
<1> HIDE DEF h
<1>7. Changes(g, h, t, Put(g.bal[t], e, v), g.total[t] + n)
  BY <1>4, <1>6 DEF Changes, SameBut
<1>8. QED BY <1>3, <1>5, <1>7 DEF h, v

\* burn lowers one balance, and the total with it, of a holder that can afford
\* it.
LEMMA BurnChanges ==
    ASSUME NEW g, Wallets(g), NEW t \in DOMAIN g.bal, NEW e, NEW n \in Nat,
           transfer_possible(g, t, e, n)
    PROVE  LET v == balance_check(g, t, e) - n
           IN /\ v \in Nat
              /\ Changes(g, burn(g, t, e, n), t, Put(g.bal[t], e, v),
                         g.total[t] + v - balance_check(g, t, e))
<1> DEFINE v == balance_check(g, t, e) - n
           s == SetBalance(g, t, e, v)
<1>1. DOMAIN g = Field /\ DOMAIN g.total = DOMAIN g.bal
  BY DEF Wallets
<1>2. balance_check(g, t, e) \in Nat /\ g.total[t] \in Nat /\ balance_check(g, t, e) >= n
  BY BalanceFacts DEF transfer_possible
<1>3. g.total[t] + v - balance_check(g, t, e) = g.total[t] - n /\ v \in Nat
  BY <1>2
<1>4. /\ DOMAIN s = Field /\ s.bal = [g.bal EXCEPT ![t] = Put(g.bal[t], e, v)]
      /\ s.total = g.total /\ \A x \in Field \ {"bal"} : s[x] = g[x]
  BY <1>1 DEF SetBalance, Field
<1> HIDE DEF v, s
<1>5. burn(g, t, e, n) = [s EXCEPT !.total = [s.total EXCEPT ![t] = s.total[t] - n]]
  BY <1>1, <1>4 DEF burn, s, v
<1> DEFINE h == [s EXCEPT !.total = [s.total EXCEPT ![t] = s.total[t] - n]]
<1>6. /\ DOMAIN h = Field /\ h.bal = s.bal
      /\ h.total = [g.total EXCEPT ![t] = g.total[t] - n]
      /\ \A x \in Field \ {"total"} : h[x] = s[x]
  BY <1>4 DEF Field
<1> HIDE DEF h
<1>7. Changes(g, h, t, Put(g.bal[t], e, v), g.total[t] - n)
  BY <1>4, <1>6 DEF Changes, SameBut
<1>8. QED BY <1>3, <1>5, <1>7 DEF h, v

\* A mint gives n of t to e.
LEMMA MintFacts ==
    ASSUME NEW g, Wallets(g), NEW t \in DOMAIN g.bal, NEW e \in 1..g.alloc, NEW n \in Nat
    PROVE  LET h == mint(g, t, e, n)
           IN /\ Wallets(h) /\ SameBut(g, h)
              /\ \A u \in DOMAIN g.bal : \A x :
                    balance_check(h, u, x) =
                        balance_check(g, u, x) + IF u = t /\ x = e THEN n ELSE 0
              /\ \A u \in DOMAIN g.bal : h.total[u] = g.total[u] + IF u = t THEN n ELSE 0
<1> DEFINE h == mint(g, t, e, n)
           v == balance_check(g, t, e) + n
<1>1. v \in Nat /\ Changes(g, h, t, Put(g.bal[t], e, v),
                           g.total[t] + v - balance_check(g, t, e))
  BY MintChanges
<1>2. \A u \in DOMAIN g.bal : g.total[u] \in Nat /\ \A x : balance_check(g, u, x) \in Nat
  BY BalanceFacts
<1>3. DOMAIN g.total = DOMAIN g.bal
  BY DEF Wallets
<1> HIDE DEF h
<1>4. /\ Wallets(h)
      /\ \A u \in DOMAIN g.bal : \A x :
            balance_check(h, u, x) = IF u = t /\ x = e THEN v ELSE balance_check(g, u, x)
  <2> HIDE DEF v
  <2>1. QED BY <1>1, ChangeIsSound
<1>5. \A u \in DOMAIN g.bal : h.total[u] = g.total[u] + IF u = t THEN n ELSE 0
  BY <1>1, <1>2, <1>3 DEF Changes
<1>6. SameBut(g, h)
  BY <1>1 DEF Changes
<1>7. \A u \in DOMAIN g.bal : \A x :
         balance_check(h, u, x) = balance_check(g, u, x) + IF u = t /\ x = e THEN n ELSE 0
  BY <1>2, <1>4
<1>8. QED BY <1>4, <1>5, <1>6, <1>7 DEF h

\* A burn takes n of t from e.
LEMMA BurnFacts ==
    ASSUME NEW g, Wallets(g), NEW t \in DOMAIN g.bal, NEW e \in 1..g.alloc, NEW n \in Nat,
           transfer_possible(g, t, e, n)
    PROVE  LET h == burn(g, t, e, n)
           IN /\ Wallets(h) /\ SameBut(g, h)
              /\ \A u \in DOMAIN g.bal : \A x :
                    balance_check(h, u, x) =
                        balance_check(g, u, x) - IF u = t /\ x = e THEN n ELSE 0
              /\ \A u \in DOMAIN g.bal : h.total[u] = g.total[u] - IF u = t THEN n ELSE 0
<1> DEFINE h == burn(g, t, e, n)
           v == balance_check(g, t, e) - n
<1>1. v \in Nat /\ Changes(g, h, t, Put(g.bal[t], e, v),
                           g.total[t] + v - balance_check(g, t, e))
  BY BurnChanges
<1>2. \A u \in DOMAIN g.bal : g.total[u] \in Nat /\ \A x : balance_check(g, u, x) \in Nat
  BY BalanceFacts
<1>3. DOMAIN g.total = DOMAIN g.bal
  BY DEF Wallets
<1> HIDE DEF h
<1>4. /\ Wallets(h)
      /\ \A u \in DOMAIN g.bal : \A x :
            balance_check(h, u, x) = IF u = t /\ x = e THEN v ELSE balance_check(g, u, x)
  <2> HIDE DEF v
  <2>1. QED BY <1>1, ChangeIsSound
<1>5. \A u \in DOMAIN g.bal : h.total[u] = g.total[u] - IF u = t THEN n ELSE 0
  BY <1>1, <1>2, <1>3 DEF Changes
<1>6. SameBut(g, h)
  BY <1>1 DEF Changes
<1>7. \A u \in DOMAIN g.bal : \A x :
         balance_check(h, u, x) = balance_check(g, u, x) - IF u = t /\ x = e THEN n ELSE 0
  BY <1>2, <1>4
<1>8. QED BY <1>4, <1>5, <1>6, <1>7 DEF h

\* What a transfer gives to, or takes from, x
Moved(g, t, from, to, n, u, x) ==
    (IF u = t /\ x = to /\ transfer_possible(g, t, from, n) THEN n ELSE 0)
  - (IF u = t /\ x = from /\ transfer_possible(g, t, from, n) THEN n ELSE 0)

\* A transfer moves n of t, if there are as many, and changes no total.
LEMMA TransferFacts ==
    ASSUME NEW g, Wallets(g), NEW t \in DOMAIN g.bal,
           NEW from \in 1..g.alloc, NEW to \in 1..g.alloc, NEW n \in Nat
    PROVE  LET h == transfer(g, t, from, to, n)
           IN /\ Wallets(h) /\ SameBut(g, h)
              /\ \A u \in DOMAIN g.bal : \A x :
                    balance_check(h, u, x) =
                        balance_check(g, u, x) + Moved(g, t, from, to, n, u, x)
              /\ \A u \in DOMAIN g.bal : h.total[u] = g.total[u]
<1>1. \A u \in DOMAIN g.bal : g.total[u] \in Nat /\ \A x : balance_check(g, u, x) \in Nat
  BY BalanceFacts
<1>2. CASE ~transfer_possible(g, t, from, n)
  <2>1. SameBut(g, g) /\ transfer(g, t, from, to, n) = g
    BY <1>2 DEF SameBut, transfer, Wallets
  <2>2. QED BY <1>1, <1>2, <2>1 DEF Moved
<1>3. CASE transfer_possible(g, t, from, n)
  <2> DEFINE b == burn(g, t, from, n)
             h == mint(b, t, to, n)
  <2>1. /\ Wallets(b) /\ SameBut(g, b)
        /\ \A u \in DOMAIN g.bal : \A x :
              balance_check(b, u, x) =
                  balance_check(g, u, x) - IF u = t /\ x = from THEN n ELSE 0
        /\ \A u \in DOMAIN g.bal : b.total[u] = g.total[u] - IF u = t THEN n ELSE 0
    BY <1>3, BurnFacts
  <2> HIDE DEF b
  <2>2. b.alloc = g.alloc /\ DOMAIN b.bal = DOMAIN g.bal
    BY <2>1 DEF SameBut, Field
  <2>3. /\ Wallets(h) /\ SameBut(b, h)
        /\ \A u \in DOMAIN b.bal : \A x :
              balance_check(h, u, x) =
                  balance_check(b, u, x) + IF u = t /\ x = to THEN n ELSE 0
        /\ \A u \in DOMAIN b.bal : h.total[u] = b.total[u] + IF u = t THEN n ELSE 0
    BY <2>1, <2>2, MintFacts
  <2>4. transfer(g, t, from, to, n) = h
    BY <1>3 DEF transfer, h, b
  <2> HIDE DEF h
  <2>5. SameBut(g, h)
    BY <2>1, <2>3 DEF SameBut
  <2>6. \A u \in DOMAIN g.bal : \A x :
           balance_check(h, u, x) = balance_check(g, u, x) + Moved(g, t, from, to, n, u, x)
    BY <1>1, <1>3, <2>1, <2>2, <2>3 DEF Moved
  <2>7. \A u \in DOMAIN g.bal : h.total[u] = g.total[u]
    BY <1>1, <2>1, <2>2, <2>3
  <2>8. QED BY <2>3, <2>4, <2>5, <2>6, <2>7
<1>4. QED BY <1>2, <1>3

-----------------------------------------------------------------------------
(* The markets *)

\* From g to h the tokens and markets have changed and nothing else; none of
\* them is gone, no market's product is smaller, and of the accounts that are no
\* markets' only those in S may have less.
Product(g, p) == g.markets[p].a * g.markets[p].b
SameRest(g, h) ==
    \A x \in Field \ {"bal", "total", "alloc", "markets"} : h[x] = g[x]
Grows(g, h) ==
    /\ g.alloc <= h.alloc /\ Holder(g) \subseteq Holder(h)
    /\ DOMAIN g.bal \subseteq DOMAIN h.bal /\ DOMAIN g.markets \subseteq DOMAIN h.markets
Gains(g, h) == \A p \in DOMAIN g.markets : Product(g, p) <= Product(h, p)
Takes(g, h, S) ==
    \A u \in DOMAIN g.bal : \A x \in Holder(g) \ S :
        balance_check(g, u, x) <= balance_check(h, u, x)
LedgerStep(g, h, S) ==
    Books(h) /\ SameRest(g, h) /\ Grows(g, h) /\ Gains(g, h) /\ Takes(g, h, S)

\* Balances and reserves are numbers.
LEMMA BooksTypes ==
    ASSUME NEW g, Books(g)
    PROVE  /\ g.alloc \in Nat
           /\ \A u \in DOMAIN g.bal : \A x : balance_check(g, u, x) \in Nat
           /\ \A p \in DOMAIN g.markets :
                 g.markets[p].a \in Nat /\ g.markets[p].b \in Nat /\ Product(g, p) \in Nat
<1>1. g.alloc \in Nat /\ \A u \in DOMAIN g.bal : \A x : balance_check(g, u, x) \in Nat
  BY BalanceFacts DEF Books, Wallets
<1>2. ASSUME NEW p \in DOMAIN g.markets
      PROVE  g.markets[p].a \in Nat /\ g.markets[p].b \in Nat
  <2>1. MarketSound(g, p)
    BY DEF Books, Markets
  <2>2. p[1] \in DOMAIN g.bal /\ p[2] \in DOMAIN g.bal
    BY <2>1 DEF MarketSound
  <2>3. QED BY <1>1, <2>1, <2>2 DEF MarketSound
<1>3. QED BY <1>1, <1>2 DEF Product

\* To do nothing is a step of the ledger.
LEMMA LedgerStepRefl ==
    ASSUME NEW g, Books(g), NEW S
    PROVE  LedgerStep(g, g, S)
BY BooksTypes DEF LedgerStep, SameRest, Grows, Gains, Takes

\* Two steps of the ledger are one, which takes from whom either takes.
LEMMA LedgerStepTrans ==
    ASSUME NEW g, NEW h, NEW k, NEW S, NEW T,
           Books(g), LedgerStep(g, h, S), LedgerStep(h, k, T)
    PROVE  LedgerStep(g, k, S \cup T)
<1>1. Books(h) /\ Books(k)
  BY DEF LedgerStep
<1>2. SameRest(g, k)
  BY DEF LedgerStep, SameRest
<1>3. g.alloc \in Nat /\ h.alloc \in Nat /\ k.alloc \in Nat
  BY <1>1, BooksTypes
<1>4. Grows(g, k)
  BY <1>3 DEF LedgerStep, Grows
<1>5. ASSUME NEW p \in DOMAIN g.markets PROVE Product(g, p) <= Product(k, p)
  <2>1. p \in DOMAIN h.markets /\ p \in DOMAIN k.markets
    BY DEF LedgerStep, Grows
  <2>2. Product(g, p) \in Nat /\ Product(h, p) \in Nat /\ Product(k, p) \in Nat
    BY <1>1, <2>1, BooksTypes
  <2>3. Product(g, p) <= Product(h, p) /\ Product(h, p) <= Product(k, p)
    BY <2>1 DEF LedgerStep, Gains
  <2>4. QED BY <2>2, <2>3
<1>6. ASSUME NEW u \in DOMAIN g.bal, NEW x \in Holder(g) \ (S \cup T)
      PROVE  balance_check(g, u, x) <= balance_check(k, u, x)
  <2>1. u \in DOMAIN h.bal /\ u \in DOMAIN k.bal /\ x \in Holder(h)
    BY DEF LedgerStep, Grows
  <2>2. /\ balance_check(g, u, x) \in Nat /\ balance_check(h, u, x) \in Nat
        /\ balance_check(k, u, x) \in Nat
    BY <1>1, <2>1, BooksTypes
  <2>3. /\ balance_check(g, u, x) <= balance_check(h, u, x)
        /\ balance_check(h, u, x) <= balance_check(k, u, x)
    BY <2>1 DEF LedgerStep, Takes
  <2>4. QED BY <2>2, <2>3
<1>7. QED BY <1>1, <1>2, <1>4, <1>5, <1>6 DEF LedgerStep, Gains, Takes

\* The accounts under SameBut
LEMMA SameButFacts ==
    ASSUME NEW g, NEW h, SameBut(g, h)
    PROVE  /\ h.alloc = g.alloc /\ h.markets = g.markets
           /\ MarketIds(h) = MarketIds(g) /\ Holder(h) = Holder(g)
           /\ DOMAIN h.bal = DOMAIN g.bal /\ SameRest(g, h)
<1>1. h.alloc = g.alloc /\ h.markets = g.markets /\ DOMAIN h.bal = DOMAIN g.bal
  BY DEF SameBut, Field
<1>2. MarketIds(h) = MarketIds(g)
  BY <1>1 DEF MarketIds
<1>3. QED BY <1>1, <1>2 DEF Holder, SameBut, SameRest

\* When the markets' accounts keep what they have, the markets stay sound.
LEMMA MarketsUntouched ==
    ASSUME NEW g, Books(g), NEW h, SameBut(g, h), Wallets(h), NEW S,
           \A u \in DOMAIN g.bal : \A e \in MarketIds(g) :
               balance_check(h, u, e) = balance_check(g, u, e),
           Takes(g, h, S)
    PROVE  LedgerStep(g, h, S)
<1>1. /\ h.alloc = g.alloc /\ h.markets = g.markets /\ Holder(h) = Holder(g)
      /\ DOMAIN h.bal = DOMAIN g.bal /\ SameRest(g, h) /\ g.alloc \in Nat
  BY SameButFacts DEF Books, Wallets
<1>2. ASSUME NEW p \in DOMAIN h.markets PROVE MarketSound(h, p)
  <2>1. MarketSound(g, p) /\ g.markets[p].id \in MarketIds(g)
    BY <1>1, <1>2 DEF Books, Markets, MarketIds
  <2>2. p[1] \in DOMAIN g.bal /\ p[2] \in DOMAIN g.bal
    BY <2>1 DEF MarketSound
  <2>3. /\ balance_check(h, p[1], g.markets[p].id) = balance_check(g, p[1], g.markets[p].id)
        /\ balance_check(h, p[2], g.markets[p].id) = balance_check(g, p[2], g.markets[p].id)
    BY <2>1, <2>2
  <2>4. QED BY <1>1, <2>1, <2>3 DEF MarketSound
<1>3. Markets(h)
  BY <1>1, <1>2 DEF Markets, Books
<1>4. Gains(g, h)
  BY <1>1, BooksTypes DEF Gains, Product
<1>5. QED BY <1>1, <1>3, <1>4 DEF LedgerStep, Grows, Books

\* Minting to, and transfers between, accounts that are no markets'
LEMMA MintStep ==
    ASSUME NEW g, Books(g), NEW t \in DOMAIN g.bal, NEW e \in Holder(g), NEW n \in Nat
    PROVE  LedgerStep(g, mint(g, t, e, n), {})
<1> DEFINE h == mint(g, t, e, n)
<1>1. e \in 1..g.alloc /\ e \notin MarketIds(g) /\ Wallets(g)
  BY DEF Holder, Books
<1>2. /\ Wallets(h) /\ SameBut(g, h)
      /\ \A u \in DOMAIN g.bal : \A x :
            balance_check(h, u, x) = balance_check(g, u, x) + IF u = t /\ x = e THEN n ELSE 0
  BY <1>1, MintFacts
<1>3. \A u \in DOMAIN g.bal : \A x : balance_check(g, u, x) \in Nat
  BY <1>1, BalanceFacts
<1> HIDE DEF h
<1>4. \A u \in DOMAIN g.bal : \A x \in MarketIds(g) :
         balance_check(h, u, x) = balance_check(g, u, x)
  BY <1>1, <1>2, <1>3
<1>5. Takes(g, h, {})
  BY <1>2, <1>3 DEF Takes
<1>6. QED BY <1>2, <1>4, <1>5, MarketsUntouched DEF h

\* transfer takes from the sender alone, unless it is a market.
LEMMA TransferStep ==
    ASSUME NEW g, Books(g), NEW t \in DOMAIN g.bal,
           NEW from \in Holder(g), NEW to \in Holder(g), NEW n \in Nat
    PROVE  LedgerStep(g, transfer(g, t, from, to, n), {from})
<1> DEFINE h == transfer(g, t, from, to, n)
<1>1. /\ from \in 1..g.alloc /\ from \notin MarketIds(g)
      /\ to \in 1..g.alloc /\ to \notin MarketIds(g) /\ Wallets(g)
  BY DEF Holder, Books
<1>2. /\ Wallets(h) /\ SameBut(g, h)
      /\ \A u \in DOMAIN g.bal : \A x :
            balance_check(h, u, x) = balance_check(g, u, x) + Moved(g, t, from, to, n, u, x)
  BY <1>1, TransferFacts
<1>3. \A u \in DOMAIN g.bal : \A x : balance_check(g, u, x) \in Nat
  BY <1>1, BalanceFacts
<1> HIDE DEF h
<1>4. \A u \in DOMAIN g.bal : \A x \in MarketIds(g) : Moved(g, t, from, to, n, u, x) = 0
  BY <1>1 DEF Moved
<1>5. \A u \in DOMAIN g.bal : \A x \in MarketIds(g) :
         balance_check(h, u, x) = balance_check(g, u, x)
  BY <1>2, <1>3, <1>4
<1>6. Takes(g, h, {from})
  BY <1>2, <1>3 DEF Takes, Moved
<1>7. QED BY <1>2, <1>5, <1>6, MarketsUntouched DEF h

\* The spelling of a pair does not matter.
LEMMA Normalized ==
    ASSUME NEW g, Books(g), NEW pair \in (DOMAIN g.bal) \X (DOMAIN g.bal)
    PROVE  /\ normalize(pair) \in (DOMAIN g.bal) \X (DOMAIN g.bal)
           /\ normalize(pair)[1] <= normalize(pair)[2]
           /\ {normalize(pair)[1], normalize(pair)[2]} = {pair[1], pair[2]}
<1>1. DOMAIN g.bal \subseteq Nat
  BY DEF Books, Wallets
<1>2. QED BY <1>1 DEF normalize

\* A new market is empty; the tokens there were keep their balances and totals.
LEMMA EnsureStep ==
    ASSUME NEW g, Books(g), NEW pair \in (DOMAIN g.bal) \X (DOMAIN g.bal)
    PROVE  LET h == ensure(g, pair)
           IN /\ LedgerStep(g, h, {}) /\ normalize(pair) \in DOMAIN h.markets
              /\ \A u \in DOMAIN g.bal : h.total[u] = g.total[u]
              /\ \A u \in DOMAIN g.bal : \A x : balance_check(h, u, x) = balance_check(g, u, x)
              /\ \A q \in DOMAIN g.markets : h.markets[q] = g.markets[q]
<1>1. CASE has_market(g, pair)
  <2>1. ensure(g, pair) = g
    BY <1>1 DEF ensure
  <2>2. QED BY <1>1, <2>1, LedgerStepRefl DEF has_market
<1>2. CASE ~has_market(g, pair)
  <2> DEFINE lp == g.alloc + 1
             mkt == [id |-> g.alloc + 2, lp |-> lp, a |-> 0, b |-> 0]
             np == normalize(pair)
             n == [g EXCEPT !.bal = Put(g.bal, lp, <<>>), !.total = Put(g.total, lp, 0)]
             h == [n EXCEPT !.alloc = g.alloc + 2, !.markets = Put(g.markets, np, mkt)]
  <2>1. DOMAIN g = Field /\ DOMAIN g.total = DOMAIN g.bal /\ g.alloc \in Nat
        /\ DOMAIN g.bal \subseteq 1..g.alloc
    BY DEF Books, Wallets
  <2>2. /\ DOMAIN n = Field /\ n.bal = Put(g.bal, lp, <<>>) /\ n.total = Put(g.total, lp, 0)
        /\ \A x \in Field \ {"bal", "total"} : n[x] = g[x]
    BY <2>1 DEF Field
  <2>3. n = new_token(g, lp)
    BY DEF new_token
  <2> HIDE DEF n
  <2>4. n.alloc = g.alloc /\ n.markets = g.markets
    BY <2>2 DEF Field
  <2>5. ensure(g, pair) = h
    BY <1>2, <2>3, <2>4 DEF ensure
  <2>6. /\ DOMAIN h = Field /\ h.bal = n.bal /\ h.total = n.total
        /\ h.alloc = g.alloc + 2 /\ h.markets = Put(g.markets, np, mkt)
        /\ \A x \in Field \ {"alloc", "markets"} : h[x] = n[x]
    BY <2>2 DEF Field
  <2> HIDE DEF h
  <2>7. SameRest(g, h)
    BY <2>2, <2>6 DEF SameRest
  <2>8. lp \notin DOMAIN g.bal /\ lp \in 1..h.alloc /\ h.alloc \in Nat
    BY <2>1, <2>6
  <2>9. /\ DOMAIN h.bal = DOMAIN g.bal \cup {lp} /\ DOMAIN h.total = DOMAIN g.bal \cup {lp}
        /\ h.bal[lp] = <<>> /\ h.total[lp] = 0
        /\ \A u \in DOMAIN g.bal : h.bal[u] = g.bal[u] /\ h.total[u] = g.total[u]
    BY <2>1, <2>2, <2>6, <2>8 DEF Put
  <2> HIDE DEF lp
  <2>10. Wallets(h)
    <3>1. ASSUME NEW u \in DOMAIN h.bal
          PROVE  /\ DOMAIN h.bal[u] \subseteq 1..h.alloc
                 /\ \A x \in DOMAIN h.bal[u] : h.bal[u][x] \in Nat
                 /\ h.total[u] = Sum(h.bal[u], DOMAIN h.bal[u])
      <4>1. CASE u = lp
        <5>1. h.bal[u] = <<>> /\ DOMAIN h.bal[u] = {} /\ h.total[u] = 0
          BY <2>9, <4>1
        <5>2. Sum(h.bal[u], {}) = 0
          BY SumEmpty
        <5>3. QED BY <5>1, <5>2
      <4>2. CASE u \in DOMAIN g.bal
        <5>1. 1..g.alloc \subseteq 1..h.alloc
          BY <2>1, <2>6
        <5>2. QED BY <2>9, <4>2, <5>1 DEF Books, Wallets
      <4>3. QED BY <2>9, <3>1, <4>1, <4>2
    <3>2. BaseToken \subseteq DOMAIN h.bal /\ DOMAIN h.bal \subseteq 1..h.alloc
      BY <2>1, <2>6, <2>8, <2>9 DEF Books, Wallets
    <3>3. QED BY <2>6, <2>8, <2>9, <3>1, <3>2 DEF Wallets
  <2>11. \A u \in DOMAIN g.bal : \A x : balance_check(h, u, x) = balance_check(g, u, x)
    BY <2>9 DEF balance_check
  <2>12. /\ np \in (DOMAIN g.bal) \X (DOMAIN g.bal) /\ np[1] <= np[2]
    BY Normalized
  <2>13. np \notin DOMAIN g.markets
    BY <1>2 DEF has_market
  <2>14. /\ DOMAIN h.markets = DOMAIN g.markets \cup {np} /\ h.markets[np] = mkt
         /\ \A q \in DOMAIN g.markets : h.markets[q] = g.markets[q]
    BY <2>6, <2>13 DEF Put
  <2>15. /\ DOMAIN mkt = {"id", "lp", "a", "b"} /\ mkt.id = g.alloc + 2 /\ mkt.lp = lp
         /\ mkt.a = 0 /\ mkt.b = 0
    OBVIOUS
  <2> HIDE DEF mkt, np
  <2>16. ASSUME NEW q \in DOMAIN h.markets PROVE MarketSound(h, q)
    <3>1. CASE q = np
      <4>1. g.alloc + 2 \notin 1..g.alloc /\ g.alloc + 2 \in 1..h.alloc
        BY <2>1, <2>6
      <4>2. Wallets(g)
        BY DEF Books
      <4>3. \A u \in DOMAIN g.bal : balance_check(h, u, g.alloc + 2) = 0
        BY <2>11, <4>1, <4>2, BalanceFacts
      <4>4. np[1] \in DOMAIN g.bal /\ np[2] \in DOMAIN g.bal
        BY <2>12
      <4>5. np \in (DOMAIN h.bal) \X (DOMAIN h.bal) /\ lp \in DOMAIN h.bal
        BY <2>12, <2>9
      <4>6. QED BY <2>12, <2>14, <2>15, <3>1, <4>1, <4>3, <4>4, <4>5 DEF MarketSound
    <3>2. CASE q \in DOMAIN g.markets
      <4>1. MarketSound(g, q) /\ h.markets[q] = g.markets[q]
        BY <2>14, <3>2 DEF Books, Markets
      <4>2. q[1] \in DOMAIN g.bal /\ q[2] \in DOMAIN g.bal
            /\ q \in (DOMAIN h.bal) \X (DOMAIN h.bal)
        BY <2>9, <4>1 DEF MarketSound
      <4>3. 1..g.alloc \subseteq 1..h.alloc /\ DOMAIN g.bal \subseteq DOMAIN h.bal
        BY <2>1, <2>6, <2>9
      <4>4. QED BY <2>11, <4>1, <4>2, <4>3 DEF MarketSound
    <3>3. QED BY <2>14, <2>16, <3>1, <3>2
  <2>17. \A q \in DOMAIN g.markets : g.markets[q].id \in 1..g.alloc
    BY DEF Books, Markets, MarketSound
  <2>18. \A q, r \in DOMAIN h.markets : h.markets[q].id = h.markets[r].id => q = r
    BY <2>1, <2>14, <2>15, <2>17 DEF Books, Markets
  <2>19. MarketIds(h) = MarketIds(g) \cup {g.alloc + 2}
    BY <2>14, <2>15 DEF MarketIds
  <2>20. Holder(g) \subseteq Holder(h) /\ g.alloc <= h.alloc
    BY <2>1, <2>6, <2>19 DEF Holder
  <2>21. Gains(g, h) /\ Takes(g, h, {})
    BY <2>11, <2>14, BooksTypes DEF Gains, Product, Takes
  <2>22. LedgerStep(g, h, {})
    BY <2>7, <2>9, <2>10, <2>14, <2>16, <2>18, <2>20, <2>21
       DEF LedgerStep, Books, Markets, Grows
  <2>23. QED BY <2>5, <2>9, <2>11, <2>14, <2>22 DEF np
<1>3. QED BY <1>1, <1>2

-----------------------------------------------------------------------------
(* The amounts of a trade *)

\* A product grows with its factors.
LEMMA Multiply ==
    ASSUME NEW x \in Nat, NEW y \in Nat, NEW z \in Nat, x <= y
    PROVE  z * x \in Nat /\ z * y \in Nat /\ z * x <= z * y
<1>1. PICK d \in Nat : y = x + d
  <2>1. y - x \in Nat /\ y = x + (y - x)
    OBVIOUS
  <2>2. QED BY <2>1
<1>2. z * y = z * x + z * d /\ z * x \in Nat /\ z * d \in Nat
  BY <1>1
<1>3. QED BY <1>2

\* A common factor of two products cancels.
LEMMA Divide ==
    ASSUME NEW x \in Nat, NEW y \in Nat \ {0}
    PROVE  x \div y \in Nat /\ y * (x \div y) <= x /\ x < y * (x \div y) + y
OBVIOUS

\* A quotient rounded up is the least number whose multiple is enough.
LEMMA RoundedUp ==
    ASSUME NEW x \in Nat, NEW y \in Nat \ {0}
    PROVE  /\ roundup_div(x, y) \in Nat
           /\ x <= y * roundup_div(x, y)
           /\ \A q \in Nat : x <= y * q => roundup_div(x, y) <= q
           /\ \A q \in Nat : y * q <= x => q <= roundup_div(x, y)
<1> DEFINE d == roundup_div(x, y)
<1>1. d \in Nat /\ y * d <= x + y - 1 /\ x + y - 1 < y * d + y
  <2>1. x + y - 1 \in Nat
    OBVIOUS
  <2>2. QED BY <2>1, Divide DEF roundup_div
<1> HIDE DEF d
<1>2. y * d \in Nat
  BY <1>1
<1>3. x <= y * d
  BY <1>1, <1>2
<1>4. ASSUME NEW q \in Nat, x <= y * q PROVE d <= q
  <2>1. SUFFICES ASSUME q + 1 <= d PROVE FALSE
    BY <1>1
  <2>2. y * (q + 1) <= y * d
    BY <1>1, <2>1, Multiply
  <2>3. y * (q + 1) = y * q + y /\ y * q \in Nat
    OBVIOUS
  <2>4. QED BY <1>1, <1>2, <1>4, <2>2, <2>3
<1>5. ASSUME NEW q \in Nat, y * q <= x PROVE q <= d
  <2>1. SUFFICES ASSUME d + 1 <= q PROVE FALSE
    BY <1>1
  <2>2. y * (d + 1) <= y * q
    BY <1>1, <2>1, Multiply
  <2>3. y * (d + 1) = y * d + y /\ y * q \in Nat
    BY <1>1
  <2>4. QED BY <1>1, <1>2, <1>5, <2>2, <2>3
<1>6. QED BY <1>1, <1>3, <1>4, <1>5 DEF d

\* What a sale of n buys leaves the product, and what it costs is at most n.
LEMMA SellAmounts ==
    ASSUME NEW qs \in Nat, NEW qb \in Nat, NEW n \in Nat, qs + n # 0
    PROVE  LET bought == AmountBought(qs, qb, n)
               sold == AmountSold(qs, qb, bought)
           IN /\ bought \in 0..qb
              /\ bought # qb => /\ sold \in 0..n
                                /\ qs * qb <= (qs + sold) * (qb - bought)
<1> DEFINE r == roundup_div(qs * qb, qs + n)
           bought == qb - r
           s == roundup_div(qs * qb, r)
<1>1. qs * qb \in Nat /\ qs + n \in Nat \ {0} /\ qb * qs = qs * qb
      /\ (qs + n) * qb = qs * qb + n * qb /\ n * qb \in Nat
  OBVIOUS
<1>2. r \in Nat /\ qs * qb <= (qs + n) * r /\ r <= qb
  <2> DEFINE x == qs * qb
             y == qs + n
  <2>1. x \in Nat /\ y \in Nat \ {0} /\ x <= y * qb
    BY <1>1
  <2> HIDE DEF x, y
  <2>2. roundup_div(x, y) \in Nat /\ x <= y * roundup_div(x, y) /\ roundup_div(x, y) <= qb
    BY <2>1, RoundedUp
  <2>3. QED BY <2>2 DEF x, y
<1>3. bought \in 0..qb /\ qb - bought = r /\ AmountBought(qs, qb, n) = bought
  BY <1>2 DEF AmountBought
<1>4. ASSUME bought # qb PROVE s - qs \in 0..n /\ qs * qb <= (qs + (s - qs)) * r
  <2>1. r \in Nat \ {0} /\ (qs + n) * r = r * (qs + n) /\ r * qs <= qs * qb
    <3>1. qs * r <= qs * qb
      BY <1>2, Multiply
    <3>2. qs * r = r * qs /\ (qs + n) * r = r * (qs + n)
      BY <1>2
    <3> HIDE DEF r
    <3>3. QED BY <1>2, <1>4, <3>1, <3>2
  <2> HIDE DEF r
  <2>2. s \in Nat /\ qs * qb <= r * s /\ s <= qs + n /\ qs <= s
    BY <1>1, <1>2, <2>1, RoundedUp
  <2> HIDE DEF s
  <2>3. qs + (s - qs) = s /\ s * r = r * s
    BY <2>1, <2>2
  <2>4. QED BY <2>2, <2>3
<1> HIDE DEF r
<1>5. AmountSold(qs, qb, bought) = s - qs
  BY <1>3 DEF AmountSold, s
<1> HIDE DEF bought, s
<1>6. QED BY <1>3, <1>4, <1>5

\* What has to be sold for n buys n at least, and leaves the product.
LEMMA BuyAmounts ==
    ASSUME NEW qs \in Nat, NEW qb \in Nat, NEW n \in Nat, n < qb
    PROVE  LET sold == AmountSold(qs, qb, n)
               bought == AmountBought(qs, qb, sold)
           IN /\ sold \in Nat
              /\ qs + sold # 0 => /\ bought \in n..qb
                                  /\ qs * qb <= (qs + sold) * (qb - bought)
<1> DEFINE m == qb - n
           s == roundup_div(qs * qb, m)
           r == roundup_div(qs * qb, s)
<1>1. qs * qb \in Nat /\ m \in Nat \ {0} /\ m <= qb
  OBVIOUS
<1>2. m * qs <= qs * qb
  <2>1. qs * m <= qs * qb /\ qs * m = m * qs
    BY <1>1, Multiply
  <2>2. QED BY <2>1
<1> HIDE DEF m
<1>3. s \in Nat /\ qs <= s /\ qs * qb <= m * s
  BY <1>1, <1>2, RoundedUp
<1>4. AmountSold(qs, qb, n) = s - qs
  BY DEF AmountSold, s, m
<1> HIDE DEF s
<1>5. s - qs \in Nat /\ qs + (s - qs) = s
  BY <1>3
<1>6. ASSUME s # 0 PROVE qb - r \in n..qb /\ qs * qb <= s * (qb - (qb - r))
  <2>1. r \in Nat /\ qs * qb <= s * r /\ r <= m
    <3>1. m * s = s * m
      BY <1>1, <1>3
    <3>2. QED BY <1>1, <1>3, <1>6, <3>1, RoundedUp
  <2> HIDE DEF r
  <2>2. qb - (qb - r) = r
    BY <2>1
  <2>3. qb - r \in n..qb
    BY <1>1, <2>1 DEF m
  <2>4. QED BY <2>1, <2>2, <2>3
<1>7. AmountBought(qs, qb, s - qs) = qb - r
  BY <1>5 DEF AmountBought, r
<1> HIDE DEF r
<1>8. QED BY <1>4, <1>5, <1>6, <1>7

-----------------------------------------------------------------------------
(* Trades *)

\* What the two legs of a trade give to x, less what they take
Traded(u, x, selling, buying, sold, bought, sender, id) ==
    LET gain == (IF u = buying THEN bought ELSE 0) - (IF u = selling THEN sold ELSE 0)
    IN IF x = sender THEN gain ELSE IF x = id THEN -gain ELSE 0

\* Only the accounts a and b differ.
OnlyBetween(g, h, a, b) ==
    \A u \in DOMAIN g.bal : \A x \in 1..g.alloc :
        x # a /\ x # b => balance_check(h, u, x) = balance_check(g, u, x)

\* The market's record of its reserves has been brought up to date, in h.
Reserved(g, paid, sender, h) ==
    /\ LedgerStep(g, h, {sender})
    /\ h.alloc = g.alloc /\ DOMAIN h.bal = DOMAIN g.bal
    /\ DOMAIN h.markets = DOMAIN g.markets
    /\ \A q \in DOMAIN g.markets :
          h.markets[q].id = g.markets[q].id /\ h.markets[q].lp = g.markets[q].lp
    /\ h.bal = paid.bal /\ h.total = paid.total

\* Reserve: a swap that is accepted records what the market then holds, and the
\* product of its reserves has not fallen.
LEMMA ReserveIsSound ==
    ASSUME NEW g, Books(g), NEW p \in DOMAIN g.markets, NEW paid, SameBut(g, paid),
           Wallets(paid), NEW sender \in Holder(g),
           OnlyBetween(g, paid, sender, g.markets[p].id),
           Reserve(g, paid, p).out # "invalid"
    PROVE  /\ Reserve(g, paid, p).out = "ok"
           /\ Reserved(g, paid, sender, Reserve(g, paid, p).game)
<1> DEFINE o == Reserve(g, paid, p)
           id == g.markets[p].id
           a == balance_check(paid, p[1], id)
           b == balance_check(paid, p[2], id)
           mkt == [g.markets[p] EXCEPT !.a = a, !.b = b]
           h == [paid EXCEPT !.markets = [g.markets EXCEPT ![p] = mkt]]
<1>1. /\ paid.alloc = g.alloc /\ paid.markets = g.markets /\ DOMAIN paid.bal = DOMAIN g.bal
      /\ SameRest(g, paid) /\ DOMAIN paid = Field
  BY SameButFacts DEF SameBut
<1>2. MarketSound(g, p)
  BY DEF Books, Markets
<1>3. normalize(p) = p /\ p[1] \in DOMAIN g.bal /\ p[2] \in DOMAIN g.bal
  BY <1>2 DEF MarketSound, normalize
<1>4. Holding(paid, p, p[1]) = a /\ Holding(paid, p, p[2]) = b
  BY <1>1, <1>3 DEF Holding
<1>5. DOMAIN g.markets[p] = {"id", "lp", "a", "b"}
  BY <1>2 DEF MarketSound
<1>6. /\ DOMAIN mkt = {"id", "lp", "a", "b"} /\ mkt.id = id /\ mkt.lp = g.markets[p].lp
      /\ mkt.a = a /\ mkt.b = b
  BY <1>5
<1> HIDE DEF o
<1>7. /\ o.out = "ok" /\ ~(a * b < g.markets[p].a * g.markets[p].b)
      /\ o.game = [paid EXCEPT !.markets[p].a = a, !.markets[p].b = b]
  <2> HIDE DEF a, b
  <2>1. QED BY <1>4 DEF Reserve, o
<1>8. o.game = h
  <2>1. [paid EXCEPT !.markets[p].a = a, !.markets[p].b = b] = h
    <3> HIDE DEF a, b
    <3>1. QED BY <1>1, <1>5
  <2>2. QED BY <1>7, <2>1
<1> HIDE DEF mkt
<1>9. /\ DOMAIN h = Field /\ h.markets = [g.markets EXCEPT ![p] = mkt]
      /\ \A x \in Field \ {"markets"} : h[x] = paid[x]
  BY <1>1 DEF Field
<1> HIDE DEF h
<1>10. /\ h.alloc = g.alloc /\ h.bal = paid.bal /\ h.total = paid.total
       /\ DOMAIN h.markets = DOMAIN g.markets /\ h.markets[p] = mkt
       /\ \A q \in DOMAIN g.markets : q # p => h.markets[q] = g.markets[q]
  BY <1>1, <1>9 DEF Field
<1>11. Wallets(h)
  BY <1>1, <1>9, <1>10 DEF Wallets
<1>12. \A u, x : balance_check(h, u, x) = balance_check(paid, u, x)
  BY <1>10 DEF balance_check
<1>13. SameRest(g, h)
  BY <1>1, <1>9 DEF SameRest
<1>14. \A q \in DOMAIN g.markets : h.markets[q].id = g.markets[q].id
                                   /\ h.markets[q].lp = g.markets[q].lp
  BY <1>6, <1>10
<1>15. MarketIds(h) = MarketIds(g) /\ Holder(h) = Holder(g)
  <2>1. MarketIds(h) = MarketIds(g)
    BY <1>10, <1>14 DEF MarketIds
  <2>2. QED BY <2>1, <1>10 DEF Holder
<1>16. ASSUME NEW q \in DOMAIN h.markets PROVE MarketSound(h, q)
  <2>1. CASE q = p
    BY <2>1, <1>1, <1>2, <1>6, <1>10, <1>12 DEF MarketSound
  <2>2. CASE q # p
    <3>1. MarketSound(g, q) /\ q \in DOMAIN g.markets /\ h.markets[q] = g.markets[q]
      BY <1>10, <1>16, <2>2 DEF Books, Markets
    <3>2. g.markets[q].id # id /\ g.markets[q].id # sender /\ g.markets[q].id \in 1..g.alloc
      BY <2>2, <3>1 DEF Books, Markets, MarketSound, Holder, MarketIds
    <3>3. q[1] \in DOMAIN g.bal /\ q[2] \in DOMAIN g.bal
      BY <3>1 DEF MarketSound
    <3>4. /\ balance_check(h, q[1], g.markets[q].id) = balance_check(g, q[1], g.markets[q].id)
          /\ balance_check(h, q[2], g.markets[q].id) = balance_check(g, q[2], g.markets[q].id)
      BY <1>12, <3>2, <3>3 DEF OnlyBetween, id
    <3>5. QED BY <1>1, <1>10, <3>1, <3>4 DEF MarketSound
  <2>3. QED BY <2>1, <2>2
<1>17. Books(h)
  BY <1>10, <1>11, <1>14, <1>16 DEF Books, Markets
<1>18. Gains(g, h)
  <2>1. ASSUME NEW q \in DOMAIN g.markets PROVE Product(g, q) <= Product(h, q)
    <3>1. Product(g, q) \in Nat /\ Product(h, q) \in Nat
      BY <1>10, <1>17, BooksTypes
    <3>2. CASE q = p
      <4>1. Product(h, q) = a * b /\ Product(g, q) = g.markets[p].a * g.markets[p].b
        BY <1>6, <1>10, <3>2 DEF Product
      <4>2. QED BY <1>7, <3>1, <4>1
    <3>3. CASE q # p
      BY <1>10, <3>1, <3>3 DEF Product
    <3>4. QED BY <3>2, <3>3
  <2>2. QED BY <2>1 DEF Gains
<1>19. Takes(g, h, {sender})
  <2>1. ASSUME NEW u \in DOMAIN g.bal, NEW x \in Holder(g) \ {sender}
        PROVE  balance_check(g, u, x) <= balance_check(h, u, x)
    <3>1. x # sender /\ x # id /\ x \in 1..g.alloc
      BY DEF Holder, MarketIds
    <3>2. QED BY <1>12, <3>1, BooksTypes DEF OnlyBetween, id
  <2>2. QED BY <2>1 DEF Takes
<1>20. LedgerStep(g, h, {sender})
  <2>1. Grows(g, h)
    BY <1>1, <1>10, <1>15, BooksTypes DEF Grows
  <2>2. QED BY <1>13, <1>17, <1>18, <1>19, <2>1 DEF LedgerStep
<1> HIDE DEF a, b, id
<1>21. DOMAIN h.bal = DOMAIN g.bal /\ o.out = "ok"
  BY <1>1, <1>7, <1>10
<1>22. Reserved(g, paid, sender, o.game)
  BY ONLY <1>8, <1>10, <1>14, <1>20, <1>21 DEF Reserved
<1>23. QED BY <1>21, <1>22 DEF o

\* What a trade does: Trade says so of the outcome o, of the market of p.
TradeDone(g, p, selling, buying, sender, o) ==
    /\ LedgerStep(g, o.game, {sender})
    /\ o.game.alloc = g.alloc /\ DOMAIN o.game.bal = DOMAIN g.bal
    /\ DOMAIN o.game.markets = DOMAIN g.markets
    /\ \A q \in DOMAIN g.markets :
          o.game.markets[q].id = g.markets[q].id /\ o.game.markets[q].lp = g.markets[q].lp
    /\ \A u \in DOMAIN g.bal : o.game.total[u] = g.total[u]
    /\ o.sold \in Nat /\ o.bought \in Nat
    /\ o.out # "ok" => /\ o.sold = 0 /\ o.bought = 0
                       /\ \A u \in DOMAIN g.bal : \A x :
                             balance_check(o.game, u, x) = balance_check(g, u, x)
    /\ o.out = "ok" => \A u \in DOMAIN g.bal : \A x :
          balance_check(o.game, u, x) = balance_check(g, u, x)
              + Traded(u, x, selling, buying, o.sold, o.bought, sender, g.markets[p].id)

\* A refusal that leaves the game as it is
LEMMA RefusedIsDone ==
    ASSUME NEW g, Books(g), NEW p, NEW selling, NEW buying, NEW sender, NEW out,
           out # "ok"
    PROVE  TradeDone(g, p, selling, buying, sender, Refused(g, out))
<1> DEFINE o == Refused(g, out)
<1>1. o.game = g /\ o.out = out /\ o.sold = 0 /\ o.bought = 0
  BY DEF Refused, Outcome
<1> HIDE DEF o
<1>2. LedgerStep(g, o.game, {sender})
  BY <1>1, LedgerStepRefl
<1>3. TradeDone(g, p, selling, buying, sender, o)
  BY <1>1, <1>2 DEF TradeDone
<1>4. QED BY <1>3 DEF o

\* What comes of two legs: a sale of sold for bought, or none.  They are done
\* if the sender has what it sells, the market what it gives, and the product is
\* kept.
Settled(g, p, selling, buying, sold, bought, sender, o) ==
    /\ TradeDone(g, p, selling, buying, sender, o)
    /\ o.out \in {"ok", "insufficient", "invalid"}
    /\ o.out = "ok" => o.sold = sold /\ o.bought = bought
    /\ LET qs == balance_check(g, selling, g.markets[p].id)
           qb == balance_check(g, buying, g.markets[p].id)
       IN /\ selling # buying /\ sold <= balance_check(g, selling, sender)
          /\ bought <= qb /\ qs * qb <= (qs + sold) * (qb - bought)
          => o.out = "ok"

\* Settle: both legs, or none.
LEMMA SettleFacts ==
    ASSUME NEW g, Books(g), NEW p \in DOMAIN g.markets,
           NEW selling \in {p[1], p[2]}, NEW buying \in {p[1], p[2]},
           NEW sold \in Nat, NEW bought \in Nat, NEW sender \in Holder(g)
    PROVE  Settled(g, p, selling, buying, sold, bought, sender,
                   Settle(g, p, selling, buying, sold, bought, FALSE, sender))
<1>0. PICK o : o = Settle(g, p, selling, buying, sold, bought, FALSE, sender)
  OBVIOUS
<1> DEFINE id == g.markets[p].id
           g1 == transfer(g, selling, sender, id, sold)
           swap == raw_swap(g1, p, buying, bought, sender)
<1>1. MarketSound(g, p) /\ Wallets(g)
  BY DEF Books, Markets
<1>2. /\ normalize(p) = p /\ p[1] \in DOMAIN g.bal /\ p[2] \in DOMAIN g.bal
      /\ selling \in DOMAIN g.bal /\ buying \in DOMAIN g.bal /\ id \in 1..g.alloc
  BY <1>1 DEF MarketSound, normalize
<1>3. sender \in 1..g.alloc /\ sender # id /\ id \in MarketIds(g) /\ sender \notin MarketIds(g)
  BY DEF Holder, MarketIds
<1>4. \A u \in DOMAIN g.bal : \A x : balance_check(g, u, x) \in Nat
  BY BooksTypes
<1> DEFINE Goal ==
       /\ TradeDone(g, p, selling, buying, sender, o)
       /\ o.out \in {"ok", "insufficient", "invalid"}
       /\ o.out = "ok" => o.sold = sold /\ o.bought = bought
       /\ LET qs == balance_check(g, selling, g.markets[p].id)
              qb == balance_check(g, buying, g.markets[p].id)
          IN /\ selling # buying /\ sold <= balance_check(g, selling, sender)
             /\ bought <= qb /\ qs * qb <= (qs + sold) * (qb - bought)
             => o.out = "ok"
<1> SUFFICES Goal
  BY <1>0 DEF Settled
<1>5. CASE sold > balance_check(g, selling, sender)
  <2>1. o = Refused(g, "insufficient")
    BY <1>0, <1>5 DEF Settle
  <2>2. TradeDone(g, p, selling, buying, sender, o)
    BY <2>1, RefusedIsDone
  <2>3. o.out = "insufficient"
    BY ONLY <2>1 DEF Refused, Outcome
  <2>4. ~(sold <= balance_check(g, selling, sender))
    BY <1>2, <1>4, <1>5
  <2>5. QED BY <2>2, <2>3, <2>4
<1>6. CASE ~(sold > balance_check(g, selling, sender))
  <2>1. transfer_possible(g, selling, sender, sold)
    BY <1>2, <1>4, <1>6 DEF transfer_possible
  <2>2. /\ Wallets(g1) /\ SameBut(g, g1)
        /\ \A u \in DOMAIN g.bal : \A x :
              balance_check(g1, u, x) =
                  balance_check(g, u, x) + Moved(g, selling, sender, id, sold, u, x)
        /\ \A u \in DOMAIN g.bal : g1.total[u] = g.total[u]
    BY <1>1, <1>2, <1>3, TransferFacts
  <2>3. o = Refund(swap, p, selling, sold, bought, sender)
    BY <1>0, <1>6 DEF Settle
  <2> HIDE DEF g1, id
  <2>4. /\ g1.alloc = g.alloc /\ g1.markets = g.markets /\ DOMAIN g1.bal = DOMAIN g.bal
    BY <2>2, SameButFacts
  <2>5. \A u \in DOMAIN g.bal : \A x :
           balance_check(g1, u, x) = balance_check(g, u, x)
               + (IF u = selling /\ x = id THEN sold ELSE 0)
               - (IF u = selling /\ x = sender THEN sold ELSE 0)
    BY <2>1, <2>2, <1>4 DEF Moved
  <2>6. \A u \in DOMAIN g.bal : \A x : balance_check(g1, u, x) \in Nat
    BY <2>2, <2>4, BalanceFacts
  <2>7. g1.markets[p].id = id
    BY <2>4 DEF id
  <2> DEFINE paid == IF bought = 0 THEN g1 ELSE transfer(g1, buying, id, sender, bought)
  <2>8. swap = IF ~transfer_possible(g1, buying, id, bought)
               THEN [out |-> "insufficient", game |-> g1] ELSE Reserve(g1, paid, p)
    BY <2>7 DEF raw_swap
  <2> HIDE DEF swap
  <2>9. ASSUME transfer_possible(g1, buying, id, bought)
        PROVE  /\ Wallets(paid) /\ SameBut(g, paid)
               /\ \A u \in DOMAIN g.bal : \A x :
                     balance_check(paid, u, x) = balance_check(g1, u, x)
                         + (IF u = buying /\ x = sender THEN bought ELSE 0)
                         - (IF u = buying /\ x = id THEN bought ELSE 0)
               /\ \A u \in DOMAIN g.bal : paid.total[u] = g.total[u]
    <3>1. CASE bought = 0
      BY <3>1, <2>2, <2>6
    <3>2. CASE bought # 0
      <4>1. paid = transfer(g1, buying, id, sender, bought)
        BY <3>2
      <4> HIDE DEF paid
      <4>2. /\ Wallets(paid) /\ SameBut(g1, paid)
            /\ \A u \in DOMAIN g1.bal : \A x :
                  balance_check(paid, u, x) =
                      balance_check(g1, u, x) + Moved(g1, buying, id, sender, bought, u, x)
            /\ \A u \in DOMAIN g1.bal : paid.total[u] = g1.total[u]
        <5>1. buying \in DOMAIN g1.bal /\ id \in 1..g1.alloc /\ sender \in 1..g1.alloc
          BY <1>2, <1>3, <2>4 DEF id
        <5>2. QED BY <2>2, <4>1, <5>1, TransferFacts
      <4>3. SameBut(g, paid)
        BY <2>2, <4>2 DEF SameBut
      <4>4. \A u \in DOMAIN g.bal : \A x :
              balance_check(paid, u, x) = balance_check(g1, u, x)
                  + (IF u = buying /\ x = sender THEN bought ELSE 0)
                  - (IF u = buying /\ x = id THEN bought ELSE 0)
        BY <2>4, <2>6, <2>9, <4>2 DEF Moved
      <4>5. QED BY <2>2, <2>4, <4>2, <4>3, <4>4
    <3>3. QED BY <3>1, <3>2
  <2> HIDE DEF paid
  <2>10. CASE swap.out = "ok"
    <3>1. /\ transfer_possible(g1, buying, id, bought)
          /\ swap = Reserve(g1, paid, p)
      BY <2>8, <2>10
    <3>2. swap = Reserve(g, paid, p)
      <4>1. normalize(p) = p
        BY <1>2
      <4>2. Reserve(g1, paid, p).out = "ok"
        BY <2>10, <3>1
      <4>3. QED BY <2>4, <3>1, <4>2 DEF Reserve
    <3>3. OnlyBetween(g, paid, sender, g.markets[p].id)
      BY <1>4, <2>5, <2>6, <2>9, <3>1 DEF OnlyBetween, id
    <3>4. /\ LedgerStep(g, swap.game, {sender})
          /\ swap.game.alloc = g.alloc /\ DOMAIN swap.game.bal = DOMAIN g.bal
          /\ DOMAIN swap.game.markets = DOMAIN g.markets
          /\ \A q \in DOMAIN g.markets :
                /\ swap.game.markets[q].id = g.markets[q].id
                /\ swap.game.markets[q].lp = g.markets[q].lp
          /\ swap.game.bal = paid.bal /\ swap.game.total = paid.total
      <4>1. Wallets(paid) /\ SameBut(g, paid) /\ Reserve(g, paid, p).out # "invalid"
        BY <2>9, <2>10, <3>1, <3>2
      <4>2. Books(g) /\ p \in DOMAIN g.markets /\ sender \in Holder(g)
        OBVIOUS
      <4>3. Reserved(g, paid, sender, Reserve(g, paid, p).game)
        BY <3>3, <4>1, <4>2, ReserveIsSound
      <4>4. Reserved(g, paid, sender, swap.game)
        BY <3>2, <4>3
      <4>5. QED BY ONLY <4>4 DEF Reserved
    <3>5. o.game = swap.game /\ o.out = "ok" /\ o.sold = sold /\ o.bought = bought
      BY ONLY <2>3, <2>10 DEF Refund, Outcome
    <3>6. \A u \in DOMAIN g.bal : \A x :
             balance_check(o.game, u, x) = balance_check(g, u, x)
                 + Traded(u, x, selling, buying, sold, bought, sender, id)
      <4> SUFFICES ASSUME NEW u \in DOMAIN g.bal, NEW x
                   PROVE  balance_check(o.game, u, x) = balance_check(g, u, x)
                            + Traded(u, x, selling, buying, sold, bought, sender, id)
        OBVIOUS
      <4>1. balance_check(o.game, u, x) = balance_check(paid, u, x)
        BY ONLY <3>4, <3>5 DEF balance_check
      <4>2. balance_check(paid, u, x) = balance_check(g, u, x)
                 + (IF u = selling /\ x = id THEN sold ELSE 0)
                 - (IF u = selling /\ x = sender THEN sold ELSE 0)
                 + (IF u = buying /\ x = sender THEN bought ELSE 0)
                 - (IF u = buying /\ x = id THEN bought ELSE 0)
        BY <2>5, <2>9, <3>1
      <4>3. balance_check(g, u, x) \in Nat
        BY <1>4
      <4>4. id # sender
        BY <1>3 DEF id
      <4>5. sold \in Nat /\ bought \in Nat
        OBVIOUS
      <4>6. QED BY ONLY <4>1, <4>2, <4>3, <4>4, <4>5 DEF Traded
    <3>7. \A u \in DOMAIN g.bal : o.game.total[u] = g.total[u]
      BY <2>9, <3>1, <3>4, <3>5
    <3>8. TradeDone(g, p, selling, buying, sender, o)
      BY <3>4, <3>5, <3>6, <3>7 DEF TradeDone, id
    <3>9. QED BY <3>5, <3>8
  <2>11. CASE swap.out # "ok"
    <3>1. swap.game = g1 /\ swap.out \in {"insufficient", "invalid"}
      BY <2>8, <2>11 DEF Reserve
    <3> DEFINE h == transfer(g1, selling, id, sender, sold)
    <3>2. o = Refused(h, swap.out)
      BY <2>3, <2>7, <2>11, <3>1 DEF Refund
    <3>3. /\ Wallets(h) /\ SameBut(g1, h)
          /\ \A u \in DOMAIN g1.bal : \A x :
                balance_check(h, u, x) =
                    balance_check(g1, u, x) + Moved(g1, selling, id, sender, sold, u, x)
          /\ \A u \in DOMAIN g1.bal : h.total[u] = g1.total[u]
      <4>1. selling \in DOMAIN g1.bal /\ id \in 1..g1.alloc /\ sender \in 1..g1.alloc
        BY <1>2, <1>3, <2>4 DEF id
      <4>2. QED BY <2>2, <4>1, TransferFacts
    <3> HIDE DEF h
    <3>4. transfer_possible(g1, selling, id, sold)
      <4>1. balance_check(g1, selling, id) = balance_check(g, selling, id) + sold
        BY <1>2, <1>3, <1>4, <2>5 DEF id
      <4>2. balance_check(g, selling, id) \in Nat
        BY <1>2, <1>4
      <4>3. QED BY <4>1, <4>2 DEF transfer_possible
    <3>5. ASSUME NEW u \in DOMAIN g.bal, NEW x
          PROVE  balance_check(h, u, x) = balance_check(g, u, x)
      <4>1. balance_check(h, u, x) = balance_check(g1, u, x)
                + (IF u = selling /\ x = sender THEN sold ELSE 0)
                - (IF u = selling /\ x = id THEN sold ELSE 0)
        BY <2>4, <2>6, <3>3, <3>4 DEF Moved
      <4>2. balance_check(g, u, x) \in Nat
        BY <1>4
      <4>3. QED BY <2>5, <4>1, <4>2
    <3>6. SameBut(g, h)
      BY <2>2, <3>3 DEF SameBut
    <3>7. LedgerStep(g, h, {sender})
      <4>1. Takes(g, h, {sender})
        BY <1>4, <3>5 DEF Takes
      <4>2. QED BY <3>3, <3>5, <3>6, <4>1, MarketsUntouched
    <3>8. o.game = h /\ o.out = swap.out /\ o.sold = 0 /\ o.bought = 0
      BY ONLY <3>2 DEF Refused, Outcome
    <3>9. TradeDone(g, p, selling, buying, sender, o)
      <4>1. \A u \in DOMAIN g.bal : h.total[u] = g.total[u]
        BY <2>2, <2>4, <3>3
      <4>2. h.alloc = g.alloc /\ h.markets = g.markets /\ DOMAIN h.bal = DOMAIN g.bal
        BY <3>6, SameButFacts
      <4>3. swap.out # "ok"
        BY <2>11
      <4>4. QED BY ONLY <3>5, <3>7, <3>8, <4>1, <4>2, <4>3 DEF TradeDone
    <3>10. ASSUME selling # buying, sold <= balance_check(g, selling, sender),
                  bought <= balance_check(g, buying, id),
                  balance_check(g, selling, id) * balance_check(g, buying, id)
                    <= (balance_check(g, selling, id) + sold)
                         * (balance_check(g, buying, id) - bought)
           PROVE  FALSE
      <4> DEFINE qs == balance_check(g, selling, id)
                 qb == balance_check(g, buying, id)
      <4>1. qs \in Nat /\ qb \in Nat
        BY <1>2, <1>4
      <4>2. balance_check(g1, buying, id) = qb
        BY <1>2, <1>3, <1>4, <2>5, <3>10
      <4>3. transfer_possible(g1, buying, id, bought)
        BY <3>10, <4>1, <4>2 DEF transfer_possible
      <4>4. swap = Reserve(g1, paid, p)
        BY <2>8, <4>3
      <4>5. balance_check(paid, selling, id) = qs + sold
            /\ balance_check(paid, buying, id) = qb - bought
        <5>1. balance_check(g1, selling, id) = qs + sold
          <6>1. id # sender /\ selling \in DOMAIN g.bal
            BY <1>2, <1>3 DEF id
          <6>2. QED BY <4>1, <2>5, <6>1
        <5>2. id # sender
          BY <1>3 DEF id
        <5> HIDE DEF qs, qb
        <5>3. QED BY <1>2, <2>9, <3>10, <4>1, <4>2, <4>3, <5>1, <5>2
      <4>6. /\ g.markets[p].a = balance_check(g, p[1], id)
            /\ g.markets[p].b = balance_check(g, p[2], id)
        BY <1>1 DEF MarketSound, id
      <4>7. paid.markets = g.markets
        BY <2>9, <4>3, SameButFacts
      <4>8. /\ Holding(paid, p, p[1]) = balance_check(paid, p[1], id)
            /\ Holding(paid, p, p[2]) = balance_check(paid, p[2], id)
        BY <1>2, <4>7 DEF Holding, id
      <4>9. qs * qb <= (qs + sold) * (qb - bought)
        BY <3>10
      <4>10. ~(balance_check(paid, p[1], id) * balance_check(paid, p[2], id)
                 < g.markets[p].a * g.markets[p].b)
        <5> HIDE DEF qs, qb
        <5>1. /\ balance_check(g, selling, id) = qs /\ balance_check(g, buying, id) = qb
          BY DEF qs, qb
        <5>2. CASE selling = p[1] /\ buying = p[2]
          BY <3>10, <4>1, <4>5, <4>6, <4>9, <5>1, <5>2
        <5>3. CASE selling = p[2] /\ buying = p[1]
          <6>1. qb * qs = qs * qb /\ (qb - bought) * (qs + sold) = (qs + sold) * (qb - bought)
            BY <4>1
          <6>2. QED BY <3>10, <4>1, <4>5, <4>6, <4>9, <5>1, <5>3, <6>1
        <5>4. QED BY <3>10, <5>2, <5>3
      <4>11. Reserve(g1, paid, p).out = "ok"
        BY <2>4, <4>8, <4>10 DEF Reserve
      <4>12. QED BY <2>11, <4>4, <4>11
    <3>11. QED BY <3>1, <3>8, <3>9, <3>10 DEF id
  <2>12. QED BY <2>10, <2>11
<1>7. QED BY <1>5, <1>6

\* What holds of every trade, and of one that is only simulated
Dealt(g, o, sender) ==
    /\ LedgerStep(g, o.game, {sender})
    /\ \A u \in DOMAIN g.bal : o.game.total[u] = g.total[u]
    /\ o.sold \in Nat /\ o.bought \in Nat
    /\ o.out # "ok" => \A u \in DOMAIN g.bal : \A x :
                          balance_check(o.game, u, x) = balance_check(g, u, x)

\* A trade that settles is a trade as Dealt says.
LEMMA DoneIsDealt ==
    ASSUME NEW g, NEW p, NEW selling, NEW buying, NEW sender, NEW o,
           TradeDone(g, p, selling, buying, sender, o)
    PROVE  Dealt(g, o, sender)
BY DEF TradeDone, Dealt

\* The outcomes that leave the game as it is
LEMMA IdleIsDealt ==
    ASSUME NEW g, Books(g), NEW sender, NEW out, NEW sold \in Nat, NEW bought \in Nat
    PROVE  /\ Dealt(g, Outcome(g, out, sold, bought), sender)
           /\ Dealt(g, Refused(g, out), sender)
<1>1. LedgerStep(g, g, {sender})
  BY LedgerStepRefl
<1>2. ASSUME NEW s \in Nat, NEW b \in Nat PROVE Dealt(g, Outcome(g, out, s, b), sender)
  <2> DEFINE o == Outcome(g, out, s, b)
  <2>1. o.game = g /\ o.sold = s /\ o.bought = b
    BY DEF Outcome
  <2> HIDE DEF o
  <2>2. Dealt(g, o, sender)
    BY <1>1, <2>1 DEF Dealt
  <2>3. QED BY <2>2 DEF o
<1>3. QED BY <1>2 DEF Refused

\* What comes of two legs, simulated or not
Legs(g, p, selling, buying, sold, bought, simulate, sender, o) ==
    /\ Dealt(g, o, sender) /\ o.out \in {"ok", "insufficient", "invalid"}
    /\ simulate => o.game = g
    /\ ~simulate => TradeDone(g, p, selling, buying, sender, o)
    /\ o.out = "ok" => o.sold = sold /\ o.bought = bought

\* Settle, simulated or not, is a trade as Dealt says.
LEMMA SettleIsDealt ==
    ASSUME NEW g, Books(g), NEW p \in DOMAIN g.markets,
           NEW selling \in {p[1], p[2]}, NEW buying \in {p[1], p[2]},
           NEW sold \in Nat, NEW bought \in Nat, NEW simulate \in BOOLEAN,
           NEW sender \in Holder(g)
    PROVE  Legs(g, p, selling, buying, sold, bought, simulate, sender,
                Settle(g, p, selling, buying, sold, bought, simulate, sender))
<1> DEFINE o == Settle(g, p, selling, buying, sold, bought, simulate, sender)
<1>1. CASE ~simulate
  <2>1. simulate = FALSE
    BY <1>1
  <2>2. PICK q : q = Settle(g, p, selling, buying, sold, bought, FALSE, sender)
    OBVIOUS
  <2>3. /\ TradeDone(g, p, selling, buying, sender, q)
        /\ q.out \in {"ok", "insufficient", "invalid"}
        /\ q.out = "ok" => q.sold = sold /\ q.bought = bought
    <3>1. Settled(g, p, selling, buying, sold, bought, sender, q)
      BY <2>2, SettleFacts
    <3>2. QED BY <3>1 DEF Settled
  <2>4. Dealt(g, q, sender)
    BY <2>3, DoneIsDealt
  <2>5. o = q
    BY <2>1, <2>2
  <2> HIDE DEF o
  <2>6. QED BY <1>1, <2>3, <2>4, <2>5 DEF o, Legs
<1>2. CASE simulate
  <2>1. o \in {Refused(g, "insufficient"), Outcome(g, "ok", sold, bought)}
    BY <1>2 DEF Settle
  <2>2. Dealt(g, o, sender)
    BY <2>1, IdleIsDealt
  <2>3. /\ o.game = g /\ o.out \in {"ok", "insufficient"}
        /\ o.out = "ok" => o.sold = sold /\ o.bought = bought
    <3> HIDE DEF o
    <3>1. QED BY <2>1 DEF Refused, Outcome
  <2> HIDE DEF o
  <2>4. QED BY <1>2, <2>2, <2>3 DEF o, Legs
<1>3. QED BY <1>1, <1>2

Errors == {"insufficient", "invalid", "slipped", "panic"}

\* A refusal of one kind or the other
LEMMA RefusedOutcome ==
    ASSUME NEW g, NEW out
    PROVE  LET o == Refused(g, out) IN o.game = g /\ o.out = out /\ o.sold = 0 /\ o.bought = 0
BY DEF Refused, Outcome

\* What comes of a sale, and of a purchase
Sale(g, p, selling, buying, n, simulate, sender, o) ==
    /\ Dealt(g, o, sender) /\ o.out \in Errors \cup {"ok"}
    /\ simulate => o.game = g
    /\ o.out = "ok" => o.sold \in 0..n
    /\ o.out = "ok" /\ ~simulate => TradeDone(g, p, selling, buying, sender, o)
Purchase(g, p, selling, buying, n, simulate, sender, o) ==
    /\ Dealt(g, o, sender) /\ o.out \in Errors \cup {"ok"}
    /\ simulate => o.game = g
    /\ o.out = "ok" => o.bought >= n
    /\ o.out = "ok" /\ ~simulate => TradeDone(g, p, selling, buying, sender, o)

\* SellFixed takes from the sender alone; a simulation leaves the board.
LEMMA SellFacts ==
    ASSUME NEW g, Books(g), NEW p \in DOMAIN g.markets,
           NEW selling \in {p[1], p[2]}, NEW buying \in {p[1], p[2]},
           NEW n \in Nat \ {0}, NEW min, NEW simulate \in BOOLEAN, NEW sender \in Holder(g)
    PROVE  Sale(g, p, selling, buying, n, simulate, sender,
                SellFixed(g, p, selling, buying, n, min, simulate, sender))
<1> DEFINE qs == Holding(g, p, selling)
           qb == Holding(g, p, buying)
           bought == AmountBought(qs, qb, n)
           sold == AmountSold(qs, qb, bought)
           o == SellFixed(g, p, selling, buying, n, min, simulate, sender)
           s == Settle(g, p, selling, buying, sold, bought, simulate, sender)
<1>1. selling \in DOMAIN g.bal /\ buying \in DOMAIN g.bal
  <2>1. MarketSound(g, p)
    BY DEF Books, Markets
  <2>2. QED BY <2>1 DEF MarketSound
<1>2. qs \in Nat /\ qb \in Nat
  BY <1>1, BooksTypes DEF Holding
<1> HIDE DEF qs, qb
<1>3. bought \in 0..qb /\ (bought # qb => sold \in 0..n)
  <2>1. qs + n # 0 /\ n \in Nat
    BY <1>2
  <2>2. QED BY <1>2, <2>1, SellAmounts
<1>4. \/ \E out \in Errors : o = Refused(g, out)
      \/ bought # qb /\ o = s
  <2>1. \/ \E out \in Errors : o = Refused(g, out)
        \/ qb - bought # 0 /\ o = s
    BY DEF SellFixed, div_panics, qs, qb, Errors
  <2>2. qb - bought # 0 => bought # qb
    BY <1>2
  <2>3. QED BY <2>1, <2>2
<1> SUFFICES Sale(g, p, selling, buying, n, simulate, sender, o)
  OBVIOUS
<1> HIDE DEF o
<1>5. ASSUME NEW out \in Errors, o = Refused(g, out)
      PROVE  Sale(g, p, selling, buying, n, simulate, sender, o)
  <2>1. Dealt(g, o, sender)
    BY <1>5, IdleIsDealt
  <2>2. o.out = out /\ o.game = g
    BY <1>5, RefusedOutcome
  <2>3. o.out # "ok"
    BY <2>2 DEF Errors
  <2>4. QED BY ONLY <2>1, <2>2, <2>3 DEF Sale
<1>6. CASE bought # qb /\ o = s
  <2>1. bought \in Nat /\ sold \in Nat
    BY <1>2, <1>3, <1>6
  <2>2. sold \in 0..n
    BY <1>3, <1>6
  <2> HIDE DEF bought, sold
  <2>3. /\ Dealt(g, s, sender) /\ s.out \in {"ok", "insufficient", "invalid"}
        /\ simulate => s.game = g
        /\ ~simulate => TradeDone(g, p, selling, buying, sender, s)
        /\ s.out = "ok" => s.sold = sold
    <3>1. Legs(g, p, selling, buying, sold, bought, simulate, sender, s)
      BY <2>1, SettleIsDealt
    <3> HIDE DEF s
    <3>2. QED BY ONLY <3>1 DEF Legs
  <2> HIDE DEF s
  <2>4. QED BY <1>6, <2>2, <2>3 DEF Sale, Errors
<1>7. QED BY <1>4, <1>5, <1>6

\* BuyFixed takes from the sender alone; a simulation leaves the board.
LEMMA BuyFacts ==
    ASSUME NEW g, Books(g), NEW p \in DOMAIN g.markets,
           NEW selling \in {p[1], p[2]}, NEW buying \in {p[1], p[2]},
           NEW n \in Nat, NEW max, NEW simulate \in BOOLEAN, NEW sender \in Holder(g)
    PROVE  Purchase(g, p, selling, buying, n, simulate, sender,
                    BuyFixed(g, p, selling, buying, n, max, simulate, sender))
<1> DEFINE qs == Holding(g, p, selling)
           qb == Holding(g, p, buying)
           sold == AmountSold(qs, qb, n)
           bought == AmountBought(qs, qb, sold)
           o == BuyFixed(g, p, selling, buying, n, max, simulate, sender)
           s == Settle(g, p, selling, buying, sold, bought, simulate, sender)
<1>1. selling \in DOMAIN g.bal /\ buying \in DOMAIN g.bal
  <2>1. MarketSound(g, p)
    BY DEF Books, Markets
  <2>2. QED BY <2>1 DEF MarketSound
<1>2. qs \in Nat /\ qb \in Nat
  BY <1>1, BooksTypes DEF Holding
<1>3. "insufficient" \in Errors /\ "panic" \in Errors /\ "slipped" \in Errors
  BY DEF Errors
<1>4. \/ \E out \in Errors : o = Refused(g, out)
      \/ ~(n > qb) /\ n # qb /\ qs + sold # 0 /\ o = s
  <2>1. CASE n > qb
    <3>1. o = Refused(g, "insufficient")
      BY <2>1, Zenon DEF BuyFixed
    <3>2. QED BY <1>3, <3>1, Zenon
  <2>2. CASE ~(n > qb) /\ (div_panics(qs * qb, qb - n) \/ div_panics(qs * qb, qs + sold))
    <3>1. o = Refused(g, "panic")
      BY <2>2, Zenon DEF BuyFixed
    <3>2. QED BY <1>3, <3>1, Zenon
  <2>3. CASE ~(n > qb) /\ ~div_panics(qs * qb, qb - n) /\ ~div_panics(qs * qb, qs + sold)
    <3>1. o = Refused(g, "slipped") \/ o = s
      BY <2>3, Zenon DEF BuyFixed
    <3>2. qb - n # 0 /\ qs + sold # 0
      BY <2>3, Zenon DEF div_panics
    <3>3. n # qb
      <4> HIDE DEF qb
      <4>1. QED BY <1>2, <3>2
    <3>4. QED BY <1>3, <2>3, <3>1, <3>2, <3>3, Zenon
  <2>4. QED BY <2>1, <2>2, <2>3, Zenon
<1> SUFFICES Purchase(g, p, selling, buying, n, simulate, sender, o)
  OBVIOUS
<1> HIDE DEF o, qs, qb
<1>5. ASSUME NEW out \in Errors, o = Refused(g, out)
      PROVE  Purchase(g, p, selling, buying, n, simulate, sender, o)
  <2>1. Dealt(g, o, sender)
    BY <1>5, IdleIsDealt
  <2>2. o.out = out /\ o.game = g
    BY <1>5, RefusedOutcome
  <2>3. o.out # "ok"
    BY <2>2 DEF Errors
  <2>4. QED BY ONLY <2>1, <2>2, <2>3 DEF Purchase
<1>6. CASE ~(n > qb) /\ n # qb /\ qs + sold # 0 /\ o = s
  <2>1. n < qb
    BY <1>2, <1>6
  <2>2. sold \in Nat /\ bought \in n..qb
    BY <1>2, <1>6, <2>1, BuyAmounts
  <2> HIDE DEF bought, sold
  <2>3. bought \in Nat /\ bought >= n
    BY <1>2, <2>2
  <2>4. /\ Dealt(g, s, sender) /\ s.out \in {"ok", "insufficient", "invalid"}
        /\ simulate => s.game = g
        /\ ~simulate => TradeDone(g, p, selling, buying, sender, s)
        /\ s.out = "ok" => s.bought = bought
    <3>0. PICK x, y : x = sold /\ y = bought
      OBVIOUS
    <3>0a. x \in Nat /\ y \in Nat
      BY <2>2, <2>3, <3>0
    <3>0b. Legs(g, p, selling, buying, x, y, simulate, sender,
                Settle(g, p, selling, buying, x, y, simulate, sender))
      BY <3>0a, SettleIsDealt
    <3>1. Legs(g, p, selling, buying, sold, bought, simulate, sender, s)
      BY <3>0, <3>0b
    <3> HIDE DEF s
    <3>2. QED BY ONLY <2>2, <3>1 DEF Legs
  <2> HIDE DEF s
  <2>5. QED BY <1>6, <2>3, <2>4 DEF Purchase, Errors
<1>7. QED BY <1>4, <1>5, <1>6

\* A simulated trade does no more than make its market.
Simulated(g, pair, simulate, o) == simulate => o.game = ensure(g, pair)

\* DoTrade keeps the books, takes from the sender alone, makes no tokens and
\* lowers no product of reserves; a simulation only makes the market.
LEMMA TradeFacts ==
    ASSUME NEW g, Books(g), NEW pair \in (DOMAIN g.bal) \X (DOMAIN g.bal),
           NEW a \in Nat, NEW b \in Nat, NEW sell \in BOOLEAN, NEW cap,
           NEW simulate \in BOOLEAN, NEW sender \in Holder(g)
    PROVE  LET o == DoTrade(g, pair, a, b, sell, cap, simulate, sender) IN
           /\ Dealt(g, o, sender) /\ o.out \in Errors \cup {"ok"}
           /\ Simulated(g, pair, simulate, o)
<1> DEFINE h == ensure(g, pair)
           p == normalize(pair)
           other == IF a = 0 THEN pair[1] ELSE pair[2]
           given == IF a = 0 THEN pair[2] ELSE pair[1]
           n == a + b
           o == DoTrade(g, pair, a, b, sell, cap, simulate, sender)
<1>1. /\ LedgerStep(g, h, {}) /\ p \in DOMAIN h.markets
      /\ \A u \in DOMAIN g.bal : h.total[u] = g.total[u]
      /\ \A u \in DOMAIN g.bal : \A x : balance_check(h, u, x) = balance_check(g, u, x)
  BY EnsureStep
<1>2. Books(h) /\ Holder(g) \subseteq Holder(h) /\ DOMAIN g.bal \subseteq DOMAIN h.bal
  BY <1>1 DEF LedgerStep, Grows
<1>3. {p[1], p[2]} = {pair[1], pair[2]}
  BY Normalized
<1>4. other \in {p[1], p[2]} /\ given \in {p[1], p[2]}
  BY <1>3
<1> HIDE DEF h, p, other, given
<1>5. \/ o = Refused(h, "invalid")
      \/ n \in Nat \ {0} /\ sell /\ o = SellFixed(h, p, given, other, n, cap, simulate, sender)
      \/ n \in Nat /\ ~sell /\ o = BuyFixed(h, p, other, given, n, cap, simulate, sender)
  <2>1. (a = 0) # (b = 0) => n \in Nat \ {0}
    OBVIOUS
  <2>2. QED BY <2>1 DEF DoTrade, h, p, other, given
<1> HIDE DEF n, o
<1>6. Dealt(h, o, sender) /\ o.out \in Errors \cup {"ok"} /\ (simulate => o.game = h)
  <2>1. CASE o = Refused(h, "invalid")
    BY <1>2, <2>1, IdleIsDealt, RefusedOutcome DEF Errors
  <2>2. CASE n \in Nat \ {0} /\ o = SellFixed(h, p, given, other, n, cap, simulate, sender)
    <3>1. sender \in Holder(h)
      BY <1>2
    <3>2. Sale(h, p, given, other, n, simulate, sender,
                SellFixed(h, p, given, other, n, cap, simulate, sender))
      <4>1. /\ Books(h) /\ p \in DOMAIN h.markets /\ given \in {p[1], p[2]}
            /\ other \in {p[1], p[2]} /\ n \in Nat \ {0} /\ simulate \in BOOLEAN
        BY <1>1, <1>2, <1>4, <2>2
      <4>2. QED BY ONLY <3>1, <4>1, SellFacts
    <3>3. Sale(h, p, given, other, n, simulate, sender, o)
      BY <2>2, <3>2
    <3>4. QED BY ONLY <3>3 DEF Sale
  <2>3. CASE n \in Nat /\ o = BuyFixed(h, p, other, given, n, cap, simulate, sender)
    <3>1. sender \in Holder(h)
      BY <1>2
    <3>2. Purchase(h, p, other, given, n, simulate, sender,
                    BuyFixed(h, p, other, given, n, cap, simulate, sender))
      <4>1. /\ Books(h) /\ p \in DOMAIN h.markets /\ given \in {p[1], p[2]}
            /\ other \in {p[1], p[2]} /\ n \in Nat /\ simulate \in BOOLEAN
        BY <1>1, <1>2, <1>4, <2>3
      <4>2. QED BY ONLY <3>1, <4>1, BuyFacts
    <3>3. Purchase(h, p, other, given, n, simulate, sender, o)
      BY <2>3, <3>2
    <3>4. QED BY ONLY <3>3 DEF Purchase
  <2>4. QED BY <1>5, <2>1, <2>2, <2>3
<1>7. LedgerStep(g, o.game, {sender})
  <2>1. LedgerStep(h, o.game, {sender})
    BY <1>6 DEF Dealt
  <2>2. {} \cup {sender} = {sender}
    OBVIOUS
  <2>3. QED BY <1>1, <2>1, <2>2, LedgerStepTrans
<1>8. Dealt(g, o, sender)
  <2>1. \A u \in DOMAIN g.bal : o.game.total[u] = g.total[u]
    BY <1>1, <1>2, <1>6 DEF Dealt
  <2>2. o.out # "ok" => \A u \in DOMAIN g.bal : \A x :
                          balance_check(o.game, u, x) = balance_check(g, u, x)
    BY <1>1, <1>2, <1>6 DEF Dealt
  <2>3. QED BY <1>6, <1>7, <2>1, <2>2 DEF Dealt
<1>9. Simulated(g, pair, simulate, o)
  BY <1>6 DEF Simulated, h
<1>10. QED BY <1>6, <1>8, <1>9 DEF o

\* A sale takes no more than is offered, and nothing else.
LEMMA SaleTakes ==
    ASSUME NEW g, Books(g), NEW pair \in (DOMAIN g.bal) \X (DOMAIN g.bal),
           pair[1] # pair[2], NEW a \in Nat, NEW cap, NEW sender \in Holder(g),
           NEW v \in DOMAIN g.bal
    PROVE  balance_check(g, v, sender)
             <= balance_check(do_sell_trade(g, pair, a, 0, cap, FALSE, sender).game,
                              v, sender) + (IF v = pair[1] THEN a ELSE 0)
<1> DEFINE o == DoTrade(g, pair, a, 0, TRUE, cap, FALSE, sender)
           h == ensure(g, pair)
           p == normalize(pair)
           t == pair[1]
           u == pair[2]
<1>1. /\ LedgerStep(g, h, {}) /\ p \in DOMAIN h.markets
      /\ \A w \in DOMAIN g.bal : \A x : balance_check(h, w, x) = balance_check(g, w, x)
  BY EnsureStep
<1>2. Books(h) /\ Holder(g) \subseteq Holder(h) /\ DOMAIN g.bal \subseteq DOMAIN h.bal
  BY <1>1 DEF LedgerStep, Grows
<1>3. t \in {p[1], p[2]} /\ u \in {p[1], p[2]} /\ t # u
  BY Normalized
<1>4. Dealt(g, o, sender)
  <2>1. 0 \in Nat /\ TRUE \in BOOLEAN /\ FALSE \in BOOLEAN
    OBVIOUS
  <2>2. QED BY <2>1, TradeFacts
<1>5. balance_check(g, v, sender) \in Nat
  BY BooksTypes
<1>6. CASE o.out # "ok"
  <2>1. balance_check(o.game, v, sender) = balance_check(g, v, sender)
    <3> HIDE DEF o
    <3>1. QED BY <1>4, <1>6 DEF Dealt
  <2>2. balance_check(g, v, sender)
            <= balance_check(o.game, v, sender) + (IF v = t THEN a ELSE 0)
    <3> HIDE DEF o, t
    <3>1. QED BY <1>5, <2>1
  <2>3. QED BY <2>2 DEF do_sell_trade
<1>7. CASE o.out = "ok"
  <2> HIDE DEF h, p
  <2>1. o = IF a = 0 THEN Refused(h, "invalid")
            ELSE SellFixed(h, p, t, u, a, cap, FALSE, sender)
    <3>1. CASE a = 0
      BY <3>1 DEF DoTrade, h
    <3>2. CASE a # 0
      <4>1. (a = 0) # (0 = 0) /\ a + 0 = a
        BY <3>2
      <4>2. QED BY <3>2, <4>1 DEF DoTrade, h, p
    <3>3. QED BY <3>1, <3>2
  <2>2. a \in Nat \ {0} /\ o = SellFixed(h, p, t, u, a, cap, FALSE, sender)
    <3> HIDE DEF o
    <3>1. Refused(h, "invalid").out = "invalid"
      BY RefusedOutcome
    <3>2. QED BY <1>7, <2>1, <3>1
  <2> HIDE DEF o, t, u
  <2>3. Sale(h, p, t, u, a, FALSE, sender, SellFixed(h, p, t, u, a, cap, FALSE, sender))
    <3>1. sender \in Holder(h) /\ FALSE \in BOOLEAN
      BY <1>2
    <3>2. QED BY <1>1, <1>2, <1>3, <2>2, <3>1, SellFacts
  <2>4. Sale(h, p, t, u, a, FALSE, sender, o)
    BY <2>2, <2>3
  <2>5. TradeDone(h, p, t, u, sender, o) /\ o.sold \in 0..a /\ o.bought \in Nat
    BY ONLY <1>7, <2>4 DEF Sale, Dealt
  <2>6. balance_check(o.game, v, sender) = balance_check(h, v, sender)
           + ((IF v = u THEN o.bought ELSE 0) - (IF v = t THEN o.sold ELSE 0))
    <3>1. balance_check(o.game, v, sender) = balance_check(h, v, sender)
              + Traded(v, sender, t, u, o.sold, o.bought, sender, h.markets[p].id)
      BY <1>2, <1>7, <2>5 DEF TradeDone
    <3>2. QED BY <3>1 DEF Traded
  <2>7. balance_check(h, v, sender) = balance_check(g, v, sender)
    BY <1>1
  <2>8. balance_check(g, v, sender)
            <= balance_check(o.game, v, sender) + (IF v = t THEN a ELSE 0)
    BY <1>3, <1>5, <2>5, <2>6, <2>7
  <2>9. QED BY <2>8 DEF do_sell_trade, o, t
<1>8. QED BY <1>6, <1>7

-----------------------------------------------------------------------------
(* Deposits *)

\* What a deposit into the market of p does
Deposited(g, p, a, b, from, h) ==
    /\ LedgerStep(g, h, {from})
    /\ \A u \in DOMAIN g.bal :
          balance_check(g, u, from)
              <= balance_check(h, u, from) + (IF u = p[1] THEN a ELSE 0)
                                           + (IF u = p[2] THEN b ELSE 0)

\* A deposit is of both tokens or of none, and for the first it gives shares.
LEMMA DepositIntoFacts ==
    ASSUME NEW g, Books(g), NEW p \in DOMAIN g.markets, p[1] # p[2],
           NEW a \in Nat \ {0}, NEW b \in Nat \ {0}, NEW from \in Holder(g)
    PROVE  Deposited(g, p, a, b, from, DepositInto(g, p, a, b, from))
<1> DEFINE id == g.markets[p].id
           m1 == transfer(g, p[1], from, id, a)
           m2 == transfer(m1, p[2], from, id, b)
           lp == g.markets[p].lp
           x == (m2.total[lp] * a) \div Holding(m2, p, p[1])
           m3 == mint(m2, lp, from, x)
           h == DepositInto(g, p, a, b, from)
<1>1. MarketSound(g, p) /\ Wallets(g)
  BY DEF Books, Markets
<1>2. /\ normalize(p) = p /\ p[1] \in DOMAIN g.bal /\ p[2] \in DOMAIN g.bal
      /\ id \in 1..g.alloc /\ lp \in DOMAIN g.bal
      /\ DOMAIN g.markets[p] = {"id", "lp", "a", "b"}
      /\ g.markets[p].a = balance_check(g, p[1], id)
      /\ g.markets[p].b = balance_check(g, p[2], id)
  BY <1>1 DEF MarketSound, normalize
<1>3. from \in 1..g.alloc /\ from # id /\ id \in MarketIds(g)
  BY DEF Holder, MarketIds
<1>4. \A u \in DOMAIN g.bal : \A y : balance_check(g, u, y) \in Nat
  BY BooksTypes
<1>5. CASE h = g
  <2>1. LedgerStep(g, g, {from})
    BY LedgerStepRefl
  <2>2. \A u \in DOMAIN g.bal :
          balance_check(g, u, from)
              <= balance_check(g, u, from) + (IF u = p[1] THEN a ELSE 0)
                                           + (IF u = p[2] THEN b ELSE 0)
    BY <1>4
  <2>3. Deposited(g, p, a, b, from, g)
    BY <2>1, <2>2 DEF Deposited
  <2>4. QED BY <1>5, <2>3
<1>6. CASE h # g
  <2>1. /\ transfer_possible(g, p[1], from, a) /\ transfer_possible(m1, p[2], from, b)
        /\ h = MintShares(m2, p, a, b, from)
    BY <1>6 DEF DepositInto
  <2>2. /\ Wallets(m1) /\ SameBut(g, m1)
        /\ \A u \in DOMAIN g.bal : \A y :
              balance_check(m1, u, y) =
                  balance_check(g, u, y) + Moved(g, p[1], from, id, a, u, y)
    BY <1>1, <1>2, <1>3, TransferFacts
  <2> HIDE DEF m1, id
  <2>3. /\ m1.alloc = g.alloc /\ m1.markets = g.markets /\ DOMAIN m1.bal = DOMAIN g.bal
    BY <2>2, SameButFacts
  <2>4. \A u \in DOMAIN g.bal : \A y :
           balance_check(m1, u, y) = balance_check(g, u, y)
               + (IF u = p[1] /\ y = id THEN a ELSE 0)
               - (IF u = p[1] /\ y = from THEN a ELSE 0)
    BY <2>1, <2>2, <1>4 DEF Moved
  <2>5. /\ Wallets(m2) /\ SameBut(m1, m2)
        /\ \A u \in DOMAIN m1.bal : \A y :
              balance_check(m2, u, y) =
                  balance_check(m1, u, y) + Moved(m1, p[2], from, id, b, u, y)
    <3>1. p[2] \in DOMAIN m1.bal /\ from \in 1..m1.alloc /\ id \in 1..m1.alloc
      BY <1>2, <1>3, <2>3
    <3>2. QED BY <2>2, <3>1, TransferFacts
  <2> HIDE DEF m2
  <2>6. /\ m2.alloc = g.alloc /\ m2.markets = g.markets /\ DOMAIN m2.bal = DOMAIN g.bal
    BY <2>3, <2>5, SameButFacts
  <2>7. \A u \in DOMAIN g.bal : \A y : balance_check(m1, u, y) \in Nat
                                       /\ balance_check(m2, u, y) \in Nat
    BY <2>2, <2>3, <2>5, <2>6, BalanceFacts
  <2>8. \A u \in DOMAIN g.bal : \A y :
           balance_check(m2, u, y) = balance_check(m1, u, y)
               + (IF u = p[2] /\ y = id THEN b ELSE 0)
               - (IF u = p[2] /\ y = from THEN b ELSE 0)
    BY <2>1, <2>3, <2>5, <2>7 DEF Moved
  <2>9. /\ balance_check(m2, p[1], id) = g.markets[p].a + a
        /\ balance_check(m2, p[2], id) = g.markets[p].b + b
    <3>1. p[1] \in DOMAIN g.bal /\ p[2] \in DOMAIN g.bal /\ id # from /\ p[1] # p[2]
      BY <1>2, <1>3
    <3>2. /\ balance_check(m1, p[1], id) = balance_check(g, p[1], id) + a
          /\ balance_check(m1, p[2], id) = balance_check(g, p[2], id)
      BY ONLY <3>1, <1>4, <2>4
    <3>3. /\ balance_check(m2, p[1], id) = balance_check(m1, p[1], id)
          /\ balance_check(m2, p[2], id) = balance_check(m1, p[2], id) + b
      BY ONLY <3>1, <2>7, <2>8
    <3>4. QED BY <1>2, <3>2, <3>3
  <2>10. g.markets[p].a \in Nat /\ g.markets[p].b \in Nat
    BY BooksTypes
  <2>11. Holding(m2, p, p[1]) = g.markets[p].a + a
    BY <1>2, <2>6, <2>9 DEF Holding, id
  <2>12. x \in Nat
    <3>1. m2.total[lp] \in Nat
      BY <1>2, <2>5, <2>6, BalanceFacts
    <3>2. m2.total[lp] * a \in Nat
      BY <3>1
    <3>3. g.markets[p].a + a \in Nat \ {0}
      BY <2>10
    <3> HIDE DEF lp
    <3>4. QED BY <2>11, <3>2, <3>3, Divide
  <2>13. /\ Wallets(m3) /\ SameBut(m2, m3)
         /\ \A u \in DOMAIN m2.bal : \A y :
               balance_check(m3, u, y) =
                   balance_check(m2, u, y) + IF u = lp /\ y = from THEN x ELSE 0
    <3>1. lp \in DOMAIN m2.bal /\ from \in 1..m2.alloc
      BY <1>2, <1>3, <2>6
    <3> HIDE DEF x
    <3>2. QED BY <2>5, <2>12, <3>1, MintFacts
  <2>14. h = [m3 EXCEPT !.markets[p].a = @ + a, !.markets[p].b = @ + b]
    BY <2>1, <2>6 DEF MintShares, lp
  <2> HIDE DEF m3, h, x
  <2>15. m3.markets = g.markets /\ DOMAIN m3.bal = DOMAIN g.bal /\ DOMAIN m3 = Field
    BY <2>6, <2>13, SameButFacts DEF SameBut
  <2>16. \A u \in DOMAIN g.bal : \A y : balance_check(m3, u, y) \in Nat
    BY <2>13, <2>15, BalanceFacts
  <2>17. /\ Holding(m3, p, p[1]) = g.markets[p].a + a
         /\ Holding(m3, p, p[2]) = g.markets[p].b + b
    <3>1. /\ balance_check(m3, p[1], id) = g.markets[p].a + a
          /\ balance_check(m3, p[2], id) = g.markets[p].b + b
      BY <1>2, <1>3, <2>6, <2>7, <2>9, <2>13
    <3>2. QED BY <1>2, <2>15, <3>1 DEF Holding, id
  <2>18. SameBut(g, m3)
    BY <2>2, <2>5, <2>13 DEF SameBut
  <2>19. OnlyBetween(g, m3, from, g.markets[p].id)
    BY <1>4, <2>4, <2>6, <2>7, <2>8, <2>13 DEF OnlyBetween, id
  <2> DEFINE A == g.markets[p].a + a
             B == g.markets[p].b + b
  <2>20. /\ Reserve(g, m3, p).out # "invalid"
         /\ Reserve(g, m3, p).game = [m3 EXCEPT !.markets[p].a = A, !.markets[p].b = B]
    <3>1. ~(A * B < g.markets[p].a * g.markets[p].b)
      <4>1. g.markets[p].a <= A /\ g.markets[p].b <= B /\ A \in Nat /\ B \in Nat
        BY <2>10
      <4> HIDE DEF A, B
      <4>2. PICK u \in Nat, v \in Nat : u = g.markets[p].a /\ v = g.markets[p].b
        BY <2>10
      <4>3. u * v <= u * B
        BY <4>1, <4>2, Multiply
      <4>4. B * u <= B * A
        BY <4>1, <4>2, Multiply
      <4>5. B * u = u * B /\ B * A = A * B /\ u * v \in Nat /\ u * B \in Nat /\ A * B \in Nat
        BY <4>1
      <4>6. QED BY <4>2, <4>3, <4>4, <4>5
    <3> HIDE DEF A, B
    <3>2. Holding(m3, p, p[1]) = A /\ Holding(m3, p, p[2]) = B
      BY <2>17 DEF A, B
    <3>3. QED BY <3>1, <3>2 DEF Reserve
  <2>21. h = Reserve(g, m3, p).game
    <3>1. [m3 EXCEPT !.markets[p].a = @ + a, !.markets[p].b = @ + b]
            = [m3 EXCEPT !.markets[p].a = A, !.markets[p].b = B]
      <4>1. "markets" \in DOMAIN m3 /\ p \in DOMAIN m3.markets
            /\ DOMAIN m3.markets[p] = {"id", "lp", "a", "b"}
            /\ m3.markets[p].a + a = A /\ m3.markets[p].b + b = B
        BY <1>2, <2>15 DEF Field
      <4> HIDE DEF A, B
      <4>2. QED BY ONLY <4>1
    <3>2. QED BY <2>14, <2>20, <3>1
  <2>22. Reserved(g, m3, from, h)
    BY <2>13, <2>18, <2>19, <2>20, <2>21, ReserveIsSound
  <2>23. ASSUME NEW u \in DOMAIN g.bal
         PROVE  balance_check(g, u, from)
                    <= balance_check(h, u, from) + (IF u = p[1] THEN a ELSE 0)
                                                 + (IF u = p[2] THEN b ELSE 0)
    <3>1. balance_check(h, u, from) = balance_check(m3, u, from)
      BY <2>22 DEF Reserved, balance_check
    <3>2. balance_check(m3, u, from) >= balance_check(m2, u, from)
      BY <2>6, <2>7, <2>12, <2>13
    <3>3. balance_check(m2, u, from) = balance_check(g, u, from)
             - (IF u = p[1] THEN a ELSE 0) - (IF u = p[2] THEN b ELSE 0)
      BY <1>3, <1>4, <2>4, <2>7, <2>8
    <3>4. QED BY <1>4, <2>7, <2>16, <3>1, <3>2, <3>3
  <2>24. QED BY <2>22, <2>23 DEF Reserved, Deposited, h
<1>7. QED BY <1>5, <1>6

\* A deposit in the other spelling of the pair, which makes the market if need be
LEMMA DepositFacts ==
    ASSUME NEW g, Books(g), NEW pair \in (DOMAIN g.bal) \X (DOMAIN g.bal),
           pair[1] # pair[2], NEW a \in Nat, NEW b \in Nat, NEW from \in Holder(g)
    PROVE  LET h == deposit(g, pair, a, b, from) IN
           /\ LedgerStep(g, h, {from})
           /\ \A u \in DOMAIN g.bal :
                 balance_check(g, u, from)
                    <= balance_check(h, u, from) + (IF u = pair[1] THEN a ELSE 0)
                                                 + (IF u = pair[2] THEN b ELSE 0)
<1> DEFINE h == deposit(g, pair, a, b, from)
           e == ensure(g, pair)
           p == normalize(pair)
           a1 == IF p = pair THEN a ELSE b
           b1 == IF p = pair THEN b ELSE a
<1>1. \A u \in DOMAIN g.bal : \A y : balance_check(g, u, y) \in Nat
  BY BooksTypes
<1>2. CASE a = 0 \/ b = 0
  <2>1. h = g
    BY <1>2 DEF deposit
  <2>2. LedgerStep(g, g, {from})
    BY LedgerStepRefl
  <2>3. QED BY <1>1, <2>1, <2>2
<1>3. CASE ~(a = 0 \/ b = 0)
  <2>1. h = DepositInto(e, p, a1, b1, from)
    BY <1>3 DEF deposit
  <2>2. /\ LedgerStep(g, e, {}) /\ p \in DOMAIN e.markets
        /\ \A u \in DOMAIN g.bal : \A y : balance_check(e, u, y) = balance_check(g, u, y)
    BY EnsureStep
  <2>3. Books(e) /\ Holder(g) \subseteq Holder(e) /\ DOMAIN g.bal \subseteq DOMAIN e.bal
    BY <2>2 DEF LedgerStep, Grows
  <2>4. DOMAIN g.bal \subseteq Nat
    BY DEF Books, Wallets
  <2>5. \/ p = pair
        \/ p # pair /\ p[1] = pair[2] /\ p[2] = pair[1]
    BY DEF normalize
  <2>6. p[1] # p[2] /\ a1 \in Nat \ {0} /\ b1 \in Nat \ {0}
    BY <1>3, <2>5
  <2>7. \A u : (IF u = p[1] THEN a1 ELSE 0) + (IF u = p[2] THEN b1 ELSE 0)
               = (IF u = pair[1] THEN a ELSE 0) + (IF u = pair[2] THEN b ELSE 0)
    BY <2>5
  <2> HIDE DEF h, e, p, a1, b1
  <2>8. Deposited(e, p, a1, b1, from, h)
    <3>1. from \in Holder(e)
      BY <2>3
    <3>2. Deposited(e, p, a1, b1, from, DepositInto(e, p, a1, b1, from))
      BY <2>2, <2>3, <2>6, <3>1, DepositIntoFacts
    <3>3. QED BY <2>1, <3>2
  <2>9. LedgerStep(g, h, {from})
    <3>1. LedgerStep(e, h, {from}) /\ {} \cup {from} = {from}
      BY <2>8 DEF Deposited
    <3>2. QED BY <2>2, <3>1, LedgerStepTrans
  <2>10. ASSUME NEW u \in DOMAIN g.bal
         PROVE  balance_check(g, u, from)
                    <= balance_check(h, u, from) + (IF u = pair[1] THEN a ELSE 0)
                                                 + (IF u = pair[2] THEN b ELSE 0)
    <3>1. balance_check(g, u, from)
              <= balance_check(h, u, from) + (IF u = p[1] THEN a1 ELSE 0)
                                           + (IF u = p[2] THEN b1 ELSE 0)
      BY <2>2, <2>3, <2>8 DEF Deposited
    <3>2. balance_check(h, u, from) \in Nat
      <4>1. Books(h) /\ u \in DOMAIN h.bal
        BY <2>9 DEF LedgerStep, Grows
      <4>2. QED BY <4>1, BooksTypes
    <3>3. QED BY <2>6, <2>7, <3>1, <3>2
  <2>11. QED BY <2>9, <2>10 DEF h
<1>4. QED BY <1>2, <1>3

-----------------------------------------------------------------------------
(* The registers *)

\* A sequence over a set is one over a larger set.
LEMMA SeqOfMore ==
    ASSUME NEW S, NEW T, S \subseteq T, NEW s \in Seq(S)
    PROVE  s \in Seq(T)
<1>1. Len(s) \in Nat /\ s = [i \in 1..Len(s) |-> s[i]] /\ \A i \in 1..Len(s) : s[i] \in T
  BY LenProperties, ElementOfSeq
<1>2. QED BY <1>1, SeqDef

\* Events keep the players and what they own, and who owns it.
Owned(g) == UserIds(g) \cup DOMAIN g.plants
Kept(g, h) ==
    /\ h.setup = g.setup /\ h.users = g.users /\ h.nfts = g.nfts /\ h.plants = g.plants
    /\ h.nft_sales = g.nft_sales /\ h.seq = g.seq /\ h.ticks = g.ticks
    /\ h.elapsed = g.elapsed
Spares(g, h) ==
    \A u \in DOMAIN g.bal : \A x \in Owned(g) :
        balance_check(g, u, x) <= balance_check(h, u, x)
EventStep(g, h) == Sound(h) /\ Kept(g, h) /\ Grows(g, h) /\ Gains(g, h) /\ Spares(g, h)

\* What a step of the ledger leaves alone
LEMMA SameRestFields ==
    ASSUME NEW g, NEW h, SameRest(g, h)
    PROVE  Kept(g, h) /\ h.callbacks = g.callbacks
BY DEF SameRest, Field, Kept

\* Players and plants are no market's account.
LEMMA OwnedFacts ==
    ASSUME NEW g, Registry(g)
    PROVE  UserIds(g) \subseteq Holder(g) /\ Owned(g) \subseteq Holder(g)
BY DEF Registry, Owned, UserIds

\* The registers stay right when the ledger grows.
LEMMA RegistryKept ==
    ASSUME NEW g, NEW h, Registry(g), Kept(g, h), Grows(g, h)
    PROVE  /\ Registry(h) /\ UserIds(h) = UserIds(g) /\ Owned(h) = Owned(g)
           /\ Event(g) \subseteq Event(h)
<1>1. UserIds(h) = UserIds(g)
  BY DEF UserIds, Kept
<1>2. /\ h.setup = g.setup /\ h.users = g.users /\ h.nfts = g.nfts /\ h.plants = g.plants
      /\ h.nft_sales = g.nft_sales /\ h.seq = g.seq /\ h.ticks = g.ticks
      /\ h.elapsed = g.elapsed
  BY DEF Kept
<1>3. Holder(g) \subseteq Holder(h) /\ DOMAIN g.bal \subseteq DOMAIN h.bal
  BY DEF Grows
<1>4. Registry(h)
  BY <1>1, <1>2, <1>3 DEF Registry
<1>5. Event(g) \subseteq Event(h)
  <2>1. Lockup(h) = Lockup(g)
    BY <1>2 DEF Lockup
  <2>2. Holder(g) \ (UserIds(g) \cup DOMAIN g.nfts)
            \subseteq Holder(h) \ (UserIds(h) \cup DOMAIN h.nfts)
    BY <1>1, <1>2, <1>3
  <2>3. QED BY <1>3, <2>1, <2>2 DEF Event
<1>6. QED BY <1>1, <1>2, <1>4, <1>5 DEF Owned

\* An agenda stays right when nothing that is scheduled ceases to exist.
LEMMA AgendaKept ==
    ASSUME NEW g, NEW h, Agenda(g), h.callbacks = g.callbacks, Event(g) \subseteq Event(h)
    PROVE  Agenda(h)
<1>1. \A t \in DOMAIN g.callbacks : t \in Nat /\ g.callbacks[t] \in Seq(Event(h))
  BY SeqOfMore DEF Agenda
<1>2. QED BY <1>1 DEF Agenda

\* A step of the ledger keeps the rest sound.
LEMMA LedgerKeeps ==
    ASSUME NEW g, Sound(g), NEW h, NEW S, LedgerStep(g, h, S)
    PROVE  /\ Sound(h) /\ Kept(g, h) /\ h.callbacks = g.callbacks
           /\ UserIds(h) = UserIds(g) /\ Owned(h) = Owned(g)
<1>1. Kept(g, h) /\ h.callbacks = g.callbacks /\ Books(h) /\ Grows(g, h)
  BY SameRestFields DEF LedgerStep
<1>2. /\ Registry(h) /\ UserIds(h) = UserIds(g) /\ Owned(h) = Owned(g)
      /\ Event(g) \subseteq Event(h)
  BY <1>1, RegistryKept DEF Sound
<1>3. Agenda(h)
  BY <1>1, <1>2, AgendaKept DEF Sound
<1>4. QED BY <1>1, <1>2, <1>3 DEF Sound

\* A step of the ledger that takes nothing from players and plants may be an
\* event's.
LEMMA LedgerIsEvent ==
    ASSUME NEW g, Sound(g), NEW h, NEW S, LedgerStep(g, h, S), S \cap Owned(g) = {}
    PROVE  EventStep(g, h)
<1>1. Sound(h) /\ Kept(g, h) /\ Grows(g, h) /\ Gains(g, h) /\ Takes(g, h, S)
  BY LedgerKeeps DEF LedgerStep
<1>2. Spares(g, h)
  BY <1>1, OwnedFacts DEF Takes, Spares, Sound
<1>3. QED BY <1>1, <1>2 DEF EventStep

\* To do nothing is an event's step.
LEMMA EventStepRefl ==
    ASSUME NEW g, Sound(g)
    PROVE  EventStep(g, g)
<1>1. Books(g)
  BY DEF Sound
<1>2. LedgerStep(g, g, {})
  BY <1>1, LedgerStepRefl
<1>3. QED BY <1>2, LedgerIsEvent

\* Two events, one after the other, keep what each keeps.
LEMMA EventStepTrans ==
    ASSUME NEW g, Sound(g), NEW h, NEW k, EventStep(g, h), EventStep(h, k)
    PROVE  EventStep(g, k)
<1>1. Sound(h) /\ Sound(k) /\ Kept(g, k)
  BY DEF EventStep, Kept
<1>2. g.alloc \in Nat /\ h.alloc \in Nat /\ k.alloc \in Nat
  BY <1>1, BooksTypes DEF Sound
<1>3. Grows(g, k)
  BY <1>2 DEF EventStep, Grows
<1>4. ASSUME NEW p \in DOMAIN g.markets PROVE Product(g, p) <= Product(k, p)
  <2>1. p \in DOMAIN h.markets /\ p \in DOMAIN k.markets
    BY DEF EventStep, Grows
  <2>2. Product(g, p) \in Nat /\ Product(h, p) \in Nat /\ Product(k, p) \in Nat
    BY <1>1, <2>1, BooksTypes DEF Sound
  <2>3. Product(g, p) <= Product(h, p) /\ Product(h, p) <= Product(k, p)
    BY <2>1 DEF EventStep, Gains
  <2>4. QED BY <2>2, <2>3
<1>5. ASSUME NEW u \in DOMAIN g.bal, NEW x \in Owned(g)
      PROVE  balance_check(g, u, x) <= balance_check(k, u, x)
  <2>1. Owned(h) = Owned(g)
    BY DEF EventStep, Kept, Owned, UserIds
  <2>2. u \in DOMAIN h.bal /\ u \in DOMAIN k.bal /\ x \in Owned(h)
    BY <2>1 DEF EventStep, Grows
  <2>3. /\ balance_check(g, u, x) \in Nat /\ balance_check(h, u, x) \in Nat
        /\ balance_check(k, u, x) \in Nat
    BY <1>1, <2>2, BooksTypes DEF Sound
  <2>4. /\ balance_check(g, u, x) <= balance_check(h, u, x)
        /\ balance_check(h, u, x) <= balance_check(k, u, x)
    BY <2>2 DEF EventStep, Spares
  <2>5. QED BY <2>3, <2>4
<1>6. QED BY <1>1, <1>3, <1>4, <1>5 DEF EventStep, Gains, Spares

\* Only the agenda changes.
AgendaStep(g, h) ==
    /\ DOMAIN h = Field /\ \A x \in Field \ {"callbacks"} : h[x] = g[x]

\* What schedules an event leaves the books and the registers.
LEMMA AgendaStepFacts ==
    ASSUME NEW g, Books(g), NEW h, AgendaStep(g, h)
    PROVE  /\ h.alloc = g.alloc /\ h.bal = g.bal /\ h.total = g.total
           /\ h.markets = g.markets /\ Kept(g, h) /\ Books(h)
           /\ \A u, x : balance_check(h, u, x) = balance_check(g, u, x)
           /\ Holder(h) = Holder(g) /\ UserIds(h) = UserIds(g)
           /\ Grows(g, h) /\ Gains(g, h)
<1>1. /\ h.alloc = g.alloc /\ h.bal = g.bal /\ h.total = g.total
      /\ h.markets = g.markets /\ Kept(g, h) /\ DOMAIN h = Field
  BY DEF AgendaStep, Kept, Field
<1>2. \A u, x : balance_check(h, u, x) = balance_check(g, u, x)
  BY <1>1 DEF balance_check
<1>3. Holder(h) = Holder(g)
  BY <1>1 DEF Holder, MarketIds
<1>4. UserIds(h) = UserIds(g)
  BY <1>1 DEF UserIds, Kept
<1>5. Wallets(h)
  BY <1>1 DEF Wallets, Books
<1>6. \A p \in DOMAIN g.markets : MarketSound(h, p)
  BY <1>1, <1>2 DEF Books, Markets, MarketSound
<1>7. Books(h)
  BY <1>1, <1>5, <1>6 DEF Books, Markets
<1>8. Grows(g, h) /\ Gains(g, h)
  BY <1>1, <1>3, BooksTypes DEF Grows, Gains, Product
<1>9. QED BY <1>1, <1>2, <1>3, <1>4, <1>7, <1>8

\* Scheduling is an event's step.
LEMMA AgendaIsEvent ==
    ASSUME NEW g, Sound(g), NEW h, AgendaStep(g, h),
           \A t \in DOMAIN h.callbacks : t \in Nat /\ h.callbacks[t] \in Seq(Event(g))
    PROVE  EventStep(g, h)
<1>1. /\ Kept(g, h) /\ Books(h) /\ Grows(g, h) /\ Gains(g, h)
      /\ \A u, x : balance_check(h, u, x) = balance_check(g, u, x)
  BY AgendaStepFacts DEF Sound
<1>2. Registry(h) /\ Event(g) \subseteq Event(h)
  BY <1>1, RegistryKept DEF Sound
<1>3. Agenda(h)
  BY <1>2, SeqOfMore DEF Agenda
<1>4. Spares(g, h)
  <2>1. \A u \in DOMAIN g.bal : \A x : balance_check(g, u, x) \in Nat
    BY BooksTypes DEF Sound
  <2>2. QED BY <1>1, <2>1 DEF Spares
<1>5. QED BY <1>1, <1>2, <1>3, <1>4 DEF EventStep, Sound

\* d is the agenda c with cb added.
Added(c, d, time, cb) ==
    /\ DOMAIN d = DOMAIN c \cup {time}
    /\ \A t \in DOMAIN c : t # time => d[t] = c[t]
    /\ d[time] = Append(IF time \in DOMAIN c THEN c[time] ELSE <<>>, cb)

\* An event more
LEMMA ScheduleFacts ==
    ASSUME NEW g, Sound(g), NEW time \in Nat, NEW cb \in Event(g)
    PROVE  /\ EventStep(g, schedule(g, time, cb)) /\ AgendaStep(g, schedule(g, time, cb))
           /\ Added(g.callbacks, schedule(g, time, cb).callbacks, time, cb)
<1> DEFINE old == IF time \in DOMAIN g.callbacks THEN g.callbacks[time] ELSE <<>>
           put == Put(g.callbacks, time, Append(old, cb))
           h == [g EXCEPT !.callbacks = put]
<1>1. DOMAIN g = Field
  BY DEF Sound, Books, Wallets
<1>2. schedule(g, time, cb) = h
  BY DEF schedule
<1>3. /\ DOMAIN put = DOMAIN g.callbacks \cup {time} /\ put[time] = Append(old, cb)
      /\ \A t \in DOMAIN g.callbacks : t # time => put[t] = g.callbacks[t]
  BY DEF Put
<1>4. old \in Seq(Event(g))
  BY DEF Sound, Agenda
<1> HIDE DEF put, old
<1>5. h.callbacks = put /\ DOMAIN h = Field /\ \A x \in Field \ {"callbacks"} : h[x] = g[x]
  BY <1>1 DEF Field
<1> HIDE DEF h
<1>6. AgendaStep(g, h)
  BY <1>5 DEF AgendaStep
<1>7. Append(old, cb) \in Seq(Event(g))
  BY <1>4, AppendProperties
<1>8. \A t \in DOMAIN h.callbacks : t \in Nat /\ h.callbacks[t] \in Seq(Event(g))
  BY <1>3, <1>5, <1>7 DEF Sound, Agenda
<1>9. EventStep(g, h)
  BY <1>6, <1>8, AgendaIsEvent
<1>10. Added(g.callbacks, h.callbacks, time, cb)
  BY <1>3, <1>5 DEF Added, old
<1>11. QED BY <1>2, <1>6, <1>9, <1>10

-----------------------------------------------------------------------------
(* Payouts *)

\* A sum over two sets that have nothing in common
LEMMA SumUnion ==
    ASSUME NEW S, IsFiniteSet(S), NEW R, IsFiniteSet(R), S \cap R = {},
           NEW f, \A x \in S \cup R : f[x] \in Int
    PROVE  Sum(f, S \cup R) = Sum(f, S) + Sum(f, R)
<1> DEFINE T == {s \in SUBSET R : Sum(f, S \cup s) = Sum(f, S) + Sum(f, s)}
<1>1. Sum(f, S) \in Int
  <2>1. PICK h : IsSum(h, f, S)
    BY SumExists
  <2>2. h[S] \in Int
    BY <2>1 DEF IsSum
  <2>3. Sum(f, S) = h[S]
    BY <2>1, SumIs
  <2>4. QED BY <2>2, <2>3
<1>2. {} \in T
  <2>1. Sum(f, {}) = 0 /\ S \cup {} = S
    BY SumEmpty
  <2>2. QED BY <1>1, <2>1
<1>3. ASSUME NEW s \in SUBSET R, s # {}, \A x \in s : s \ {x} \in T PROVE s \in T
  <2>1. PICK x \in s : TRUE
    BY <1>3
  <2>2. PICK A, B, C : A = S \cup s /\ B = s \ {x} /\ C = S \cup B
    OBVIOUS
  <2>3. C = A \ {x} /\ x \in A /\ IsFiniteSet(s) /\ IsFiniteSet(A)
    <3>1. IsFiniteSet(s)
      BY FS_Subset
    <3>2. IsFiniteSet(A)
      BY <2>2, <3>1, FS_Union
    <3>3. x \notin S
      BY <2>1
    <3>4. QED BY <2>2, <3>1, <3>2, <3>3
  <2>4. (\A y \in A : f[y] \in Int) /\ (\A y \in s : f[y] \in Int)
    BY <2>2
  <2>5. Sum(f, A) = f[x] + Sum(f, C) /\ Sum(f, C) \in Int
    BY <2>3, <2>4, SumSplit
  <2>6. Sum(f, s) = f[x] + Sum(f, B) /\ Sum(f, B) \in Int
    BY <2>1, <2>2, <2>3, <2>4, SumSplit
  <2>7. B \in T
    BY <1>3, <2>1, <2>2
  <2>8. Sum(f, C) = Sum(f, S) + Sum(f, B)
    BY <2>2, <2>7
  <2>9. f[x] \in Int
    BY <2>1, <2>4
  <2>10. Sum(f, A) = Sum(f, S) + Sum(f, s)
    BY ONLY <1>1, <2>5, <2>6, <2>8, <2>9
  <2>11. QED BY <2>2, <2>10
<1>4. R \in T
  <2> HIDE DEF T
  <2>1. QED BY <1>2, <1>3, FiniteInduction
<1>5. QED BY <1>4

Hash(g) == [p \in DOMAIN g.plants |-> compute_hashrate(g, p)]

\* A plant's hashrate is a number.
LEMMA HashFacts ==
    ASSUME NEW g, Sound(g)
    PROVE  /\ IsFiniteSet(DOMAIN g.plants)
           /\ \A p \in DOMAIN g.plants : Hash(g)[p] \in Nat
           /\ TotalHashrate(g) = Sum(Hash(g), DOMAIN g.plants) /\ TotalHashrate(g) \in Nat
           /\ \A e : HashrateOf(g, e) = Sum(Hash(g), PlantsOf(g, e))
           /\ \A e : HashrateOf(g, e) \in Nat
           /\ PlantOwner(g) \subseteq UserIds(g)
<1>1. DOMAIN g.plants \subseteq 1..g.alloc /\ g.alloc \in Nat
  BY DEF Sound, Registry, Holder, Books, Wallets
<1>2. IsFiniteSet(DOMAIN g.plants)
  <2>1. IsFiniteSet(1..g.alloc)
    BY <1>1, FS_Interval
  <2>2. QED BY <1>1, <2>1, FS_Subset
<1>3. \A p \in DOMAIN g.plants : Hash(g)[p] \in Nat
  <2>1. SUFFICES ASSUME NEW p \in DOMAIN g.plants PROVE compute_hashrate(g, p) \in Nat
    BY DEF Hash
  <2>2. asic \in DOMAIN g.bal
    BY DEF Sound, Books, Wallets, BaseToken
  <2>3. balance_check(g, asic, p) \in Nat /\ g.plants[p].watts \in Nat
    BY <2>2, BooksTypes DEF Sound, Registry
  <2>4. HashPerWatt \in Nat
    BY BoardAssumption
  <2>5. QED BY <2>3, <2>4 DEF compute_hashrate, Lesser
<1>4. TotalHashrate(g) = Sum(Hash(g), DOMAIN g.plants)
      /\ \A e : HashrateOf(g, e) = Sum(Hash(g), PlantsOf(g, e))
  BY DEF TotalHashrate, HashrateOf, Hash
<1>5. TotalHashrate(g) \in Nat
  BY <1>2, <1>3, <1>4, SumNat
<1>6. ASSUME NEW e PROVE HashrateOf(g, e) \in Nat
  <2>1. PlantsOf(g, e) \subseteq DOMAIN g.plants
    BY DEF PlantsOf
  <2>2. IsFiniteSet(PlantsOf(g, e)) /\ \A p \in PlantsOf(g, e) : Hash(g)[p] \in Nat
    BY <1>2, <1>3, <2>1, FS_Subset
  <2>3. QED BY <1>4, <2>2, SumNat
<1>7. PlantOwner(g) \subseteq UserIds(g)
  BY DEF PlantOwner, Sound, Registry
<1>8. QED BY <1>2, <1>3, <1>4, <1>5, <1>6, <1>7

\* An owner's share of the subsidy
LEMMA PayoutFacts ==
    ASSUME NEW g, Sound(g), TotalHashrate(g) # 0, NEW e
    PROVE  /\ payout(g, e) \in Nat
           /\ TotalHashrate(g) * payout(g, e) <= HashrateOf(g, e) * MiningSubsidy
<1> DEFINE T == TotalHashrate(g)
           H == HashrateOf(g, e)
           w == (H * 1024 * MiningSubsidy) \div T
           n == w \div 1024
<1>1. T \in Nat \ {0} /\ H \in Nat /\ MiningSubsidy \in Nat
  BY HashFacts, BoardAssumption
<1>2. payout(g, e) = n
  BY DEF payout
<1> HIDE DEF T, H
<1>3. PICK v \in Nat : v = H * MiningSubsidy
  BY <1>1
<1>4. H * 1024 * MiningSubsidy = 1024 * v
  BY <1>1, <1>3
<1>5. w \in Nat /\ T * w <= 1024 * v
  <2>1. 1024 * v \in Nat
    OBVIOUS
  <2>2. QED BY <1>1, <1>4, <2>1, Divide
<1> HIDE DEF w
<1>6. n \in Nat /\ 1024 * n <= w
  BY <1>5, Divide
<1> HIDE DEF n
<1>7. T * (1024 * n) <= T * w
  <2>1. 1024 * n \in Nat
    BY <1>6
  <2>2. QED BY <1>1, <1>5, <1>6, <2>1, Multiply
<1>8. T * n <= v
  <2>1. PICK m \in Nat : m = T * n
    BY <1>1, <1>6
  <2>2. T * (1024 * n) = 1024 * m /\ T * w \in Nat
    BY <1>1, <1>5, <1>6, <2>1
  <2>3. QED BY <1>5, <1>7, <2>1, <2>2
<1>9. QED BY <1>2, <1>3, <1>6, <1>8 DEF T, H

\* The owners are paid one after the other.
LEMMA PayOwnersUnfolds ==
    ASSUME NEW g, g.alloc \in Nat
    PROVE  \E f : /\ f[0] = g /\ PayOwners(g) = f[g.alloc]
                  /\ \A e \in 1..g.alloc :
                        f[e] = IF e \in PlantOwner(g)
                               THEN mint(f[e - 1], btc, e, payout(g, e)) ELSE f[e - 1]
<1> DEFINE Step(x, e) == IF e \in PlantOwner(g) THEN mint(x, btc, e, payout(g, e)) ELSE x
           Fold(f, n) == f = [e \in 0..n |-> IF e = 0 THEN g ELSE Step(f[e - 1], e)]
           T == {n \in Nat : \E f : Fold(f, n)}
<1>1. PayOwners(g) = (CHOOSE f : Fold(f, g.alloc))[g.alloc]
  BY DEF PayOwners
<1> HIDE DEF Step
<1>2. 0 \in T
  <2> DEFINE f == [e \in 0..0 |-> g]
  <2>1. Fold(f, 0)
    OBVIOUS
  <2>2. QED BY <2>1
<1>3. ASSUME NEW n \in Nat, n \in T PROVE n + 1 \in T
  <2>1. PICK f : Fold(f, n)
    BY <1>3
  <2> DEFINE k == [e \in 0..(n + 1) |-> IF e = n + 1 THEN Step(f[n], e) ELSE f[e]]
  <2>2. \A e \in 0..n : f[e] = IF e = 0 THEN g ELSE Step(f[e - 1], e)
    BY <2>1
  <2>3. ASSUME NEW e \in 0..(n + 1)
        PROVE  k[e] = IF e = 0 THEN g ELSE Step(k[e - 1], e)
    <3>1. CASE e = n + 1
      BY <3>1
    <3>2. CASE e # n + 1
      <4>1. e \in 0..n /\ (e # 0 => e - 1 \in 0..n /\ e - 1 # n + 1)
        BY <3>2
      <4>2. QED BY <2>2, <4>1
    <3>3. QED BY <3>1, <3>2
  <2>4. Fold(k, n + 1)
    <3>1. k = [e \in 0..(n + 1) |-> k[e]]
      OBVIOUS
    <3> HIDE DEF k
    <3>2. QED BY <2>3, <3>1
  <2> HIDE DEF k, Fold
  <2>5. QED BY <2>4
<1>4. \E f : Fold(f, g.alloc)
  <2>1. g.alloc \in T
    <3> HIDE DEF T
    <3>1. QED BY <1>2, <1>3, Induction
  <2>2. QED BY <2>1
<1>5. PICK f : Fold(f, g.alloc) /\ PayOwners(g) = f[g.alloc]
  <2> HIDE DEF Fold
  <2>1. QED BY <1>1, <1>4
<1>6. f[0] = g /\ \A e \in 1..g.alloc : f[e] = Step(f[e - 1], e)
  BY <1>5
<1>7. QED BY <1>5, <1>6 DEF Step

\* What a payout may do to the totals
Subsidized(g, h) ==
    /\ \A u \in DOMAIN g.bal \ {btc} : h.total[u] = g.total[u]
    /\ h.total[btc] - g.total[btc] \in 0..MiningSubsidy

\* The owners' hashrates and their total are numbers.
LEMMA TotalsAreNat ==
    ASSUME NEW g, Sound(g)
    PROVE  /\ btc \in DOMAIN g.bal
           /\ \A u \in DOMAIN g.bal : g.total[u] \in Nat
<1>1. btc \in DOMAIN g.bal /\ Wallets(g)
  BY DEF Sound, Books, Wallets, BaseToken
<1>2. QED BY <1>1, BalanceFacts

\* A mint to a player or a producer
LEMMA MintIsEvent ==
    ASSUME NEW g, Sound(g), NEW t \in DOMAIN g.bal, NEW e \in Holder(g), NEW n \in Nat
    PROVE  LET h == mint(g, t, e, n) IN
           /\ EventStep(g, h) /\ h.callbacks = g.callbacks /\ DOMAIN h.bal = DOMAIN g.bal
           /\ h.alloc = g.alloc
           /\ \A u \in DOMAIN g.bal : h.total[u] = g.total[u] + IF u = t THEN n ELSE 0
           /\ \A u \in DOMAIN g.bal : \A x :
                 balance_check(h, u, x) = balance_check(g, u, x) + IF u = t /\ x = e THEN n ELSE 0
<1> DEFINE h == mint(g, t, e, n)
<1>1. LedgerStep(g, h, {})
  BY MintStep DEF Sound
<1>2. e \in 1..g.alloc /\ Wallets(g)
  BY DEF Holder, Sound, Books
<1>3. /\ SameBut(g, h)
      /\ \A u \in DOMAIN g.bal : h.total[u] = g.total[u] + IF u = t THEN n ELSE 0
      /\ \A u \in DOMAIN g.bal : \A x :
            balance_check(h, u, x) = balance_check(g, u, x) + IF u = t /\ x = e THEN n ELSE 0
  BY <1>2, MintFacts
<1> HIDE DEF h
<1>4. EventStep(g, h) /\ h.callbacks = g.callbacks
  BY <1>1, LedgerIsEvent, LedgerKeeps
<1>5. DOMAIN h.bal = DOMAIN g.bal /\ h.alloc = g.alloc
  BY <1>3, SameButFacts
<1>6. QED BY <1>3, <1>4, <1>5 DEF h

\* All of it is done to the books, and no more than the subsidy is paid.
LEMMA PayOwnersFacts ==
    ASSUME NEW g, Sound(g), TotalHashrate(g) # 0
    PROVE  LET h == PayOwners(g) IN
           /\ EventStep(g, h) /\ h.callbacks = g.callbacks /\ Subsidized(g, h)
           /\ \A u \in DOMAIN g.bal : \A x : balance_check(g, u, x) <= balance_check(h, u, x)
<1> DEFINE Plants(n) == {p \in DOMAIN g.plants : g.nfts[p].owner \in 1..n}
           Rate(n) == Sum(Hash(g), Plants(n))
           Gain(x) == x.total[btc] - g.total[btc]
           All == TotalHashrate(g)
<1>1. g.alloc \in Nat /\ MiningSubsidy \in Nat /\ btc \in DOMAIN g.bal
      /\ \A u \in DOMAIN g.bal : g.total[u] \in Nat
  BY TotalsAreNat, BoardAssumption DEF Sound, Books, Wallets
<1>2. PICK f : /\ f[0] = g /\ PayOwners(g) = f[g.alloc]
               /\ \A e \in 1..g.alloc :
                     f[e] = IF e \in PlantOwner(g)
                            THEN mint(f[e - 1], btc, e, payout(g, e)) ELSE f[e - 1]
  BY <1>1, PayOwnersUnfolds
<1>3. /\ IsFiniteSet(DOMAIN g.plants) /\ \A p \in DOMAIN g.plants : Hash(g)[p] \in Nat
      /\ All = Sum(Hash(g), DOMAIN g.plants) /\ All \in Nat \ {0}
      /\ \A e : HashrateOf(g, e) = Sum(Hash(g), PlantsOf(g, e)) /\ HashrateOf(g, e) \in Nat
  BY HashFacts
<1>4. \A n : Plants(n) \subseteq DOMAIN g.plants
  OBVIOUS
<1>5. \A n : Rate(n) \in Nat
  <2>1. SUFFICES ASSUME NEW n PROVE Rate(n) \in Nat
    OBVIOUS
  <2>2. PICK s : s = Plants(n)
    OBVIOUS
  <2>3. IsFiniteSet(s) /\ \A p \in s : Hash(g)[p] \in Nat
    BY <1>3, <2>2, FS_Subset
  <2>4. Sum(Hash(g), s) \in Nat
    BY <2>3, SumNat
  <2>5. QED BY <2>2, <2>4
<1>6. ASSUME NEW n \in Nat PROVE Rate(n + 1) = Rate(n) + HashrateOf(g, n + 1)
  <2>1. PICK s, r : s = Plants(n) /\ r = PlantsOf(g, n + 1)
    OBVIOUS
  <2>2. s \cap r = {} /\ Plants(n + 1) = s \cup r /\ r \subseteq DOMAIN g.plants
        /\ s \subseteq DOMAIN g.plants
    BY <2>1 DEF PlantsOf
  <2>3. IsFiniteSet(s) /\ IsFiniteSet(r) /\ \A p \in s \cup r : Hash(g)[p] \in Int
    BY <1>3, <2>2, FS_Subset
  <2>4. Sum(Hash(g), s \cup r) = Sum(Hash(g), s) + Sum(Hash(g), r)
    BY <2>2, <2>3, SumUnion
  <2>5. QED BY <1>3, <2>1, <2>2, <2>4
<1>7. Rate(0) = 0 /\ Rate(g.alloc) = All
  <2>1. Plants(0) = {}
    OBVIOUS
  <2>2. Plants(g.alloc) = DOMAIN g.plants
    BY DEF Sound, Registry, UserIds, Holder
  <2>3. QED BY <1>3, <2>1, <2>2, SumEmpty
<1> HIDE DEF Rate, All
<1> DEFINE P(n) ==
        /\ EventStep(g, f[n]) /\ f[n].callbacks = g.callbacks
        /\ f[n].alloc = g.alloc /\ DOMAIN f[n].bal = DOMAIN g.bal
        /\ \A u \in DOMAIN g.bal \ {btc} : f[n].total[u] = g.total[u]
        /\ \A u \in DOMAIN g.bal : \A y : balance_check(g, u, y) <= balance_check(f[n], u, y)
        /\ Gain(f[n]) \in Nat /\ All * Gain(f[n]) <= Rate(n) * MiningSubsidy
    T == {n \in Nat : n <= g.alloc => P(n)}
<1>8. 0 \in T
  <2>1. EventStep(g, f[0])
    BY <1>2, EventStepRefl
  <2>2. Gain(f[0]) = 0 /\ All * 0 = 0 /\ Rate(0) * MiningSubsidy = 0
    BY <1>1, <1>2, <1>3, <1>7
  <2>3. \A u \in DOMAIN g.bal : \A y : balance_check(g, u, y) \in Nat
    BY BooksTypes DEF Sound
  <2>4. QED BY <1>2, <2>1, <2>2, <2>3
<1>9. ASSUME NEW n \in Nat, n \in T PROVE n + 1 \in T
  <2>1. SUFFICES ASSUME n + 1 <= g.alloc PROVE P(n + 1)
    OBVIOUS
  <2>2. P(n) /\ n + 1 \in 1..g.alloc /\ (n + 1) - 1 = n
    BY <1>1, <1>9, <2>1
  <2> DEFINE e == n + 1
             x == f[n]
             H == HashrateOf(g, e)
  <2>3. f[e] = IF e \in PlantOwner(g) THEN mint(x, btc, e, payout(g, e)) ELSE x
    BY <1>2, <2>2
  <2>4. Rate(e) = Rate(n) + H /\ H \in Nat /\ Rate(n) \in Nat
    BY <1>3, <1>5, <1>6
  <2>5. PICK a \in Nat, b \in Nat : a = Rate(n) * MiningSubsidy /\ b = H * MiningSubsidy
    BY <1>1, <2>4
  <2>6. Rate(e) * MiningSubsidy = a + b
    BY <1>1, <2>4, <2>5
  <2>7. CASE e \notin PlantOwner(g)
    <3>1. f[e] = x
      BY <2>3, <2>7
    <3>2. PICK c \in Nat : c = All * Gain(x)
      BY <1>3, <2>2
    <3>3. c <= a + b
      BY <2>2, <2>5, <3>2
    <3>4. QED BY <2>2, <2>6, <3>1, <3>2, <3>3
  <2>8. CASE e \in PlantOwner(g)
    <3> DEFINE pay == payout(g, e)
               h == mint(x, btc, e, pay)
    <3>1. pay \in Nat /\ All * pay <= b
      BY <2>5, PayoutFacts DEF All
    <3>2. Sound(x) /\ e \in Holder(x)
      <4>1. e \in UserIds(g)
        BY <2>8, HashFacts
      <4>2. e \in Holder(g)
        BY <4>1, OwnedFacts DEF Sound
      <4>3. QED BY <2>2, <4>2 DEF EventStep, Grows
    <3> HIDE DEF pay
    <3>3. /\ EventStep(x, h) /\ h.callbacks = x.callbacks /\ DOMAIN h.bal = DOMAIN x.bal
          /\ h.alloc = x.alloc
          /\ \A u \in DOMAIN x.bal : h.total[u] = x.total[u] + IF u = btc THEN pay ELSE 0
          /\ \A u \in DOMAIN x.bal : \A y :
                balance_check(h, u, y) = balance_check(x, u, y) + IF u = btc /\ y = e THEN pay ELSE 0
      BY <1>1, <2>2, <3>1, <3>2, MintIsEvent
    <3>4. f[e] = h
      BY <2>3, <2>8 DEF pay
    <3> HIDE DEF h
    <3>5. EventStep(g, h)
      BY <2>2, <3>3, EventStepTrans
    <3>6. /\ \A u \in DOMAIN g.bal : x.total[u] \in Nat /\ h.total[u] \in Nat
      <4>1. Sound(x) /\ Sound(h)
        BY <2>2, <3>3 DEF EventStep
      <4>2. QED BY <2>2, <3>3, <4>1, TotalsAreNat
    <3>7. \A u \in DOMAIN g.bal \ {btc} : h.total[u] = g.total[u]
      BY <2>2, <3>3, <3>6
    <3>8. Gain(h) = Gain(x) + pay
      BY <1>1, <2>2, <3>1, <3>3, <3>6
    <3>9. All * Gain(h) <= a + b /\ Gain(h) \in Nat
      <4>1. PICK y \in Nat : y = Gain(x)
        BY <2>2
      <4>2. All * y <= a /\ Gain(h) = y + pay
        BY <2>2, <2>5, <3>8, <4>1
      <4>3. All * (y + pay) = All * y + All * pay /\ All * y \in Nat /\ All * pay \in Nat
        BY <1>3, <3>1, <4>1
      <4>4. QED BY <3>1, <4>1, <4>2, <4>3
    <3>10. \A u \in DOMAIN g.bal : \A y : balance_check(g, u, y) <= balance_check(h, u, y)
      <4>1. \A u \in DOMAIN g.bal : \A y :
               balance_check(g, u, y) \in Nat /\ balance_check(x, u, y) \in Nat
        BY <2>2, <3>2, BooksTypes DEF Sound
      <4>2. QED BY <2>2, <3>1, <3>3, <4>1
    <3>11. QED BY <2>2, <2>6, <3>3, <3>4, <3>5, <3>7, <3>9, <3>10
  <2>9. QED BY <2>7, <2>8
<1>10. P(g.alloc)
  <2>1. g.alloc \in T
    <3> HIDE DEF T
    <3>1. QED BY <1>1, <1>8, <1>9, Induction
  <2>2. QED BY <1>1, <2>1
<1>11. Gain(f[g.alloc]) \in 0..MiningSubsidy
  <2>0. Gain(f[g.alloc]) \in Nat /\ All * Gain(f[g.alloc]) <= Rate(g.alloc) * MiningSubsidy
    BY ONLY <1>10
  <2>1. PICK y : y = Gain(f[g.alloc])
    OBVIOUS
  <2>2. y \in Nat /\ All * y <= All * MiningSubsidy
    BY ONLY <1>7, <2>0, <2>1
  <2>3. y <= MiningSubsidy
    <3>1. SUFFICES ASSUME MiningSubsidy + 1 <= y PROVE FALSE
      BY <1>1, <2>2
    <3>2. All * (MiningSubsidy + 1) <= All * y
      <4>1. MiningSubsidy + 1 \in Nat /\ y \in Nat /\ All \in Nat
        BY ONLY <1>1, <1>3, <2>2
      <4>2. QED BY ONLY <3>1, <4>1, Multiply
    <3>3. All * (MiningSubsidy + 1) = All * MiningSubsidy + All
          /\ All * MiningSubsidy \in Nat /\ All * y \in Nat
      BY <1>1, <1>3, <2>2
    <3>4. QED BY <1>3, <2>2, <3>2, <3>3
  <2>4. QED BY <1>1, <2>1, <2>2, <2>3
<1>12. QED BY <1>2, <1>10, <1>11 DEF Subsidized

-----------------------------------------------------------------------------
(* The events *)

Conserves(g, h) == \A u \in DOMAIN g.bal : h.total[u] = g.total[u]

\* What the fields of an event may be
LEMMA EventFacts ==
    ASSUME NEW g, Sound(g), NEW cb \in Event(g)
    PROVE  /\ cb.kind \in ProducerKind \cup {"payout", "lockup"}
           /\ cb.kind = "lockup" => /\ cb.id \in Lockup(g) /\ cb.id \in Holder(g)
                                    /\ cb.asset \in DOMAIN g.bal /\ cb.id \notin Owned(g)
           /\ cb.kind \in ProducerKind =>
                 /\ cb.id \in Holder(g) \ (UserIds(g) \cup DOMAIN g.nfts)
                 /\ cb.id \notin Owned(g)
                 /\ cb.asset \in DOMAIN g.bal /\ cb.asset \in BaseToken \ {btc}
                 /\ cb.first \in BOOLEAN
                 /\ [cb EXCEPT !.first = FALSE] \in Event(g)
                 /\ [cb EXCEPT !.first = FALSE].kind = cb.kind
                 /\ [cb EXCEPT !.first = FALSE].first = FALSE
                 /\ [cb EXCEPT !.first = FALSE].id = cb.id
                 /\ [cb EXCEPT !.first = FALSE].asset = cb.asset
                 /\ <<cb.kind, cb.asset>> \in {<<"asic", asic>>, <<"steel", steel>>,
                        <<"silicon", silicon>>, <<"concrete", concrete>>}
<1>1. BaseToken \subseteq DOMAIN g.bal /\ DOMAIN g.plants \subseteq DOMAIN g.nfts
      /\ \A n \in DOMAIN g.nfts : n \in Holder(g) \ UserIds(g)
  BY DEF Sound, Books, Wallets, Registry
<1>2. CASE cb \in [kind : {"payout"}]
  BY <1>2 DEF ProducerKind
<1>3. CASE cb \in [kind : {"lockup"}, id : Lockup(g), asset : DOMAIN g.bal]
  BY <1>1, <1>3 DEF ProducerKind, Lockup, Owned
<1>4. CASE /\ cb \in [kind : ProducerKind, asset : BaseToken \ {btc},
                      id : Holder(g) \ (UserIds(g) \cup DOMAIN g.nfts), first : BOOLEAN]
           /\ <<cb.kind, cb.asset>> \in {<<"asic", asic>>, <<"steel", steel>>,
                        <<"silicon", silicon>>, <<"concrete", concrete>>}
  <2> DEFINE db == [cb EXCEPT !.first = FALSE]
  <2>1. db \in [kind : ProducerKind, asset : BaseToken \ {btc},
                id : Holder(g) \ (UserIds(g) \cup DOMAIN g.nfts), first : BOOLEAN]
        /\ db.kind = cb.kind /\ db.asset = cb.asset /\ db.id = cb.id /\ db.first = FALSE
    BY ONLY <1>4
  <2> HIDE DEF db
  <2>2. db \in Event(g)
    BY <1>4, <2>1 DEF Event
  <2>3. cb.kind # "lockup" /\ cb.kind \in ProducerKind /\ cb.first \in BOOLEAN
        /\ cb.id \in Holder(g) \ (UserIds(g) \cup DOMAIN g.nfts)
        /\ cb.asset \in BaseToken \ {btc}
    BY <1>4 DEF ProducerKind
  <2>4. cb.id \notin Owned(g) /\ cb.asset \in DOMAIN g.bal
    BY <1>1, <2>3 DEF Owned
  <2>5. QED BY <1>4, <2>1, <2>2, <2>3, <2>4 DEF db
<1>5. QED BY <1>2, <1>3, <1>4 DEF Event

\* A payout, which schedules the next one
LEMMA PowerPlantFacts ==
    ASSUME NEW g, Sound(g), NEW cb \in Event(g), cb.kind = "payout"
    PROVE  LET h == PowerPlantEvent(g, cb) IN
           /\ EventStep(g, h) /\ Subsidized(g, h)
           /\ Added(g.callbacks, h.callbacks, g.elapsed + Period.payout, cb)
           /\ \A u \in DOMAIN g.bal : \A x : balance_check(g, u, x) <= balance_check(h, u, x)
<1> DEFINE p == IF TotalHashrate(g) = 0 THEN g ELSE PayOwners(g)
           time == g.elapsed + Period.payout
           h == schedule(p, time, cb)
<1>1. \A u \in DOMAIN g.bal : g.total[u] \in Nat /\ \A x : balance_check(g, u, x) \in Nat
  BY TotalsAreNat, BooksTypes DEF Sound
<1>2. /\ EventStep(g, p) /\ p.callbacks = g.callbacks /\ Subsidized(g, p)
      /\ \A u \in DOMAIN g.bal : \A x : balance_check(g, u, x) <= balance_check(p, u, x)
  <2>1. CASE TotalHashrate(g) = 0
    <3>1. EventStep(g, g) /\ btc \in DOMAIN g.bal /\ MiningSubsidy \in Nat
      BY EventStepRefl, TotalsAreNat, BoardAssumption
    <3>2. QED BY <1>1, <2>1, <3>1 DEF Subsidized
  <2>2. CASE TotalHashrate(g) # 0
    BY <2>2, PayOwnersFacts
  <2>3. QED BY <2>1, <2>2
<1> HIDE DEF p
<1>3. time \in Nat /\ Sound(p) /\ cb \in Event(p)
  <2>1. Sound(p) /\ Registry(g) /\ Kept(g, p) /\ Grows(g, p)
    BY <1>2 DEF EventStep, Sound
  <2>2. cb \in Event(p)
    BY <2>1, RegistryKept
  <2>3. g.elapsed \in Nat /\ Period.payout \in Nat
    BY <2>1, BoardAssumption DEF Registry
  <2>4. QED BY <2>1, <2>2, <2>3
<1>4. h = PowerPlantEvent(g, cb)
  BY DEF PowerPlantEvent, p
<1> HIDE DEF time
<1>5. /\ EventStep(p, h) /\ AgendaStep(p, h)
      /\ Added(p.callbacks, h.callbacks, time, cb)
  BY <1>3, ScheduleFacts
<1> HIDE DEF h
<1>6. EventStep(g, h)
  BY <1>2, <1>5, EventStepTrans
<1>7. h.total = p.total /\ \A u, x : balance_check(h, u, x) = balance_check(p, u, x)
  BY <1>3, <1>5, AgendaStepFacts DEF Sound
<1>8. Added(g.callbacks, h.callbacks, time, cb)
  BY <1>2, <1>5
<1>9. Subsidized(g, h)
  BY <1>2, <1>7 DEF Subsidized
<1>10. QED BY <1>2, <1>4, <1>6, <1>7, <1>8, <1>9 DEF time

\* What a producer's work may take
Works(g, h, cb) ==
    /\ EventStep(g, h) /\ h.callbacks = g.callbacks
    /\ \A u \in DOMAIN g.bal : \A x \in Holder(g) :
          x # cb.id \/ u \notin {cb.asset, btc} =>
              balance_check(g, u, x) <= balance_check(h, u, x)
Stock(g, cb) == balance_check(g, cb.asset, cb.id)

\* Its market opens.
LEMMA OpenMarketFacts ==
    ASSUME NEW g, Sound(g), NEW cb \in Event(g), cb.kind \in ProducerKind
    PROVE  LET h == open_market(g, cb) IN
           Works(g, h, cb) /\ (TotalUnits > 0 => Stock(h, cb) > 0)
<1> DEFINE start == TotalUnits \div 10
           base == BasePrice * start
           id == cb.id
           t == cb.asset
           m1 == mint(g, t, id, TotalUnits)
           m2 == mint(m1, btc, id, base)
           h == deposit(m2, <<t, btc>>, start, base, id)
<1>1. /\ id \in Holder(g) /\ id \notin Owned(g) /\ t \in DOMAIN g.bal /\ t # btc
  BY EventFacts
<1>2. /\ TotalUnits \in Nat /\ BasePrice \in Nat /\ btc \in DOMAIN g.bal
  BY BoardAssumption, TotalsAreNat
<1>3. start \in Nat /\ 10 * start <= TotalUnits /\ base \in Nat
  BY <1>2, Divide
<1>4. \A u \in DOMAIN g.bal : \A x : balance_check(g, u, x) \in Nat
  BY BooksTypes DEF Sound
<1>5. open_market(g, cb) = h
  BY DEF open_market
<1> HIDE DEF start, base, id, t
<1>6. /\ EventStep(g, m1) /\ m1.callbacks = g.callbacks /\ DOMAIN m1.bal = DOMAIN g.bal
      /\ \A u \in DOMAIN g.bal : \A x :
            balance_check(m1, u, x) =
                balance_check(g, u, x) + IF u = t /\ x = id THEN TotalUnits ELSE 0
  BY <1>1, <1>2, MintIsEvent
<1> HIDE DEF m1
<1>7. Sound(m1) /\ id \in Holder(m1) /\ btc \in DOMAIN m1.bal
  BY <1>1, <1>2, <1>6 DEF EventStep, Grows
<1>8. /\ EventStep(m1, m2) /\ m2.callbacks = m1.callbacks /\ DOMAIN m2.bal = DOMAIN m1.bal
      /\ \A u \in DOMAIN m1.bal : \A x :
            balance_check(m2, u, x) =
                balance_check(m1, u, x) + IF u = btc /\ x = id THEN base ELSE 0
  BY <1>3, <1>7, MintIsEvent
<1> HIDE DEF m2
<1>9. EventStep(g, m2)
  BY <1>6, <1>8, EventStepTrans
<1>10. Sound(m2) /\ Books(m2) /\ id \in Holder(m2) /\ Holder(g) \subseteq Holder(m2)
       /\ Owned(m2) = Owned(g)
  <2>1. Sound(m2) /\ Kept(g, m2) /\ Grows(g, m2) /\ Registry(g)
    BY <1>9 DEF EventStep, Sound
  <2>2. Owned(m2) = Owned(g)
    BY <2>1, RegistryKept
  <2>3. QED BY <1>1, <2>1, <2>2 DEF Grows, Sound
<1>11. /\ LedgerStep(m2, h, {id})
       /\ \A u \in DOMAIN m2.bal :
             balance_check(m2, u, id)
                 <= balance_check(h, u, id) + (IF u = t THEN start ELSE 0)
                                            + (IF u = btc THEN base ELSE 0)
  <2> DEFINE pair == <<t, btc>>
  <2>1. pair \in (DOMAIN m2.bal) \X (DOMAIN m2.bal) /\ pair[1] = t /\ pair[2] = btc
    BY <1>1, <1>2, <1>6, <1>8
  <2> HIDE DEF pair
  <2>2. QED BY <1>1, <1>3, <1>10, <2>1, DepositFacts DEF h, pair
<1> HIDE DEF h
<1>12. EventStep(m2, h) /\ h.callbacks = m2.callbacks
  BY <1>1, <1>10, <1>11, LedgerIsEvent, LedgerKeeps
<1>13. EventStep(g, h) /\ h.callbacks = g.callbacks
  BY <1>6, <1>8, <1>9, <1>12, EventStepTrans
<1>14. \A u \in DOMAIN g.bal : \A x : balance_check(m2, u, x) =
           balance_check(g, u, x) + (IF u = t /\ x = id THEN TotalUnits ELSE 0)
                                  + (IF u = btc /\ x = id THEN base ELSE 0)
  BY <1>6, <1>8
<1>15. \A u \in DOMAIN g.bal : \A x : balance_check(h, u, x) \in Nat
  <2>1. Books(h) /\ DOMAIN g.bal \subseteq DOMAIN h.bal
    BY <1>13 DEF EventStep, Sound, Grows
  <2>2. QED BY <2>1, BooksTypes
<1>16. ASSUME NEW u \in DOMAIN g.bal, NEW x \in Holder(g), x # id \/ u \notin {t, btc}
       PROVE  balance_check(g, u, x) <= balance_check(h, u, x)
  <2>1. balance_check(m2, u, x) = balance_check(g, u, x)
    BY <1>4, <1>14, <1>16
  <2>2. balance_check(m2, u, x) <= balance_check(h, u, x)
    <3>1. CASE x # id
      BY <1>6, <1>8, <1>10, <1>11, <3>1 DEF LedgerStep, Takes
    <3>2. CASE x = id /\ u \notin {t, btc}
      BY <1>6, <1>8, <1>11, <1>15, <3>2
    <3>3. QED BY <1>16, <3>1, <3>2
  <2>3. QED BY <2>1, <2>2
<1>17. ASSUME TotalUnits > 0 PROVE balance_check(h, t, id) > 0
  <2>1. balance_check(m2, t, id) = balance_check(g, t, id) + TotalUnits
    BY <1>1, <1>2, <1>3, <1>4, <1>14
  <2>2. balance_check(m2, t, id) <= balance_check(h, t, id) + start
    BY <1>1, <1>3, <1>6, <1>8, <1>11, <1>15
  <2>3. balance_check(g, t, id) \in Nat /\ balance_check(h, t, id) \in Nat
    BY <1>1, <1>4, <1>15
  <2>4. QED BY <1>2, <1>3, <1>17, <2>1, <2>2, <2>3
<1>18. QED BY <1>5, <1>13, <1>16, <1>17 DEF Works, Stock, t, id

\* SellHundredth takes at most a hundredth of the producer's stock, and that from
\* the producer alone.
LEMMA SellHundredthFacts ==
    ASSUME NEW g, Sound(g), NEW cb \in Event(g), cb.kind \in ProducerKind
    PROVE  LET h == SellHundredth(g, cb) IN
           Works(g, h, cb) /\ Conserves(g, h) /\ (Stock(g, cb) > 0 => Stock(h, cb) > 0)
<1> DEFINE id == cb.id
           t == cb.asset
           n == balance_check(g, t, id) \div 100
           pair == <<t, btc>>
           o == do_sell_trade(g, pair, n, 0, NoCap, FALSE, id)
           h == o.game
<1>1. /\ id \in Holder(g) /\ id \notin Owned(g) /\ t \in DOMAIN g.bal /\ t # btc
      /\ btc \in DOMAIN g.bal /\ Books(g)
  BY EventFacts, TotalsAreNat DEF Sound
<1>2. \A u \in DOMAIN g.bal : \A x : balance_check(g, u, x) \in Nat
  BY BooksTypes DEF Sound
<1>3. n \in Nat /\ 100 * n <= balance_check(g, t, id)
  BY <1>1, <1>2, Divide
<1>4. SellHundredth(g, cb) = h
  BY DEF SellHundredth
<1>5. pair \in (DOMAIN g.bal) \X (DOMAIN g.bal) /\ pair[1] = t /\ pair[2] = btc
  BY <1>1
<1> HIDE DEF n, pair, t, id
<1>6. Dealt(g, o, id)
  <2>1. 0 \in Nat /\ TRUE \in BOOLEAN /\ FALSE \in BOOLEAN
    OBVIOUS
  <2>2. Dealt(g, DoTrade(g, pair, n, 0, TRUE, NoCap, FALSE, id), id)
    BY <1>1, <1>3, <1>5, <2>1, TradeFacts
  <2>3. QED BY <2>2 DEF do_sell_trade
<1>7. \A u \in DOMAIN g.bal :
         balance_check(g, u, id) <= balance_check(h, u, id) + (IF u = t THEN n ELSE 0)
  <2>1. pair[1] # pair[2]
    BY <1>1, <1>5
  <2>2. \A u \in DOMAIN g.bal : balance_check(g, u, id)
              <= balance_check(do_sell_trade(g, pair, n, 0, NoCap, FALSE, id).game, u, id)
                   + (IF u = pair[1] THEN n ELSE 0)
    BY <1>1, <1>3, <1>5, <2>1, SaleTakes
  <2>3. QED BY <1>5, <2>2
<1> HIDE DEF o
<1>8. LedgerStep(g, h, {id}) /\ Conserves(g, h)
  BY <1>6 DEF Dealt, Conserves
<1> HIDE DEF h
<1>9. EventStep(g, h) /\ h.callbacks = g.callbacks
  BY <1>1, <1>8, LedgerIsEvent, LedgerKeeps
<1>10. \A u \in DOMAIN g.bal : balance_check(h, u, id) \in Nat
  <2>1. Books(h) /\ DOMAIN g.bal \subseteq DOMAIN h.bal
    BY <1>9 DEF EventStep, Sound, Grows
  <2>2. QED BY <2>1, BooksTypes
<1>11. ASSUME NEW u \in DOMAIN g.bal, NEW x \in Holder(g), x # id \/ u \notin {t, btc}
       PROVE  balance_check(g, u, x) <= balance_check(h, u, x)
  <2>1. CASE x # id
    BY <1>8, <2>1 DEF LedgerStep, Takes
  <2>2. CASE x = id /\ u \notin {t, btc}
    BY <1>7, <1>10, <2>2
  <2>3. QED BY <1>11, <2>1, <2>2
<1>12. ASSUME balance_check(g, t, id) > 0 PROVE balance_check(h, t, id) > 0
  <2>1. balance_check(g, t, id) <= balance_check(h, t, id) + n
    BY <1>1, <1>3, <1>7, <1>10
  <2>2. balance_check(g, t, id) \in Nat /\ balance_check(h, t, id) \in Nat
    BY <1>1, <1>2, <1>10
  <2>3. QED BY <1>3, <1>12, <2>1, <2>2
<1>13. QED BY <1>4, <1>8, <1>9, <1>11, <1>12 DEF Works, Stock, t, id

\* A producer that does nothing takes nothing.
LEMMA WorksRefl ==
    ASSUME NEW g, Sound(g), NEW cb
    PROVE  Works(g, g, cb) /\ Conserves(g, g)
<1>1. \A u \in DOMAIN g.bal : \A x : balance_check(g, u, x) \in Nat
  BY BooksTypes DEF Sound
<1>2. QED BY <1>1, EventStepRefl DEF Works, Conserves

\* A producer's steps, one after the other
LEMMA WorksTrans ==
    ASSUME NEW g, Sound(g), NEW cb, NEW h, NEW k, Works(g, h, cb), Works(h, k, cb)
    PROVE  Works(g, k, cb)
<1>1. EventStep(g, k) /\ k.callbacks = g.callbacks
  BY EventStepTrans DEF Works
<1>2. ASSUME NEW u \in DOMAIN g.bal, NEW x \in Holder(g),
             x # cb.id \/ u \notin {cb.asset, btc}
      PROVE  balance_check(g, u, x) <= balance_check(k, u, x)
  <2>1. u \in DOMAIN h.bal /\ u \in DOMAIN k.bal /\ x \in Holder(h) /\ Books(h) /\ Books(k)
        /\ Books(g)
    BY <1>1 DEF Works, EventStep, Grows, Sound
  <2>2. /\ balance_check(g, u, x) \in Nat /\ balance_check(h, u, x) \in Nat
        /\ balance_check(k, u, x) \in Nat
    BY <2>1, BooksTypes
  <2>3. /\ balance_check(g, u, x) <= balance_check(h, u, x)
        /\ balance_check(h, u, x) <= balance_check(k, u, x)
    BY <1>2, <2>1 DEF Works
  <2>4. QED BY <2>2, <2>3
<1>3. QED BY <1>1, <1>2 DEF Works

\* The event of a producer, not the first
Again(cb) == [cb EXCEPT !.first = FALSE]

\* A producer's turn
Produced(g, h, cb) ==
    /\ EventStep(g, h)
    /\ \A u \in DOMAIN g.bal : \A x \in Holder(g) :
          x # cb.id \/ u \notin {cb.asset, btc} =>
              balance_check(g, u, x) <= balance_check(h, u, x)
    /\ ~cb.first => Conserves(g, h)
    /\ \/ h.callbacks = g.callbacks
       \/ Added(g.callbacks, h.callbacks, g.elapsed + Period[cb.kind], Again(cb))
    /\ (IF cb.first THEN TotalUnits > 0 ELSE Stock(g, cb) > 0) =>
          /\ Stock(h, cb) > 0
          /\ Added(g.callbacks, h.callbacks, g.elapsed + Period[cb.kind], Again(cb))

\* A producer's event takes from the producer alone and leaves it something; it
\* mints only when it is its first.
LEMMA ProducerFacts ==
    ASSUME NEW g, Sound(g), NEW cb \in Event(g), cb.kind \in ProducerKind
    PROVE  Produced(g, Producer(g, cb), cb)
<1> DEFINE o == IF cb.first THEN open_market(g, cb) ELSE g
           s == SellHundredth(o, cb)
           time == s.elapsed + Period[cb.kind]
           h == IF Stock(s, cb) = 0 THEN s ELSE schedule(s, time, Again(cb))
<1>1. h = Producer(g, cb)
  BY DEF Producer, Renew, Stock, Again
<1>2. /\ Works(g, o, cb) /\ (~cb.first => Conserves(g, o))
      /\ (IF cb.first THEN TotalUnits > 0 ELSE Stock(g, cb) > 0) => Stock(o, cb) > 0
  <2>1. CASE cb.first
    BY <2>1, OpenMarketFacts
  <2>2. CASE ~cb.first
    BY <2>2, WorksRefl
  <2>3. QED BY <2>1, <2>2
<1> HIDE DEF o
<1>3. Sound(o) /\ cb \in Event(o) /\ Kept(g, o) /\ DOMAIN g.bal \subseteq DOMAIN o.bal
  <2>1. Sound(o) /\ Registry(g) /\ Kept(g, o) /\ Grows(g, o)
    BY <1>2 DEF Works, EventStep, Sound
  <2>2. QED BY <2>1, RegistryKept DEF Grows
<1>4. Works(o, s, cb) /\ Conserves(o, s) /\ (Stock(o, cb) > 0 => Stock(s, cb) > 0)
  BY <1>3, SellHundredthFacts
<1> HIDE DEF s
<1>5. Works(g, s, cb)
  BY <1>2, <1>4, WorksTrans
<1>6. ~cb.first => Conserves(g, s)
  BY <1>2, <1>3, <1>4 DEF Conserves
<1>7. /\ Sound(s) /\ EventStep(g, s) /\ s.callbacks = g.callbacks /\ s.elapsed = g.elapsed
      /\ cb \in Event(s)
  <2>1. Sound(s) /\ EventStep(g, s) /\ Registry(g) /\ Kept(g, s) /\ Grows(g, s)
        /\ s.callbacks = g.callbacks
    BY <1>5 DEF Works, EventStep, Sound
  <2>2. QED BY <2>1, RegistryKept DEF Kept
<1>8. time \in Nat
  <2>1. s.elapsed \in Nat
    BY <1>7 DEF Sound, Registry
  <2>2. Period[cb.kind] \in Nat
    BY BoardAssumption DEF ProducerKind
  <2>3. QED BY <2>1, <2>2
<1>9. CASE Stock(s, cb) = 0
  <2>1. h = s
    BY <1>9
  <2>2. ~(Stock(s, cb) > 0)
    BY <1>9
  <2> HIDE DEF h
  <2>3. Produced(g, h, cb)
    BY <1>2, <1>4, <1>5, <1>6, <1>7, <2>1, <2>2 DEF Produced, Works
  <2>4. QED BY <1>1, <2>3
<1>10. CASE Stock(s, cb) # 0
  <2>1. h = schedule(s, time, Again(cb))
    BY <1>10
  <2>2. Again(cb) \in Event(s)
    BY <1>7, EventFacts DEF Again
  <2> HIDE DEF h
  <2>3. /\ EventStep(s, h) /\ AgendaStep(s, h)
        /\ Added(s.callbacks, h.callbacks, time, Again(cb))
    BY <1>7, <1>8, <2>1, <2>2, ScheduleFacts
  <2>4. EventStep(g, h)
    BY <1>7, <2>3, EventStepTrans
  <2>5. h.total = s.total /\ \A u, x : balance_check(h, u, x) = balance_check(s, u, x)
    BY <1>7, <2>3, AgendaStepFacts DEF Sound
  <2>6. Added(g.callbacks, h.callbacks, g.elapsed + Period[cb.kind], Again(cb))
    BY <1>7, <2>3
  <2>7. Produced(g, h, cb)
    BY <1>2, <1>4, <1>5, <1>6, <2>4, <2>5, <2>6 DEF Produced, Works, Conserves, Stock
  <2>8. QED BY <1>1, <2>7
<1>11. QED BY <1>9, <1>10

\* A lockup's coins go to its owner.
LEMMA ReleaseFacts ==
    ASSUME NEW g, Sound(g), NEW cb \in Event(g), cb.kind = "lockup"
    PROVE  LET h == release_lockup(g, cb) IN
           /\ EventStep(g, h) /\ Conserves(g, h) /\ h.callbacks = g.callbacks
           /\ \A u \in DOMAIN g.bal : \A x \in Holder(g) \ {cb.id} :
                 balance_check(g, u, x) <= balance_check(h, u, x)
<1> DEFINE to == g.nfts[cb.id].owner
           n == balance_check(g, cb.asset, cb.id)
           h == transfer(g, cb.asset, cb.id, to, n)
<1>1. /\ cb.id \in Lockup(g) /\ cb.id \in Holder(g) /\ cb.id \notin Owned(g)
      /\ cb.asset \in DOMAIN g.bal
  BY EventFacts
<1>2. to \in Holder(g)
  <2>1. to \in UserIds(g)
    BY <1>1 DEF Lockup, Sound, Registry
  <2>2. QED BY <2>1, OwnedFacts DEF Sound
<1>3. n \in Nat /\ Books(g)
  BY <1>1, BooksTypes DEF Sound
<1>4. release_lockup(g, cb) = h
  BY DEF release_lockup
<1> HIDE DEF to, n
<1>5. LedgerStep(g, h, {cb.id})
  BY <1>1, <1>2, <1>3, TransferStep
<1>6. Conserves(g, h)
  <2>1. cb.id \in 1..g.alloc /\ to \in 1..g.alloc /\ Wallets(g)
    BY <1>1, <1>2, <1>3 DEF Holder, Books
  <2>2. QED BY <1>1, <1>3, <2>1, TransferFacts DEF Conserves
<1> HIDE DEF h
<1>7. EventStep(g, h) /\ h.callbacks = g.callbacks
  BY <1>1, <1>5, LedgerIsEvent, LedgerKeeps
<1>8. QED BY <1>4, <1>5, <1>6, <1>7 DEF LedgerStep, Takes

\* What each event does
Acts(g, h, cb) ==
    /\ EventStep(g, h)
    /\ cb.kind = "payout" =>
          /\ Subsidized(g, h)
          /\ Added(g.callbacks, h.callbacks, g.elapsed + Period.payout, cb)
    /\ cb.kind = "lockup" => Conserves(g, h) /\ h.callbacks = g.callbacks
    /\ cb.kind \in ProducerKind => Produced(g, h, cb)
    /\ \A u \in DOMAIN g.bal : \A x \in Holder(g) :
          \/ cb.kind = "payout"
          \/ cb.kind = "lockup" /\ x # cb.id
          \/ cb.kind \in ProducerKind /\ (x # cb.id \/ u \notin {cb.asset, btc})
          => balance_check(g, u, x) <= balance_check(h, u, x)

\* action: what each kind of event does to the board
LEMMA ActionFacts ==
    ASSUME NEW g, Sound(g), NEW cb \in Event(g)
    PROVE  Acts(g, action(g, cb), cb)
<1>1. cb.kind \in ProducerKind \cup {"payout", "lockup"}
  BY EventFacts
<1>2. CASE cb.kind = "payout"
  <2>1. action(g, cb) = PowerPlantEvent(g, cb)
    BY <1>2 DEF action
  <2>2. cb.kind # "lockup" /\ cb.kind \notin ProducerKind
    BY <1>2 DEF ProducerKind
  <2>3. QED BY <1>2, <2>1, <2>2, PowerPlantFacts DEF Acts
<1>3. CASE cb.kind = "lockup"
  <2>1. action(g, cb) = release_lockup(g, cb)
    BY <1>3 DEF action
  <2>2. cb.kind # "payout" /\ cb.kind \notin ProducerKind
    BY <1>3 DEF ProducerKind
  <2>3. QED BY <1>3, <2>1, <2>2, ReleaseFacts DEF Acts
<1>4. CASE cb.kind \in ProducerKind
  <2>1. action(g, cb) = Producer(g, cb)
    BY <1>4 DEF action, ProducerKind, ASICProducer, SteelSmelter, SiliconRefinery,
                ConcreteMiller
  <2>2. cb.kind # "payout" /\ cb.kind # "lockup"
    BY <1>4 DEF ProducerKind
  <2>3. Produced(g, action(g, cb), cb)
    BY <1>4, <2>1, ProducerFacts
  <2>4. QED BY <1>4, <2>2, <2>3 DEF Acts, Produced
<1>5. QED BY <1>1, <1>2, <1>3, <1>4

-----------------------------------------------------------------------------
(* A run of the events due *)

\* The events of one time are performed one after the other.
Performs(g, cbs, f) ==
    /\ f[0] = g /\ Perform(g, cbs) = f[Len(cbs)]
    /\ \A i \in 1..Len(cbs) : f[i] = action(f[i - 1], cbs[i])

\* Perform is the last of the boards that its events lead to, one after the
\* other.
LEMMA PerformUnfolds ==
    ASSUME NEW g, NEW cbs, Len(cbs) \in Nat
    PROVE  \E f : Performs(g, cbs, f)
<1> DEFINE Step(x, i) == action(x, cbs[i])
           Fold(f, n) == f = [i \in 0..n |-> IF i = 0 THEN g ELSE Step(f[i - 1], i)]
           T == {n \in Nat : \E f : Fold(f, n)}
<1>1. Perform(g, cbs) = (CHOOSE f : Fold(f, Len(cbs)))[Len(cbs)]
  BY DEF Perform
<1> HIDE DEF Step
<1>2. 0 \in T
  <2> DEFINE f == [i \in 0..0 |-> g]
  <2>1. Fold(f, 0)
    OBVIOUS
  <2>2. QED BY <2>1
<1>3. ASSUME NEW n \in Nat, n \in T PROVE n + 1 \in T
  <2>1. PICK f : Fold(f, n)
    BY <1>3
  <2> DEFINE k == [i \in 0..(n + 1) |-> IF i = n + 1 THEN Step(f[n], i) ELSE f[i]]
  <2>2. \A i \in 0..n : f[i] = IF i = 0 THEN g ELSE Step(f[i - 1], i)
    BY <2>1
  <2>3. ASSUME NEW i \in 0..(n + 1)
        PROVE  k[i] = IF i = 0 THEN g ELSE Step(k[i - 1], i)
    <3>1. CASE i = n + 1
      BY <3>1
    <3>2. CASE i # n + 1
      <4>1. i \in 0..n /\ (i # 0 => i - 1 \in 0..n /\ i - 1 # n + 1)
        BY <3>2
      <4>2. QED BY <2>2, <4>1
    <3>3. QED BY <3>1, <3>2
  <2>4. Fold(k, n + 1)
    <3>1. k = [i \in 0..(n + 1) |-> k[i]]
      OBVIOUS
    <3> HIDE DEF k
    <3>2. QED BY <2>3, <3>1
  <2> HIDE DEF k, Fold
  <2>5. QED BY <2>4
<1>4. \E f : Fold(f, Len(cbs))
  <2>1. Len(cbs) \in T
    <3> HIDE DEF T
    <3>1. QED BY <1>2, <1>3, Induction
  <2>2. QED BY <2>1
<1>5. PICK f : Fold(f, Len(cbs)) /\ Perform(g, cbs) = f[Len(cbs)]
  <2> HIDE DEF Fold
  <2>1. QED BY <1>1, <1>4
<1>6. f[0] = g /\ \A i \in 1..Len(cbs) : f[i] = Step(f[i - 1], i)
  BY <1>5
<1>7. Performs(g, cbs, f)
  BY <1>5, <1>6 DEF Step, Performs
<1>8. QED BY <1>7

\* Events keep the board sound.
LEMMA PerformStep ==
    ASSUME NEW g, Sound(g), NEW cbs \in Seq(Event(g)), NEW f, Performs(g, cbs, f)
    PROVE  /\ \A i \in 0..Len(cbs) : EventStep(g, f[i]) /\ Event(g) \subseteq Event(f[i])
           /\ EventStep(g, Perform(g, cbs))
<1> DEFINE T == {i \in Nat : i <= Len(cbs) => EventStep(g, f[i])}
<1>1. Len(cbs) \in Nat /\ \A i \in 1..Len(cbs) : cbs[i] \in Event(g)
  BY LenProperties, ElementOfSeq
<1>2. ASSUME NEW h, EventStep(g, h) PROVE Event(g) \subseteq Event(h)
  BY <1>2, RegistryKept DEF EventStep, Sound
<1>3. 0 \in T
  <2>1. f[0] = g
    BY DEF Performs
  <2>2. QED BY <2>1, EventStepRefl
<1>4. ASSUME NEW n \in Nat, n \in T PROVE n + 1 \in T
  <2>1. SUFFICES ASSUME n + 1 <= Len(cbs) PROVE EventStep(g, f[n + 1])
    OBVIOUS
  <2>2. n + 1 \in 1..Len(cbs) /\ (n + 1) - 1 = n /\ n <= Len(cbs)
    BY <1>1, <2>1
  <2>3. EventStep(g, f[n])
    BY <1>4, <2>2
  <2>4. cbs[n + 1] \in Event(f[n]) /\ Sound(f[n])
    BY <1>1, <1>2, <2>2, <2>3 DEF EventStep
  <2>5. f[n + 1] = action(f[n], cbs[n + 1])
    BY <2>2 DEF Performs
  <2>6. EventStep(f[n], action(f[n], cbs[n + 1]))
    BY <2>4, ActionFacts DEF Acts
  <2>7. EventStep(f[n], f[n + 1])
    BY <2>5, <2>6
  <2>8. QED BY <2>3, <2>7, EventStepTrans
<1>5. \A i \in 0..Len(cbs) : EventStep(g, f[i])
  <2>1. Nat \subseteq T
    <3> HIDE DEF T
    <3>1. QED BY <1>3, <1>4, Induction
  <2>2. QED BY <1>1, <2>1
<1>6. EventStep(g, Perform(g, cbs))
  <2>1. Perform(g, cbs) = f[Len(cbs)] /\ Len(cbs) \in 0..Len(cbs)
    BY <1>1 DEF Performs
  <2>2. QED BY <1>5, <2>1
<1>7. QED BY <1>2, <1>5, <1>6

\* The times up to now come one after the other.
Runs(g, f) ==
    /\ f[-1] = Undue(g) /\ run(g) = f[g.elapsed]
    /\ \A t \in 0..g.elapsed :
          f[t] = IF t \in Due(g) THEN Perform(f[t - 1], g.callbacks[t]) ELSE f[t - 1]

\* run is the last of the boards that the times up to the clock lead to.
LEMMA RunUnfolds ==
    ASSUME NEW g, g.elapsed \in Nat
    PROVE  \E f : Runs(g, f)
<1> DEFINE Step(x, t) == IF t \in Due(g) THEN Perform(x, g.callbacks[t]) ELSE x
           Fold(f, n) == f = [t \in -1..n |-> IF t = -1 THEN Undue(g) ELSE Step(f[t - 1], t)]
           T == {n \in Nat : \E f : Fold(f, n - 1)}
<1>1. run(g) = (CHOOSE f : Fold(f, g.elapsed))[g.elapsed]
  BY DEF run
<1> HIDE DEF Step
<1>2. 0 \in T
  <2> DEFINE f == [t \in -1..(0 - 1) |-> Undue(g)]
  <2>1. Fold(f, 0 - 1)
    OBVIOUS
  <2>2. QED BY <2>1
<1>3. ASSUME NEW n \in Nat, n \in T PROVE n + 1 \in T
  <2>1. PICK f : Fold(f, n - 1)
    BY <1>3
  <2> DEFINE k == [t \in -1..n |-> IF t = n THEN Step(f[n - 1], t) ELSE f[t]]
  <2>2. \A t \in -1..(n - 1) : f[t] = IF t = -1 THEN Undue(g) ELSE Step(f[t - 1], t)
    BY <2>1
  <2>3. ASSUME NEW t \in -1..n
        PROVE  k[t] = IF t = -1 THEN Undue(g) ELSE Step(k[t - 1], t)
    <3>1. CASE t = n
      <4>1. t # -1 /\ t - 1 \in -1..n /\ t - 1 # n
        BY <3>1
      <4>2. QED BY <3>1, <4>1
    <3>2. CASE t # n
      <4>1. t \in -1..(n - 1) /\ (t # -1 => t - 1 \in -1..n /\ t - 1 # n)
        BY <3>2
      <4>2. QED BY <2>2, <3>2, <4>1
    <3>3. QED BY <3>1, <3>2
  <2>4. Fold(k, n)
    <3>1. k = [t \in -1..n |-> k[t]]
      OBVIOUS
    <3> HIDE DEF k
    <3>2. QED BY <2>3, <3>1
  <2>5. n + 1 \in Nat /\ (n + 1) - 1 = n
    OBVIOUS
  <2> HIDE DEF k, Fold
  <2>6. QED BY <2>4, <2>5
<1>4. \E f : Fold(f, g.elapsed)
  <2>1. g.elapsed + 1 \in T
    <3> HIDE DEF T
    <3>1. QED BY <1>2, <1>3, Induction
  <2>2. (g.elapsed + 1) - 1 = g.elapsed
    OBVIOUS
  <2> HIDE DEF Fold
  <2>3. QED BY <2>1, <2>2
<1>5. PICK f : Fold(f, g.elapsed) /\ run(g) = f[g.elapsed]
  <2> HIDE DEF Fold
  <2>1. QED BY <1>1, <1>4
<1>6. f[-1] = Undue(g) /\ \A t \in 0..g.elapsed : f[t] = Step(f[t - 1], t)
  BY <1>5
<1>7. Runs(g, f)
  BY <1>5, <1>6 DEF Step, Runs
<1>8. QED BY <1>7

\* What is not due stays.
LEMMA UndueFacts ==
    ASSUME NEW g, Sound(g)
    PROVE  /\ AgendaStep(g, Undue(g)) /\ EventStep(g, Undue(g))
           /\ DOMAIN Undue(g).callbacks = DOMAIN g.callbacks \ Due(g)
           /\ \A t \in DOMAIN g.callbacks \ Due(g) : Undue(g).callbacks[t] = g.callbacks[t]
<1> DEFINE D == DOMAIN g.callbacks \ Due(g)
           c == Restrict(g.callbacks, D)
           h == [g EXCEPT !.callbacks = c]
<1>1. DOMAIN g = Field
  BY DEF Sound, Books, Wallets
<1>2. Undue(g) = h
  BY DEF Undue
<1>3. DOMAIN c = D /\ \A t \in D : c[t] = g.callbacks[t]
  BY DEF Restrict
<1> HIDE DEF c
<1>4. h.callbacks = c /\ DOMAIN h = Field /\ \A x \in Field \ {"callbacks"} : h[x] = g[x]
  BY <1>1 DEF Field
<1> HIDE DEF h
<1>5. AgendaStep(g, h)
  BY <1>4 DEF AgendaStep
<1>6. \A t \in DOMAIN h.callbacks : t \in Nat /\ h.callbacks[t] \in Seq(Event(g))
  BY <1>3, <1>4 DEF Sound, Agenda
<1>7. EventStep(g, h)
  BY <1>5, <1>6, AgendaIsEvent
<1>8. QED BY <1>2, <1>3, <1>4, <1>5, <1>7

\* run at one time: its events, if it is due
LEMMA RunStep ==
    ASSUME NEW g, Sound(g), NEW f, Runs(g, f)
    PROVE  /\ \A t \in -1..g.elapsed : EventStep(g, f[t]) /\ Event(g) \subseteq Event(f[t])
           /\ EventStep(g, run(g))
<1> DEFINE T == {n \in Nat : n <= g.elapsed + 1 => EventStep(g, f[n - 1])}
<1>1. g.elapsed \in Nat
  BY DEF Sound, Registry
<1>2. ASSUME NEW h, EventStep(g, h) PROVE Event(g) \subseteq Event(h)
  BY <1>2, RegistryKept DEF EventStep, Sound
<1>3. 0 \in T
  <2>1. f[-1] = Undue(g) /\ 0 - 1 = -1
    BY DEF Runs
  <2>2. QED BY <2>1, UndueFacts
<1>4. ASSUME NEW n \in Nat, n \in T PROVE n + 1 \in T
  <2>1. SUFFICES ASSUME n <= g.elapsed PROVE EventStep(g, f[n])
    BY <1>1
  <2>2. n \in 0..g.elapsed /\ n <= g.elapsed + 1
    BY <1>1, <2>1
  <2>3. EventStep(g, f[n - 1])
    BY <1>4, <2>2
  <2>4. f[n] = IF n \in Due(g) THEN Perform(f[n - 1], g.callbacks[n]) ELSE f[n - 1]
    BY <2>2 DEF Runs
  <2>5. CASE n \notin Due(g)
    BY <2>3, <2>4, <2>5
  <2>6. CASE n \in Due(g)
    <3>1. PICK x, cbs : x = f[n - 1] /\ cbs = g.callbacks[n]
      OBVIOUS
    <3>2. cbs \in Seq(Event(g))
      BY <2>6, <3>1 DEF Due, Sound, Agenda
    <3>3. Sound(x) /\ cbs \in Seq(Event(x))
      BY <1>2, <2>3, <3>1, <3>2, SeqOfMore DEF EventStep
    <3>4. \E k : Performs(x, cbs, k)
      BY <3>3, LenProperties, PerformUnfolds
    <3>5. EventStep(x, Perform(x, cbs))
      BY <3>3, <3>4, PerformStep
    <3>6. EventStep(g, Perform(x, cbs))
      BY <2>3, <3>1, <3>5, EventStepTrans
    <3>7. QED BY <2>4, <2>6, <3>1, <3>6
  <2>7. QED BY <2>5, <2>6
<1>5. \A t \in -1..g.elapsed : EventStep(g, f[t])
  <2>1. Nat \subseteq T
    <3> HIDE DEF T
    <3>1. QED BY <1>3, <1>4, Induction
  <2>2. ASSUME NEW t \in -1..g.elapsed PROVE EventStep(g, f[t])
    <3>1. t + 1 \in Nat /\ t + 1 <= g.elapsed + 1 /\ (t + 1) - 1 = t
      BY <1>1
    <3>2. t + 1 \in T
      BY <2>1, <3>1
    <3>3. QED BY <3>1, <3>2
  <2>3. QED BY <2>2
<1>6. EventStep(g, run(g))
  BY <1>1, <1>5 DEF Runs
<1>7. QED BY <1>2, <1>5, <1>6

\* run keeps the board sound, whatever events are due.
LEMMA RunFacts ==
    ASSUME NEW g, Sound(g)
    PROVE  EventStep(g, run(g))
<1>1. g.elapsed \in Nat
  BY DEF Sound, Registry
<1>2. QED BY <1>1, RunUnfolds, RunStep

-----------------------------------------------------------------------------
(* The clock and the order of the moves *)

\* A non-empty set of numbers has its least one.
LEMMA MinIsIn ==
    ASSUME NEW S, S \subseteq Nat, S # {}
    PROVE  Min(S) \in S
<1> DEFINE R == {p \in Nat \X Nat : p[1] < p[2]}
<1>1. IsWellFoundedOn(R, Nat)
  BY NatLessThanWellFounded DEF OpToRel
<1>2. PICK x \in S : \A y \in S : ~(<<y, x>> \in R)
  <2> HIDE DEF R
  <2>1. QED BY ONLY S \subseteq Nat, S # {}, <1>1, WFMin
<1>3. ASSUME NEW y \in S PROVE x <= y
  <2>1. x \in Nat /\ y \in Nat /\ ~(<<y, x>> \in R)
    BY <1>2
  <2>2. QED BY <2>1
<1>4. \E z \in S : \A y \in S : z =< y
  BY <1>2, <1>3
<1>5. QED BY <1>4 DEF Min

\* A function into the numbers is largest somewhere on a finite set.
LEMMA MaxExists ==
    ASSUME NEW S, IsFiniteSet(S), S # {}, NEW f, \A x \in S : f[x] \in Nat
    PROVE  \E x \in S : \A y \in S : f[y] <= f[x]
<1> DEFINE T == {s \in SUBSET S : s = {} \/ \E x \in s : \A y \in s : f[y] <= f[x]}
<1>1. {} \in T
  OBVIOUS
<1>2. ASSUME NEW s \in SUBSET S, s # {}, \A x \in s : s \ {x} \in T PROVE s \in T
  <2>1. PICK z \in s : TRUE
    BY <1>2
  <2>2. \A y \in s : f[y] \in Nat
    OBVIOUS
  <2>3. CASE s \ {z} = {}
    <3>1. \A y \in s : y = z
      BY <2>3
    <3>2. \A y \in s : f[y] <= f[z]
      BY <2>2, <3>1
    <3>3. QED BY <2>1, <3>2
  <2>4. CASE s \ {z} # {}
    <3>1. PICK x \in s \ {z} : \A y \in s \ {z} : f[y] <= f[x]
      BY <1>2, <2>1, <2>4
    <3>2. f[x] \in Nat /\ f[z] \in Nat
      BY <2>1, <2>2, <3>1
    <3>3. CASE f[x] <= f[z]
      <4>1. \A y \in s : f[y] <= f[z]
        BY <2>2, <3>1, <3>2, <3>3
      <4>2. QED BY <2>1, <4>1
    <3>4. CASE f[z] <= f[x]
      <4>1. \A y \in s : f[y] <= f[x]
        BY <2>2, <3>1, <3>2, <3>4
      <4>2. QED BY <3>1, <4>1
    <3>5. QED BY <3>2, <3>3, <3>4
  <2>5. QED BY <2>3, <2>4
<1>3. S \in T
  <2> HIDE DEF T
  <2>1. QED BY <1>1, <1>2, FiniteInduction
<1>4. QED BY <1>3

\* The median of the players' clocks is a number.
LEMMA NthFacts ==
    ASSUME NEW g, IsFiniteSet(DOMAIN g.ticks), DOMAIN g.ticks # {},
           \A p \in DOMAIN g.ticks : g.ticks[p].elapsed \in Nat,
           NEW n \in Nat, n <= Cardinality(DOMAIN g.ticks)
    PROVE  NthElapsed(g, n) \in Nat
<1> DEFINE D == DOMAIN g.ticks
           f == [p \in D |-> g.ticks[p].elapsed]
           V == {v \in {g.ticks[p].elapsed : p \in D} :
                    Cardinality({p \in D : g.ticks[p].elapsed <= v}) >= n}
<1>1. NthElapsed(g, n) = Min(V)
  BY DEF NthElapsed
<1>2. \E x \in D : \A y \in D : f[y] <= f[x]
  <2>1. \A x \in D : f[x] \in Nat
    OBVIOUS
  <2> HIDE DEF f
  <2>2. QED BY <2>1, MaxExists
<1>3. PICK x \in D : \A y \in D : g.ticks[y].elapsed <= g.ticks[x].elapsed
  BY <1>2
<1>4. {p \in D : g.ticks[p].elapsed <= g.ticks[x].elapsed} = D
  BY <1>3
<1>5. Cardinality(D) \in Nat
  BY FS_CardinalityType
<1>6. g.ticks[x].elapsed \in V
  BY <1>4, <1>5
<1>7. V \subseteq Nat
  OBVIOUS
<1> HIDE DEF V
<1>8. Min(V) \in V
  BY <1>6, <1>7, MinIsIn
<1>9. QED BY <1>1, <1>7, <1>8

\* The median of the players' clocks is a number.
LEMMA MedianFacts ==
    ASSUME NEW g, IsFiniteSet(DOMAIN g.ticks), DOMAIN g.ticks # {},
           \A p \in DOMAIN g.ticks : g.ticks[p].elapsed \in Nat
    PROVE  Median(g) \in Nat
<1> DEFINE count == Cardinality(DOMAIN g.ticks)
<1>1. count \in Nat /\ count # 0
  BY FS_CardinalityType, FS_EmptySet
<1>2. NthElapsed(g, count \div 2 + 1) \in Nat
  <2>1. PICK n : n = count \div 2 + 1
    OBVIOUS
  <2>2. n \in Nat /\ n <= count
    BY <1>1, <2>1
  <2>3. NthElapsed(g, n) \in Nat
    BY <2>2, NthFacts
  <2>4. QED BY <2>1, <2>3
<1>3. NthElapsed(g, count \div 2) \in Nat
  <2>1. PICK n : n = count \div 2
    OBVIOUS
  <2>2. n \in Nat /\ n <= count
    BY <1>1, <2>1
  <2>3. NthElapsed(g, n) \in Nat
    BY <2>2, NthFacts
  <2>4. QED BY <2>1, <2>3
<1>4. QED BY <1>2, <1>3 DEF Median

\* The ledger stays.
SameLedger(g, h) ==
    /\ DOMAIN h = Field
    /\ \A x \in {"setup", "alloc", "bal", "total", "markets", "users", "callbacks"} :
          h[x] = g[x]

\* What depends on the ledger alone
LEMMA SameLedgerFacts ==
    ASSUME NEW g, Books(g), NEW h, SameLedger(g, h)
    PROVE  /\ h.setup = g.setup /\ h.alloc = g.alloc /\ h.bal = g.bal /\ h.total = g.total
           /\ h.markets = g.markets /\ h.users = g.users /\ h.callbacks = g.callbacks
           /\ \A u, x : balance_check(h, u, x) = balance_check(g, u, x)
           /\ Books(h) /\ Holder(h) = Holder(g) /\ UserIds(h) = UserIds(g)
           /\ Grows(g, h) /\ Gains(g, h) /\ Takes(g, h, {})
<1>1. /\ h.setup = g.setup /\ h.alloc = g.alloc /\ h.bal = g.bal /\ h.total = g.total
      /\ h.markets = g.markets /\ h.users = g.users /\ h.callbacks = g.callbacks
      /\ DOMAIN h = Field
  BY DEF SameLedger
<1>2. \A u, x : balance_check(h, u, x) = balance_check(g, u, x)
  BY <1>1 DEF balance_check
<1>3. Holder(h) = Holder(g)
  BY <1>1 DEF Holder, MarketIds
<1>4. UserIds(h) = UserIds(g)
  BY <1>1 DEF UserIds
<1>5. Wallets(h)
  BY <1>1 DEF Wallets, Books
<1>6. \A p \in DOMAIN g.markets : MarketSound(h, p)
  BY <1>1, <1>2 DEF Books, Markets, MarketSound
<1>7. Books(h)
  BY <1>1, <1>5, <1>6 DEF Books, Markets
<1>8. Grows(g, h) /\ Gains(g, h)
  BY <1>1, <1>3, BooksTypes DEF Grows, Gains, Product
<1>9. Takes(g, h, {})
  BY <1>1, <1>2, BooksTypes DEF Takes
<1>10. QED BY <1>1, <1>2, <1>3, <1>4, <1>7, <1>8, <1>9

\* Only the clocks and the players' numbers change.
ClockStep(g, h) ==
    /\ SameLedger(g, h)
    /\ h.nfts = g.nfts /\ h.plants = g.plants /\ h.nft_sales = g.nft_sales
    /\ h.elapsed \in Nat /\ h.elapsed >= g.elapsed
    /\ DOMAIN h.seq \subseteq UserIds(g)
    /\ \A u \in DOMAIN h.ticks :
          u \in UserIds(g) /\ h.ticks[u] \in [first_time : Nat, elapsed : Nat]

\* A step of the clocks keeps the board sound.
LEMMA ClockFacts ==
    ASSUME NEW g, Sound(g), NEW h, ClockStep(g, h)
    PROVE  /\ Sound(h) /\ UserIds(h) = UserIds(g) /\ Owned(h) = Owned(g)
           /\ Event(h) = Event(g) /\ Grows(g, h) /\ Gains(g, h) /\ Takes(g, h, {})
           /\ \A u, x : balance_check(h, u, x) = balance_check(g, u, x)
<1>1. /\ h.setup = g.setup /\ h.users = g.users /\ h.callbacks = g.callbacks
      /\ h.bal = g.bal
      /\ \A u, x : balance_check(h, u, x) = balance_check(g, u, x)
      /\ Books(h) /\ Holder(h) = Holder(g) /\ UserIds(h) = UserIds(g)
      /\ Grows(g, h) /\ Gains(g, h) /\ Takes(g, h, {})
  BY SameLedgerFacts DEF ClockStep, Sound
<1>2. h.nfts = g.nfts /\ h.plants = g.plants /\ h.nft_sales = g.nft_sales
  BY DEF ClockStep
<1>3. Owned(h) = Owned(g) /\ Lockup(h) = Lockup(g)
  BY <1>1, <1>2 DEF Owned, Lockup
<1>4. Event(h) = Event(g)
  BY <1>1, <1>2, <1>3 DEF Event
<1>5. Agenda(h)
  BY <1>1, <1>4 DEF Agenda, Sound
<1>6. Registry(h)
  BY <1>1, <1>2 DEF Registry, ClockStep, Sound
<1>7. QED BY <1>1, <1>3, <1>4, <1>5, <1>6 DEF Sound

\* SetSequence is a step of the clocks.
LEMMA SetSequenceFacts ==
    ASSUME NEW g, Sound(g), NEW from \in UserIds(g), NEW n
    PROVE  ClockStep(g, SetSequence(g, from, n))
<1> DEFINE s == Put(g.seq, from, n)
           h == [g EXCEPT !.seq = s]
<1>1. DOMAIN g = Field
  BY DEF Sound, Books, Wallets
<1>2. DOMAIN s \subseteq UserIds(g)
  BY DEF Put, Sound, Registry
<1>3. SetSequence(g, from, n) = h
  BY DEF SetSequence
<1> HIDE DEF s
<1>4. h.seq = s /\ DOMAIN h = Field /\ \A x \in Field \ {"seq"} : h[x] = g[x]
  BY <1>1 DEF Field
<1> HIDE DEF h
<1>5. ClockStep(g, h)
  BY <1>2, <1>4 DEF ClockStep, SameLedger, Field, Sound, Registry
<1>6. QED BY <1>3, <1>5

\* Ticked is a step of the clocks, and gives the player one.
LEMMA TickedFacts ==
    ASSUME NEW g, Sound(g), NEW from \in UserIds(g), NEW time \in Nat
    PROVE  /\ ClockStep(g, Ticked(g, from, time))
           /\ from \in DOMAIN Ticked(g, from, time).ticks
           /\ Ticked(g, from, time).elapsed = g.elapsed
<1> DEFINE tick == IF from \in DOMAIN g.ticks THEN g.ticks[from]
                   ELSE [first_time |-> time, elapsed |-> 0]
           spent == IF time >= tick.first_time THEN time - tick.first_time ELSE 0
           new == [tick EXCEPT !.elapsed = IF spent > @ THEN spent ELSE @]
           c == Put(g.ticks, from, new)
           h == [g EXCEPT !.ticks = c]
<1>1. DOMAIN g = Field
  BY DEF Sound, Books, Wallets
<1>2. tick \in [first_time : Nat, elapsed : Nat]
  <2>1. CASE from \in DOMAIN g.ticks
    BY <2>1 DEF Sound, Registry
  <2>2. CASE from \notin DOMAIN g.ticks
    BY <2>2
  <2>3. QED BY <2>1, <2>2
<1>3. Ticked(g, from, time) = h
  BY DEF Ticked
<1> HIDE DEF tick
<1>4. spent \in Nat
  BY <1>2
<1> HIDE DEF spent
<1>5. new \in [first_time : Nat, elapsed : Nat]
  BY <1>2, <1>4
<1> HIDE DEF new
<1>6. from \in DOMAIN c /\ \A u \in DOMAIN c :
          u \in UserIds(g) /\ c[u] \in [first_time : Nat, elapsed : Nat]
  BY <1>5 DEF Put, Sound, Registry
<1> HIDE DEF c
<1>7. h.ticks = c /\ DOMAIN h = Field /\ \A x \in Field \ {"ticks"} : h[x] = g[x]
  BY <1>1 DEF Field
<1> HIDE DEF h
<1>8. ClockStep(g, h)
  BY <1>6, <1>7 DEF ClockStep, SameLedger, Field, Sound, Registry
<1>9. from \in DOMAIN h.ticks /\ h.elapsed = g.elapsed
  BY <1>6, <1>7 DEF Field
<1>10. QED BY <1>3, <1>8, <1>9

\* Two steps of the clocks are one.
LEMMA ClockTrans ==
    ASSUME NEW g, NEW h, NEW k, g.elapsed \in Nat, UserIds(h) = UserIds(g),
           ClockStep(g, h), ClockStep(h, k)
    PROVE  ClockStep(g, k)
BY DEF ClockStep, SameLedger

\* update_current_time never sets the game's clock back.
LEMMA update_current_timeFacts ==
    ASSUME NEW g, Sound(g), NEW from \in UserIds(g), NEW time \in Nat
    PROVE  ClockStep(g, update_current_time(g, from, time))
<1> DEFINE h == Ticked(g, from, time)
           m == Median(h)
           n == IF m > h.elapsed THEN m ELSE h.elapsed
           k == [h EXCEPT !.elapsed = n]
<1>1. ClockStep(g, h) /\ from \in DOMAIN h.ticks /\ Sound(h)
  BY TickedFacts, ClockFacts
<1>2. update_current_time(g, from, time) = k
  BY DEF update_current_time
<1> HIDE DEF h
<1>3. DOMAIN h = Field /\ h.elapsed \in Nat /\ g.elapsed \in Nat /\ h.elapsed >= g.elapsed
  BY <1>1 DEF Sound, Registry, Books, Wallets, ClockStep
<1>4. m \in Nat
  <2>1. DOMAIN h.ticks \subseteq 1..h.alloc /\ h.alloc \in Nat
        /\ \A p \in DOMAIN h.ticks : h.ticks[p].elapsed \in Nat
    BY <1>1, OwnedFacts DEF Sound, Registry, Holder, Books, Wallets
  <2>2. IsFiniteSet(DOMAIN h.ticks)
    <3>1. IsFiniteSet(1..h.alloc)
      BY <2>1, FS_Interval
    <3>2. QED BY <2>1, <3>1, FS_Subset
  <2>3. QED BY <1>1, <2>1, <2>2, MedianFacts
<1> HIDE DEF m
<1>5. n \in Nat /\ n >= g.elapsed
  BY <1>3, <1>4
<1> HIDE DEF n
<1>6. k.elapsed = n /\ DOMAIN k = Field /\ \A x \in Field \ {"elapsed"} : k[x] = h[x]
  BY <1>3 DEF Field
<1> HIDE DEF k
<1>7. ClockStep(g, k)
  BY <1>1, <1>5, <1>6 DEF ClockStep, SameLedger, Field
<1>8. QED BY <1>2, <1>7

\* What comes before a move: its number, the time and the events due
LEMMA BeforeFacts ==
    ASSUME NEW g, Sound(g), NEW from \in UserIds(g), NEW time \in Nat, NEW n
    PROVE  LET c == update_current_time(SetSequence(g, from, n), from, time)
           IN ClockStep(g, c) /\ Sound(c) /\ EventStep(c, run(c))
<1> DEFINE s == SetSequence(g, from, n)
           c == update_current_time(s, from, time)
<1>1. ClockStep(g, s) /\ Sound(s) /\ UserIds(s) = UserIds(g)
  BY SetSequenceFacts, ClockFacts
<1> HIDE DEF s
<1>2. ClockStep(s, c)
  BY <1>1, update_current_timeFacts
<1> HIDE DEF c
<1>3. ClockStep(g, c) /\ Sound(c)
  <2>1. g.elapsed \in Nat
    BY DEF Sound, Registry
  <2>2. ClockStep(g, c)
    BY <1>1, <1>2, <2>1, ClockTrans
  <2>3. QED BY <2>2, ClockFacts
<1>4. EventStep(c, run(c))
  BY <1>3, RunFacts
<1>5. QED BY <1>3, <1>4 DEF c, s

-----------------------------------------------------------------------------
(* The moves *)

\* What is from's: its own account, and its NFTs'
Mine(g, from) == {from} \cup {n \in DOMAIN g.nfts : g.nfts[n].owner = from}

\* What every move of from keeps: no token is made, and only what is from's, or a
\* market's, has less.
SameClock(g, h) ==
    /\ h.setup = g.setup /\ h.users = g.users /\ h.seq = g.seq /\ h.ticks = g.ticks
    /\ h.elapsed = g.elapsed
Move(g, h, from) ==
    /\ Sound(h) /\ Grows(g, h) /\ Gains(g, h) /\ Takes(g, h, Mine(g, from))
    /\ Conserves(g, h) /\ SameClock(g, h) /\ DOMAIN g.plants \subseteq DOMAIN h.plants

\* No NFT or listing changes; there may be new NFTs.
Builds(g, h) ==
    /\ \A n \in DOMAIN g.nfts : n \in DOMAIN h.nfts /\ h.nfts[n] = g.nfts[n]
    /\ \A n \in DOMAIN h.nfts \ DOMAIN g.nfts : n \notin Holder(g)
    /\ h.nft_sales = g.nft_sales

\* Two moves, of which the first only builds, are one.
LEMMA MoveTrans ==
    ASSUME NEW g, Sound(g), NEW h, NEW k, NEW from,
           Move(g, h, from), Builds(g, h), Move(h, k, from)
    PROVE  Move(g, k, from)
<1>1. Sound(h) /\ Sound(k) /\ SameClock(g, k) /\ DOMAIN g.plants \subseteq DOMAIN k.plants
  BY DEF Move, SameClock
<1>2. g.alloc \in Nat /\ h.alloc \in Nat /\ k.alloc \in Nat
  BY <1>1, BooksTypes DEF Sound
<1>3. Grows(g, k)
  BY <1>2 DEF Move, Grows
<1>4. ASSUME NEW p \in DOMAIN g.markets PROVE Product(g, p) <= Product(k, p)
  <2>1. p \in DOMAIN h.markets /\ p \in DOMAIN k.markets
    BY DEF Move, Grows
  <2>2. Product(g, p) \in Nat /\ Product(h, p) \in Nat /\ Product(k, p) \in Nat
    BY <1>1, <2>1, BooksTypes DEF Sound
  <2>3. Product(g, p) <= Product(h, p) /\ Product(h, p) <= Product(k, p)
    BY <2>1 DEF Move, Gains
  <2>4. QED BY <2>2, <2>3
<1>5. ASSUME NEW u \in DOMAIN g.bal, NEW x \in Holder(g) \ Mine(g, from)
      PROVE  balance_check(g, u, x) <= balance_check(k, u, x)
  <2>1. x \in Holder(h) \ Mine(h, from)
    <3>1. x \in Holder(h)
      BY DEF Move, Grows
    <3>2. x \notin Mine(h, from)
      BY DEF Mine, Builds
    <3>3. QED BY <3>1, <3>2
  <2>2. u \in DOMAIN h.bal /\ u \in DOMAIN k.bal
    BY DEF Move, Grows
  <2>3. /\ balance_check(g, u, x) \in Nat /\ balance_check(h, u, x) \in Nat
        /\ balance_check(k, u, x) \in Nat
    BY <1>1, <2>2, BooksTypes DEF Sound
  <2>4. /\ balance_check(g, u, x) <= balance_check(h, u, x)
        /\ balance_check(h, u, x) <= balance_check(k, u, x)
    BY <2>1, <2>2 DEF Move, Takes
  <2>5. QED BY <2>3, <2>4
<1>6. Conserves(g, k)
  BY DEF Move, Conserves, Grows
<1>7. QED BY <1>1, <1>3, <1>4, <1>5, <1>6 DEF Move, Gains, Takes

\* To build twice is to build.
LEMMA BuildsTrans ==
    ASSUME NEW g, NEW h, NEW k, Grows(g, h), Builds(g, h), Builds(h, k)
    PROVE  Builds(g, k)
BY DEF Builds, Grows

\* The ledger's steps are moves.
LEMMA LedgerIsMove ==
    ASSUME NEW g, Sound(g), NEW h, NEW S, LedgerStep(g, h, S), Conserves(g, h),
           NEW from, S \subseteq Mine(g, from)
    PROVE  /\ Move(g, h, from) /\ Builds(g, h) /\ h.callbacks = g.callbacks
           /\ h.nfts = g.nfts /\ h.plants = g.plants /\ UserIds(h) = UserIds(g)
<1>1. /\ Sound(h) /\ Kept(g, h) /\ h.callbacks = g.callbacks /\ UserIds(h) = UserIds(g)
      /\ Grows(g, h) /\ Gains(g, h) /\ Takes(g, h, S)
  BY LedgerKeeps DEF LedgerStep
<1>2. Takes(g, h, Mine(g, from))
  BY <1>1 DEF Takes
<1>3. /\ h.nfts = g.nfts /\ h.plants = g.plants /\ h.nft_sales = g.nft_sales
      /\ SameClock(g, h)
  BY <1>1 DEF Kept, SameClock
<1>4. Builds(g, h)
  BY <1>3 DEF Builds
<1>5. QED BY <1>1, <1>2, <1>3, <1>4 DEF Move

\* To do nothing is a move.
LEMMA IdleIsMove ==
    ASSUME NEW g, Sound(g), NEW from
    PROVE  Move(g, g, from) /\ Builds(g, g)
<1>1. LedgerStep(g, g, {}) /\ Conserves(g, g)
  BY LedgerStepRefl DEF Sound, Conserves
<1>2. QED BY <1>1, LedgerIsMove

\* A transfer from an account of from's
LEMMA TransferIsMove ==
    ASSUME NEW g, Sound(g), NEW t \in DOMAIN g.bal, NEW a \in Holder(g),
           NEW to \in Holder(g), NEW n \in Nat, NEW from, a \in Mine(g, from)
    PROVE  LET h == transfer(g, t, a, to, n) IN
           /\ Move(g, h, from) /\ Builds(g, h) /\ h.callbacks = g.callbacks
           /\ h.nfts = g.nfts /\ h.plants = g.plants /\ UserIds(h) = UserIds(g)
           /\ h.alloc = g.alloc
<1> DEFINE h == transfer(g, t, a, to, n)
<1>1. Books(g) /\ Wallets(g) /\ a \in 1..g.alloc /\ to \in 1..g.alloc
  BY DEF Sound, Books, Holder
<1>2. LedgerStep(g, h, {a})
  BY <1>1, TransferStep
<1>3. Conserves(g, h) /\ SameBut(g, h)
  BY <1>1, TransferFacts DEF Conserves
<1> HIDE DEF h
<1>4. h.alloc = g.alloc
  BY <1>3, SameButFacts
<1>5. /\ Move(g, h, from) /\ Builds(g, h) /\ h.callbacks = g.callbacks
      /\ h.nfts = g.nfts /\ h.plants = g.plants /\ UserIds(h) = UserIds(g)
  BY <1>2, <1>3, LedgerIsMove
<1>6. QED BY <1>4, <1>5 DEF h

\* An EntityID is handed out.
NewId(g, h) ==
    /\ DOMAIN h = Field /\ h.alloc = g.alloc + 1
    /\ \A x \in {"bal", "total", "markets"} : h[x] = g[x]

\* A new EntityID was nobody's, and keeps the board sound.
LEMMA NewIdFacts ==
    ASSUME NEW g, Books(g), NEW h, NewId(g, h)
    PROVE  /\ h.bal = g.bal /\ h.total = g.total /\ h.markets = g.markets
           /\ g.alloc \in Nat /\ h.alloc \in Nat
           /\ \A u, x : balance_check(h, u, x) = balance_check(g, u, x)
           /\ Books(h) /\ Holder(h) = Holder(g) \cup {h.alloc} /\ h.alloc \notin Holder(g)
           /\ Grows(g, h) /\ Gains(g, h) /\ Takes(g, h, {}) /\ Conserves(g, h)
<1>1. /\ h.alloc = g.alloc + 1 /\ h.bal = g.bal /\ h.total = g.total
      /\ h.markets = g.markets /\ DOMAIN h = Field
  BY DEF NewId
<1>2. \A u, x : balance_check(h, u, x) = balance_check(g, u, x)
  BY <1>1 DEF balance_check
<1>3. g.alloc \in Nat /\ h.alloc \in Nat /\ 1..h.alloc = (1..g.alloc) \cup {h.alloc}
      /\ h.alloc \notin 1..g.alloc
  BY <1>1 DEF Books, Wallets
<1>4. MarketIds(h) = MarketIds(g) /\ MarketIds(g) \subseteq 1..g.alloc
  BY <1>1 DEF MarketIds, Books, Markets, MarketSound
<1>5. Holder(h) = Holder(g) \cup {h.alloc} /\ h.alloc \notin Holder(g)
  BY <1>3, <1>4 DEF Holder
<1>6. Wallets(h)
  <2>1. 1..g.alloc \subseteq 1..h.alloc
    BY <1>3
  <2>2. \A t \in DOMAIN g.bal :
          /\ DOMAIN g.bal[t] \subseteq 1..h.alloc
          /\ \A e \in DOMAIN g.bal[t] : g.bal[t][e] \in Nat
          /\ g.total[t] = Sum(g.bal[t], DOMAIN g.bal[t])
    BY <2>1 DEF Books, Wallets
  <2>3. QED BY <1>1, <1>3, <2>1, <2>2 DEF Wallets, Books
<1>7. \A p \in DOMAIN g.markets : MarketSound(h, p)
  BY <1>1, <1>2, <1>3 DEF Books, Markets, MarketSound
<1>8. Books(h)
  BY <1>1, <1>6, <1>7 DEF Books, Markets
<1>9. Grows(g, h) /\ Gains(g, h)
  BY <1>1, <1>3, <1>5, BooksTypes DEF Grows, Gains, Product
<1>10. Takes(g, h, {}) /\ Conserves(g, h)
  BY <1>1, <1>2, BooksTypes DEF Takes, Conserves
<1>11. QED BY <1>1, <1>2, <1>3, <1>5, <1>8, <1>9, <1>10

\* An NFT more, with or without its plant
NewNft(g, h, owner) ==
    /\ NewId(g, h)
    /\ \A x \in {"setup", "users", "nft_sales", "seq", "ticks", "elapsed", "callbacks"} :
          h[x] = g[x]
    /\ DOMAIN h.nfts = DOMAIN g.nfts \cup {h.alloc}
    /\ \A n \in DOMAIN g.nfts : n # h.alloc => h.nfts[n] = g.nfts[n]
    /\ h.nfts[h.alloc].owner = owner
    /\ \/ h.plants = g.plants
       \/ /\ DOMAIN h.plants = DOMAIN g.plants \cup {h.alloc}
          /\ \A p \in DOMAIN g.plants : p # h.alloc => h.plants[p] = g.plants[p]
          /\ h.plants[h.alloc].watts \in Nat

\* A new NFT of a player
LEMMA NewNftFacts ==
    ASSUME NEW g, Sound(g), NEW h, NEW owner \in UserIds(g), NewNft(g, h, owner)
    PROVE  /\ Move(g, h, owner) /\ Builds(g, h) /\ h.callbacks = g.callbacks
           /\ h.alloc \in Holder(h) /\ h.alloc \notin Holder(g)
           /\ UserIds(h) = UserIds(g) /\ DOMAIN h.bal = DOMAIN g.bal
           /\ h.plants = g.plants => h.alloc \in Lockup(h)
<1>1. /\ h.bal = g.bal /\ h.total = g.total /\ h.markets = g.markets
      /\ Books(h) /\ Holder(h) = Holder(g) \cup {h.alloc} /\ h.alloc \notin Holder(g)
      /\ Grows(g, h) /\ Gains(g, h) /\ Takes(g, h, {}) /\ Conserves(g, h)
  BY NewIdFacts DEF Sound, NewNft
<1>2. /\ h.setup = g.setup /\ h.users = g.users /\ h.nft_sales = g.nft_sales
      /\ h.seq = g.seq /\ h.ticks = g.ticks /\ h.elapsed = g.elapsed
      /\ h.callbacks = g.callbacks
  BY DEF NewNft
<1>3. /\ UserIds(h) = UserIds(g) /\ UserIds(g) \subseteq Holder(g)
      /\ DOMAIN g.nfts \subseteq Holder(g) \ UserIds(g) /\ DOMAIN g.plants \subseteq DOMAIN g.nfts
  <2>1. UserIds(h) = UserIds(g)
    BY <1>2 DEF UserIds
  <2>2. QED BY <2>1, OwnedFacts DEF Sound, Registry
<1>4. /\ DOMAIN h.nfts = DOMAIN g.nfts \cup {h.alloc} /\ h.nfts[h.alloc].owner = owner
      /\ \A n \in DOMAIN g.nfts : h.nfts[n] = g.nfts[n]
      /\ h.alloc \notin DOMAIN g.nfts
  BY <1>1, <1>3 DEF NewNft
<1>5. /\ DOMAIN h.plants \in {DOMAIN g.plants, DOMAIN g.plants \cup {h.alloc}}
      /\ \A p \in DOMAIN g.plants : h.plants[p] = g.plants[p]
      /\ h.alloc \in DOMAIN h.plants => h.plants[h.alloc].watts \in Nat
      /\ h.alloc \notin DOMAIN g.plants
  BY <1>1, <1>3 DEF NewNft
<1>6. Registry(h)
  <2>1. \A n \in DOMAIN h.nfts : n \in Holder(h) \ UserIds(h) /\ h.nfts[n].owner \in UserIds(h)
    BY <1>1, <1>3, <1>4 DEF Sound, Registry
  <2>2. \A p \in DOMAIN h.plants : p \in DOMAIN h.nfts /\ h.plants[p].watts \in Nat
    BY <1>4, <1>5 DEF Sound, Registry
  <2>3. \A n \in DOMAIN h.nft_sales :
          /\ n \in DOMAIN h.nfts
          /\ h.nft_sales[n].price \in Nat /\ h.nft_sales[n].currency \in DOMAIN h.bal
    BY <1>1, <1>2, <1>4 DEF Sound, Registry
  <2>4. (\A k \in DOMAIN h.users : h.users[k] \in Holder(h)) /\ h.setup \in DOMAIN Setup
        /\ h.elapsed \in Nat
    BY <1>1, <1>2 DEF Sound, Registry
  <2>5. DOMAIN h.seq \subseteq UserIds(h) /\ \A u \in DOMAIN h.ticks :
          u \in UserIds(h) /\ h.ticks[u] \in [first_time : Nat, elapsed : Nat]
    BY <1>2, <1>3 DEF Sound, Registry
  <2>6. QED BY <2>1, <2>2, <2>3, <2>4, <2>5 DEF Registry
<1>7. Agenda(h)
  <2>1. Lockup(g) \subseteq Lockup(h)
    BY <1>4, <1>5 DEF Lockup
  <2>2. Holder(g) \ (UserIds(g) \cup DOMAIN g.nfts)
            \subseteq Holder(h) \ (UserIds(h) \cup DOMAIN h.nfts)
    BY <1>1, <1>3, <1>4
  <2>3. Event(g) \subseteq Event(h)
    BY <1>1, <2>1, <2>2 DEF Event
  <2>4. QED BY <1>2, <2>3, AgendaKept DEF Sound
<1>8. Takes(g, h, Mine(g, owner)) /\ SameClock(g, h)
  BY <1>1, <1>2 DEF Takes, SameClock
<1>9. DOMAIN g.plants \subseteq DOMAIN h.plants
  BY <1>5
<1>10. Builds(g, h)
  BY <1>1, <1>2, <1>4 DEF Builds
<1>11. h.plants = g.plants => h.alloc \in Lockup(h)
  BY <1>4, <1>5 DEF Lockup
<1>12. QED BY <1>1, <1>2, <1>3, <1>6, <1>7, <1>8, <1>9, <1>10, <1>11 DEF Move, Sound

\* A move of from that leaves the agenda alone
Build(g, h, from) ==
    /\ Move(g, h, from) /\ Builds(g, h) /\ h.callbacks = g.callbacks
    /\ UserIds(h) = UserIds(g)

\* What builds keeps the players and their NFTs.
LEMMA BuildFacts ==
    ASSUME NEW g, NEW h, NEW from, Build(g, h, from)
    PROVE  /\ Sound(h) /\ UserIds(h) = UserIds(g) /\ DOMAIN g.bal \subseteq DOMAIN h.bal
           /\ Holder(g) \subseteq Holder(h)
BY DEF Build, Move, Grows

\* Two moves that build are one.
LEMMA BuildTrans ==
    ASSUME NEW g, Sound(g), NEW h, NEW k, NEW from, Build(g, h, from), Build(h, k, from)
    PROVE  Build(g, k, from)
<1>1. Move(g, k, from)
  BY MoveTrans DEF Build
<1>2. Builds(g, k)
  BY BuildsTrans DEF Build, Move
<1>3. QED BY <1>1, <1>2 DEF Build

\* To do nothing builds nothing.
LEMMA IdleIsBuild ==
    ASSUME NEW g, Sound(g), NEW from
    PROVE  Build(g, g, from)
BY IdleIsMove DEF Build

\* The bills name the materials.
LEMMA BillFacts ==
    ASSUME NEW type \in PlantType, NEW i \in Bill, NEW scale \in Nat
    PROVE  Material(type, i) \in {steel, silicon, concrete} /\ Quantity(type, scale, i) \in Nat
<1>1. plant_prices[type][i][1] \in {steel, silicon, concrete} /\ plant_prices[type][i][2] \in Nat
  BY DEF PlantType, Bill, plant_prices, steel, silicon, concrete
<1>2. QED BY <1>1 DEF Material, Quantity

\* The materials of a plant are tokens.
LEMMA MaterialsExist ==
    ASSUME NEW g, Sound(g), NEW type \in PlantType, NEW i \in Bill
    PROVE  Material(type, i) \in DOMAIN g.bal /\ btc \in DOMAIN g.bal
<1>1. BaseToken \subseteq DOMAIN g.bal
  BY DEF Sound, Books, Wallets
<1>2. Material(type, i) \in {steel, silicon, concrete}
  BY BillFacts, 0 \in Nat
<1>3. QED BY <1>1, <1>2 DEF BaseToken

\* A new plant
LEMMA add_plantFacts ==
    ASSUME NEW g, Sound(g), NEW owner \in UserIds(g), NEW type \in PlantType,
           NEW scale \in Nat
    PROVE  LET h == add_plant(g, owner, type, scale)
           IN Build(g, h, owner) /\ h.alloc \in Holder(h) /\ NewNft(g, h, owner)
<1> DEFINE id == g.alloc + 1
           n == Put(g.nfts, id, [owner |-> owner, transfer_count |-> 0])
           w == scale * WattsPerScale
           p == Put(g.plants, id, [plant_type |-> type, watts |-> w])
           h == [g EXCEPT !.alloc = id, !.nfts = n, !.plants = p]
<1>1. DOMAIN g = Field
  BY DEF Sound, Books, Wallets
<1>2. w \in Nat
  <2>1. WattsPerScale \in Nat
    BY BoardAssumption, Zenon
  <2>2. QED BY ONLY <2>1, scale \in Nat
<1>3. add_plant(g, owner, type, scale) = h
  BY DEF add_plant
<1>4. /\ DOMAIN n = DOMAIN g.nfts \cup {id} /\ n[id].owner = owner
      /\ \A x \in DOMAIN g.nfts : x # id => n[x] = g.nfts[x]
  BY DEF Put
<1>5. /\ DOMAIN p = DOMAIN g.plants \cup {id} /\ p[id].watts \in Nat
      /\ \A x \in DOMAIN g.plants : x # id => p[x] = g.plants[x]
  BY <1>2 DEF Put
<1> HIDE DEF n, p, w
<1>6. /\ DOMAIN h = Field /\ h.alloc = id /\ h.nfts = n /\ h.plants = p
      /\ \A x \in Field \ {"alloc", "nfts", "plants"} : h[x] = g[x]
  BY <1>1 DEF Field
<1> HIDE DEF h
<1>7. NewId(g, h)
  BY <1>6 DEF NewId, Field
<1>8. NewNft(g, h, owner)
  BY <1>4, <1>5, <1>6, <1>7 DEF NewNft, Field
<1>9. QED BY <1>3, <1>8, NewNftFacts DEF Build

\* One of its materials is sent to it.
LEMMA PayFacts ==
    ASSUME NEW g, Sound(g), NEW owner \in UserIds(g), NEW type \in PlantType,
           NEW scale \in Nat, NEW i \in Bill, g.alloc \in Holder(g)
    PROVE  LET h == transfer(g, Material(type, i), owner, g.alloc, Quantity(type, scale, i))
           IN Build(g, h, owner) /\ h.alloc \in Holder(h)
<1> DEFINE t == Material(type, i)
           n == Quantity(type, scale, i)
           h == transfer(g, t, owner, g.alloc, n)
<1>1. t \in DOMAIN g.bal /\ n \in Nat
  BY MaterialsExist, BillFacts
<1>2. owner \in Holder(g) /\ owner \in Mine(g, owner)
  BY OwnedFacts DEF Sound, Mine
<1> HIDE DEF t, n
<1>3. /\ Move(g, h, owner) /\ Builds(g, h) /\ h.callbacks = g.callbacks
      /\ UserIds(h) = UserIds(g) /\ h.alloc = g.alloc
  <2>1. PICK to : to = g.alloc
    OBVIOUS
  <2>2. LET k == transfer(g, t, owner, to, n) IN
           /\ Move(g, k, owner) /\ Builds(g, k) /\ k.callbacks = g.callbacks
           /\ UserIds(k) = UserIds(g) /\ k.alloc = g.alloc
    BY <1>1, <1>2, <2>1, TransferIsMove
  <2>3. QED BY <2>1, <2>2
<1> HIDE DEF h
<1>4. Build(g, h, owner)
  BY <1>3 DEF Build
<1>5. h.alloc \in Holder(h)
  BY <1>3, <1>4, BuildFacts
<1>6. QED BY <1>4, <1>5 DEF h, t, n

\* pay_bill makes a plant and sends it materials of the player's.
LEMMA pay_billFacts ==
    ASSUME NEW g, Sound(g), NEW owner \in UserIds(g), NEW type \in PlantType,
           NEW scale \in Nat
    PROVE  Build(g, pay_bill(g, owner, type, scale), owner)
<1> DEFINE p == add_plant(g, owner, type, scale)
           Pay(h, i) == transfer(h, Material(type, i), owner, h.alloc,
                                 Quantity(type, scale, i))
           p1 == Pay(p, 1)
           p2 == Pay(p1, 2)
           p3 == Pay(p2, 3)
<1>1. pay_bill(g, owner, type, scale) = p3
  BY DEF pay_bill, OverBill
<1>2. Build(g, p, owner) /\ p.alloc \in Holder(p)
  BY add_plantFacts
<1>3. ASSUME NEW h, Build(g, h, owner), h.alloc \in Holder(h), NEW i \in Bill
      PROVE  Build(g, Pay(h, i), owner) /\ Pay(h, i).alloc \in Holder(Pay(h, i))
  <2>1. Sound(h) /\ owner \in UserIds(h)
    BY <1>3, BuildFacts
  <2>2. Build(h, Pay(h, i), owner) /\ Pay(h, i).alloc \in Holder(Pay(h, i))
    BY <1>3, <2>1, PayFacts
  <2> HIDE DEF Pay
  <2>3. QED BY <1>3, <2>2, BuildTrans
<1> HIDE DEF p, Pay
<1>4. 1 \in Bill /\ 2 \in Bill /\ 3 \in Bill
  BY DEF Bill
<1>5. Build(g, p1, owner) /\ p1.alloc \in Holder(p1)
  BY <1>2, <1>3, <1>4
<1> HIDE DEF p1
<1>6. Build(g, p2, owner) /\ p2.alloc \in Holder(p2)
  BY <1>3, <1>4, <1>5
<1> HIDE DEF p2
<1>7. Build(g, p3, owner)
  BY <1>3, <1>4, <1>6
<1>8. QED BY <1>1, <1>7 DEF p3, p2, p1, Pay, p

\* The outcomes of a move: ok, or why it was refused
MoveOut == Errors \cup {"ok", "expect"}

\* What a move of from may come to
Played(g, o, from) ==
    /\ Build(g, o.game, from) /\ o.out \in MoveOut

\* The fields of an outcome
LEMMA DoneFacts ==
    ASSUME NEW g, NEW out
    PROVE  /\ Done(g).game = g /\ Done(g).out = "ok"
           /\ Refused(g, out).game = g /\ Refused(g, out).out = out
BY DEF Done, Refused, Outcome

\* mint_power_plant is a move, refused or not.
LEMMA mint_power_plantFacts ==
    ASSUME NEW g, Sound(g), NEW owner \in UserIds(g), NEW m,
           m.plant_type \in PlantType, m.scale \in Nat
    PROVE  Played(g, mint_power_plant(g, m, owner), owner)
<1>1. CASE CanPayBill(g, owner, m.plant_type, m.scale)
  <2> DEFINE h == pay_bill(g, owner, m.plant_type, m.scale)
  <2>1. Build(g, h, owner)
    BY pay_billFacts
  <2>2. mint_power_plant(g, m, owner) = Done(h)
    BY <1>1 DEF mint_power_plant
  <2> HIDE DEF h
  <2>3. Done(h).game = h /\ Done(h).out = "ok"
    BY DoneFacts
  <2>4. QED BY <2>1, <2>2, <2>3 DEF Played, MoveOut
<1>2. CASE ~CanPayBill(g, owner, m.plant_type, m.scale)
  <2>1. mint_power_plant(g, m, owner) = Refused(g, "insufficient")
    BY <1>2 DEF mint_power_plant
  <2>2. Refused(g, "insufficient").game = g /\ Refused(g, "insufficient").out = "insufficient"
    BY DoneFacts
  <2>3. QED BY <2>1, <2>2, IdleIsBuild DEF Played, MoveOut, Errors
<1>3. QED BY <1>1, <1>2

\* A trade of from
LEMMA TradeIsPlayed ==
    ASSUME NEW g, Sound(g), NEW pair \in (DOMAIN g.bal) \X (DOMAIN g.bal),
           NEW a \in Nat, NEW b \in Nat, NEW sell \in BOOLEAN, NEW cap,
           NEW from \in UserIds(g)
    PROVE  Played(g, DoTrade(g, pair, a, b, sell, cap, FALSE, from), from)
<1> DEFINE o == DoTrade(g, pair, a, b, sell, cap, FALSE, from)
<1>1. Books(g) /\ from \in Holder(g) /\ {from} \subseteq Mine(g, from)
  BY OwnedFacts DEF Sound, Mine
<1>2. Dealt(g, o, from) /\ o.out \in Errors \cup {"ok"}
  <2>1. FALSE \in BOOLEAN
    OBVIOUS
  <2>2. QED BY <1>1, <2>1, TradeFacts
<1> HIDE DEF o
<1>3. LedgerStep(g, o.game, {from}) /\ Conserves(g, o.game)
  BY <1>2 DEF Dealt, Conserves
<1>4. Build(g, o.game, from)
  BY <1>1, <1>3, LedgerIsMove DEF Build
<1>5. Played(g, o, from)
  BY <1>2, <1>4 DEF Played, MoveOut
<1>6. QED BY <1>5 DEF o

\* The purchases of a bill's materials
LEMMA BuyMaterialsFacts ==
    ASSUME NEW g, Sound(g), NEW m, m.plant_type \in PlantType, m.scale \in Nat,
           NEW from \in UserIds(g)
    PROVE  Played(g, BuyMaterials(g, m, from), from)
<1> DEFINE Buy(o, i) ==
               IF o.out # "ok" THEN o
               ELSE do_buy_trade(o.game, <<Material(m.plant_type, i), btc>>,
                        Quantity(m.plant_type, m.scale, i), 0, NoCap, FALSE, from)
           o0 == Done(g)
           o1 == Buy(o0, 1)
           o2 == Buy(o1, 2)
           o3 == Buy(o2, 3)
<1>1. BuyMaterials(g, m, from) = o3
  BY DEF BuyMaterials, OverBill
<1>2. Played(g, o0, from)
  <2> HIDE DEF o0
  <2>1. o0.game = g /\ o0.out = "ok"
    BY DoneFacts DEF o0
  <2>2. QED BY <2>1, IdleIsBuild DEF Played, MoveOut
<1>3. ASSUME NEW o, Played(g, o, from), NEW i \in Bill
      PROVE  Played(g, Buy(o, i), from)
  <2>1. CASE o.out # "ok"
    BY <1>3, <2>1
  <2>2. CASE o.out = "ok"
    <3>1. PICK h, t, n : /\ h = o.game /\ t = Material(m.plant_type, i)
                         /\ n = Quantity(m.plant_type, m.scale, i)
      OBVIOUS
    <3>2. Build(g, h, from)
      BY <1>3, <3>1 DEF Played
    <3>3. Sound(h) /\ from \in UserIds(h)
      BY <3>2, BuildFacts
    <3>4. n \in Nat /\ 0 \in Nat
      BY <3>1, BillFacts
    <3>5. t \in DOMAIN h.bal /\ btc \in DOMAIN h.bal
      BY <3>1, <3>3, MaterialsExist
    <3>6. PICK pair : pair = <<t, btc>>
      OBVIOUS
    <3>7. pair \in (DOMAIN h.bal) \X (DOMAIN h.bal)
      BY <3>5, <3>6
    <3>8. Buy(o, i) = DoTrade(h, pair, n, 0, FALSE, NoCap, FALSE, from)
      BY <2>2, <3>1, <3>6 DEF do_buy_trade
    <3> HIDE DEF Buy
    <3>9. FALSE \in BOOLEAN
      OBVIOUS
    <3>10. Played(h, DoTrade(h, pair, n, 0, FALSE, NoCap, FALSE, from), from)
      BY <3>3, <3>4, <3>7, <3>9, TradeIsPlayed
    <3>11. Played(h, Buy(o, i), from)
      BY <3>8, <3>10
    <3>12. QED BY <3>2, <3>11, BuildTrans DEF Played
  <2>3. QED BY <2>1, <2>2
<1> HIDE DEF Buy, o0
<1>4. 1 \in Bill /\ 2 \in Bill /\ 3 \in Bill
  BY DEF Bill
<1>5. Played(g, o1, from)
  BY <1>2, <1>3, <1>4
<1> HIDE DEF o1
<1>6. Played(g, o2, from)
  BY <1>3, <1>4, <1>5
<1> HIDE DEF o2
<1>7. Played(g, o3, from)
  BY <1>3, <1>4, <1>6
<1>8. QED BY <1>1, <1>7 DEF o3, o2, o1, Buy, o0

\* An estimate leaves the board, once the markets are there or not, to the purchases.
LEMMA EstimateFacts ==
    ASSUME NEW g, Sound(g), NEW m, m.plant_type \in PlantType, m.scale \in Nat,
           NEW from \in UserIds(g)
    PROVE  /\ estimate_materials_cost(g, m, from).game = g
           /\ estimate_materials_cost(g, m, from).out \in Errors \cup {"ok"}
<1> DEFINE Step(o, i) ==
               LET quote == Quote(g, from, m, i)
               IN IF o.out # "ok" THEN o
                  ELSE IF quote.out # "ok" THEN Refused(g, quote.out)
                  ELSE Outcome(g, "ok", o.sold + quote.sold, 0)
           Good(o) == o.game = g /\ o.out \in Errors \cup {"ok"}
           o0 == Done(g)
           o1 == Step(o0, 1)
           o2 == Step(o1, 2)
           o3 == Step(o2, 3)
<1>1. estimate_materials_cost(g, m, from) = o3
  BY DEF estimate_materials_cost, OverBill
<1>2. Good(o0)
  <2>1. Done(g).game = g /\ Done(g).out = "ok"
    BY DoneFacts
  <2>2. QED BY <2>1
<1>3. ASSUME NEW o, Good(o), NEW i \in Bill
      PROVE  Good(Step(o, i))
  <2>1. PICK t, n, pair : /\ t = Material(m.plant_type, i) /\ pair = <<t, btc>>
                          /\ n = Quantity(m.plant_type, m.scale, i)
    OBVIOUS
  <2>2. n \in Nat /\ 0 \in Nat /\ FALSE \in BOOLEAN /\ TRUE \in BOOLEAN
    BY <2>1, BillFacts
  <2>3. t \in DOMAIN g.bal /\ btc \in DOMAIN g.bal
    BY <2>1, MaterialsExist
  <2>4. pair \in (DOMAIN g.bal) \X (DOMAIN g.bal)
    BY <2>1, <2>3
  <2>5. Books(g) /\ from \in Holder(g)
    BY OwnedFacts DEF Sound
  <2>6. Quote(g, from, m, i) = DoTrade(g, pair, n, 0, FALSE, NoCap, TRUE, from)
    BY <2>1 DEF Quote, do_buy_trade
  <2>7. DoTrade(g, pair, n, 0, FALSE, NoCap, TRUE, from).out \in Errors \cup {"ok"}
    BY <2>2, <2>4, <2>5, TradeFacts
  <2>8. PICK q : q = Quote(g, from, m, i) /\ q.out \in Errors \cup {"ok"}
    BY <2>6, <2>7
  <2>9. Step(o, i) = IF o.out # "ok" THEN o
                     ELSE IF q.out # "ok" THEN Refused(g, q.out)
                     ELSE Outcome(g, "ok", o.sold + q.sold, 0)
    BY <2>8
  <2> HIDE DEF Step
  <2>10. /\ Refused(g, q.out).game = g /\ Refused(g, q.out).out = q.out
         /\ Outcome(g, "ok", o.sold + q.sold, 0).game = g
         /\ Outcome(g, "ok", o.sold + q.sold, 0).out = "ok"
    BY DEF Refused, Outcome
  <2>11. QED BY <1>3, <2>8, <2>9, <2>10
<1> HIDE DEF Step, Good, o0
<1>4. 1 \in Bill /\ 2 \in Bill /\ 3 \in Bill
  BY DEF Bill
<1>5. Good(o1)
  BY <1>2, <1>3, <1>4
<1> HIDE DEF o1
<1>6. Good(o2)
  BY <1>3, <1>4, <1>5
<1> HIDE DEF o2
<1>7. Good(o3)
  BY <1>3, <1>4, <1>6
<1>8. QED BY <1>1, <1>7 DEF Good

\* super_mint is a move, whichever of its purchases fails.
LEMMA super_mintFacts ==
    ASSUME NEW g, Sound(g), NEW m, m.plant_type \in PlantType, m.scale \in Nat,
           NEW from \in UserIds(g)
    PROVE  Played(g, super_mint(g, m, from), from)
<1> DEFINE bought == BuyMaterials(g, m, from)
           estimate == estimate_materials_cost(g, m, from)
           o == super_mint(g, m, from)
<1>1. Played(g, bought, from) /\ estimate.game = g /\ estimate.out \in Errors \cup {"ok"}
  BY BuyMaterialsFacts, EstimateFacts
<1>2. \/ o = estimate
      \/ o = Refused(g, "insufficient")
      \/ o = Refused(bought.game, "expect")
      \/ o = mint_power_plant(bought.game, m, from)
  BY DEF super_mint
<1> SUFFICES Played(g, o, from)
  OBVIOUS
<1> HIDE DEF bought, estimate, o
<1>3. Build(g, bought.game, from) /\ Sound(bought.game) /\ from \in UserIds(bought.game)
  BY <1>1, BuildFacts DEF Played
<1>4. CASE o = estimate
  BY <1>1, <1>4, IdleIsBuild DEF Played, MoveOut
<1>5. CASE o = Refused(g, "insufficient")
  <2>1. o.game = g /\ o.out = "insufficient"
    BY <1>5, DoneFacts
  <2>2. QED BY <2>1, IdleIsBuild DEF Played, MoveOut, Errors
<1>6. CASE o = Refused(bought.game, "expect")
  <2>1. o.game = bought.game /\ o.out = "expect"
    BY <1>6, DoneFacts
  <2>2. QED BY <1>3, <2>1 DEF Played, MoveOut
<1>7. CASE o = mint_power_plant(bought.game, m, from)
  <2>1. PICK h : h = bought.game
    OBVIOUS
  <2>2. Played(h, mint_power_plant(h, m, from), from)
    BY <1>3, <2>1, mint_power_plantFacts
  <2>3. Played(h, o, from) /\ Build(g, h, from)
    BY <1>3, <1>7, <2>1, <2>2
  <2>4. QED BY <2>3, BuildTrans DEF Played
<1>8. QED BY <1>2, <1>4, <1>5, <1>6, <1>7

\* What a move does to the NFTs and their listings: an NFT's owner changes only
\* by a purchase of the mover's, who pays; only its owner lists it; and what ends a
\* listing delivers the NFT.
Sold(g, h, n, from) ==
    /\ n \in DOMAIN g.nft_sales
    /\ g.nft_sales[n].seller = g.nfts[n].owner /\ h.nfts[n].owner = from
    /\ balance_check(h, g.nft_sales[n].currency, g.nft_sales[n].seller)
          >= balance_check(g, g.nft_sales[n].currency, g.nft_sales[n].seller)
                + g.nft_sales[n].price
\* The NFT n over a transfer to from, which a lockup ignores
Handed(g, n, from) ==
    IF g.nfts[n].transfer_count = NonTransferrable THEN g.nfts[n]
    ELSE [owner |-> from, transfer_count |-> g.nfts[n].transfer_count + 1]
Deals(g, h, from) ==
    /\ DOMAIN g.nfts \subseteq DOMAIN h.nfts
    /\ \A n \in DOMAIN g.nfts : h.nfts[n].owner # g.nfts[n].owner => Sold(g, h, n, from)
    /\ \A n \in DOMAIN h.nft_sales :
          \/ n \in DOMAIN g.nft_sales /\ h.nft_sales[n] = g.nft_sales[n]
          \/ n \in DOMAIN g.nfts /\ g.nfts[n].owner = from
    /\ \A n \in DOMAIN g.nft_sales \ DOMAIN h.nft_sales : h.nfts[n] = Handed(g, n, from)

\* Where no NFT and no listing changes, no deal is made.
LEMMA BuildsIsDeals ==
    ASSUME NEW g, NEW h, NEW from, Builds(g, h)
    PROVE  Deals(g, h, from)
BY DEF Builds, Deals

\* Only owners and listings change.
LEMMA DealIsMove ==
    ASSUME NEW g, Sound(g), NEW h, NEW from, SameLedger(g, h), SameClock(g, h),
           h.plants = g.plants, DOMAIN h.nfts = DOMAIN g.nfts,
           \A n \in DOMAIN g.nfts : h.nfts[n].owner \in UserIds(g),
           \A n \in DOMAIN h.nft_sales :
              /\ n \in DOMAIN g.nfts
              /\ h.nft_sales[n].price \in Nat /\ h.nft_sales[n].currency \in DOMAIN g.bal
    PROVE  /\ Move(g, h, from) /\ h.callbacks = g.callbacks
           /\ \A u, x : balance_check(h, u, x) = balance_check(g, u, x)
<1>1. /\ h.setup = g.setup /\ h.bal = g.bal /\ h.total = g.total /\ h.users = g.users
      /\ h.callbacks = g.callbacks
      /\ \A u, x : balance_check(h, u, x) = balance_check(g, u, x)
      /\ Books(h) /\ Holder(h) = Holder(g) /\ UserIds(h) = UserIds(g)
      /\ Grows(g, h) /\ Gains(g, h) /\ Takes(g, h, {})
  BY SameLedgerFacts DEF Sound
<1>2. Lockup(h) = Lockup(g)
  BY DEF Lockup
<1>3. Event(h) = Event(g)
  BY <1>1, <1>2 DEF Event
<1>4. Agenda(h)
  BY <1>1, <1>3 DEF Agenda, Sound
<1>5. h.seq = g.seq /\ h.ticks = g.ticks /\ h.elapsed = g.elapsed
  BY DEF SameClock
<1>6. Registry(h)
  BY <1>1, <1>5 DEF Registry, Sound
<1>7. Takes(g, h, Mine(g, from)) /\ Conserves(g, h)
  BY <1>1 DEF Takes, Conserves
<1>8. QED BY <1>1, <1>4, <1>6, <1>7 DEF Move, Sound

\* What comes of a move
Result(g, o, from) == Move(g, o.game, from) /\ Deals(g, o.game, from) /\ o.out \in MoveOut

\* A move that only builds makes no deals.
LEMMA PlayedIsResult ==
    ASSUME NEW g, NEW o, NEW from, Played(g, o, from)
    PROVE  Result(g, o, from)
BY BuildsIsDeals DEF Played, Build, Result

\* A move that is done
LEMMA DoneIsResult ==
    ASSUME NEW g, NEW h, NEW from, Move(g, h, from), Deals(g, h, from)
    PROVE  Result(g, Done(h), from)
<1>1. Done(h).game = h /\ Done(h).out = "ok"
  BY DoneFacts
<1>2. QED BY <1>1 DEF Result, MoveOut

\* list_nft: only the owner lists.
LEMMA list_nftFacts ==
    ASSUME NEW g, Sound(g), NEW from \in UserIds(g), NEW m, m.nft \in DOMAIN g.nfts,
           m.price \in Nat, m.currency \in DOMAIN g.bal
    PROVE  Move(g, list_nft(g, m, from), from) /\ Deals(g, list_nft(g, m, from), from)
<1>1. CASE g.nfts[m.nft].owner # from
  <2>1. list_nft(g, m, from) = g
    BY <1>1 DEF list_nft
  <2>2. QED BY <2>1, IdleIsMove, BuildsIsDeals
<1>2. CASE g.nfts[m.nft].owner = from
  <2> DEFINE sale == [price |-> m.price, currency |-> m.currency, seller |-> from,
                      transfer_count |-> g.nfts[m.nft].transfer_count]
             s == Put(g.nft_sales, m.nft, sale)
             h == [g EXCEPT !.nft_sales = s]
  <2>1. DOMAIN g = Field
    BY DEF Sound, Books, Wallets
  <2>2. list_nft(g, m, from) = h
    BY <1>2 DEF list_nft
  <2>3. sale.price \in Nat /\ sale.currency \in DOMAIN g.bal
    OBVIOUS
  <2> HIDE DEF sale
  <2>4. /\ DOMAIN s = DOMAIN g.nft_sales \cup {m.nft} /\ s[m.nft] = sale
        /\ \A n \in DOMAIN g.nft_sales : n # m.nft => s[n] = g.nft_sales[n]
    BY DEF Put
  <2> HIDE DEF s
  <2>5. h.nft_sales = s /\ DOMAIN h = Field /\ \A x \in Field \ {"nft_sales"} : h[x] = g[x]
    BY <2>1 DEF Field
  <2> HIDE DEF h
  <2>6. /\ SameLedger(g, h) /\ SameClock(g, h) /\ h.plants = g.plants /\ h.nfts = g.nfts
    BY <2>5 DEF SameLedger, SameClock, Field
  <2>7. \A n \in DOMAIN h.nft_sales :
              /\ n \in DOMAIN g.nfts
              /\ h.nft_sales[n].price \in Nat /\ h.nft_sales[n].currency \in DOMAIN g.bal
    BY <2>3, <2>4, <2>5 DEF Sound, Registry
  <2>8. \A n \in DOMAIN g.nfts : h.nfts[n].owner \in UserIds(g)
    BY <2>6 DEF Sound, Registry
  <2>9. Move(g, h, from)
    BY <2>6, <2>7, <2>8, DealIsMove
  <2>10. Deals(g, h, from)
    BY <1>2, <2>4, <2>5, <2>6 DEF Deals
  <2>11. QED BY <2>2, <2>9, <2>10
<1>3. QED BY <1>1, <1>2

\* The NFT n goes to the buyer and its listing ends.
Delivers(g, h, n, from) ==
    /\ Move(g, h, from) /\ h.callbacks = g.callbacks
    /\ \A u, x : balance_check(h, u, x) = balance_check(g, u, x)
    /\ DOMAIN h.nfts = DOMAIN g.nfts
    /\ \A x \in DOMAIN g.nfts : x # n => h.nfts[x] = g.nfts[x]
    /\ h.nfts[n] = Handed(g, n, from)
    /\ DOMAIN h.nft_sales = DOMAIN g.nft_sales \ {n}
    /\ \A x \in DOMAIN h.nft_sales : h.nft_sales[x] = g.nft_sales[x]

\* nft_transfer and the end of the listing
LEMMA DeliverFacts ==
    ASSUME NEW g, Sound(g), NEW from \in UserIds(g), NEW n \in DOMAIN g.nfts
    PROVE  Delivers(g, [nft_transfer(g, n, from) EXCEPT
                           !.nft_sales = Restrict(@, DOMAIN @ \ {n})], n, from)
<1> DEFINE new == [owner |-> from, transfer_count |-> g.nfts[n].transfer_count + 1]
           c == IF g.nfts[n].transfer_count = NonTransferrable THEN g.nfts
                ELSE [g.nfts EXCEPT ![n] = new]
           t == nft_transfer(g, n, from)
           s == Restrict(g.nft_sales, DOMAIN g.nft_sales \ {n})
           h == [t EXCEPT !.nft_sales = Restrict(@, DOMAIN @ \ {n})]
<1>1. DOMAIN g = Field
  BY DEF Sound, Books, Wallets
<1>2. t.nfts = c /\ DOMAIN t = Field /\ \A x \in Field \ {"nfts"} : t[x] = g[x]
  BY <1>1 DEF nft_transfer, Field
<1>3. new.owner = from /\ Handed(g, n, from) = IF g.nfts[n].transfer_count = NonTransferrable
                                                 THEN g.nfts[n] ELSE new
  BY DEF Handed
<1> HIDE DEF new
<1>4. /\ DOMAIN c = DOMAIN g.nfts /\ \A x \in DOMAIN g.nfts : x # n => c[x] = g.nfts[x]
      /\ c[n] = Handed(g, n, from)
      /\ c[n].owner = g.nfts[n].owner \/ c[n].owner = from
  BY <1>3
<1> HIDE DEF t, c
<1>5. t.nft_sales = g.nft_sales
  BY <1>2 DEF Field
<1>6. h.nft_sales = s /\ DOMAIN h = Field /\ \A x \in Field \ {"nft_sales"} : h[x] = t[x]
  BY <1>2, <1>5 DEF Field
<1>7. /\ DOMAIN s = DOMAIN g.nft_sales \ {n} /\ \A x \in DOMAIN s : s[x] = g.nft_sales[x]
  BY DEF Restrict
<1> HIDE DEF s, h
<1>8. /\ SameLedger(g, h) /\ SameClock(g, h) /\ h.plants = g.plants /\ h.nfts = c
  BY <1>2, <1>6 DEF SameLedger, SameClock, Field
<1>9. \A x \in DOMAIN g.nfts : h.nfts[x].owner \in UserIds(g)
  BY <1>4, <1>8 DEF Sound, Registry
<1>10. \A x \in DOMAIN h.nft_sales :
              /\ x \in DOMAIN g.nfts
              /\ h.nft_sales[x].price \in Nat /\ h.nft_sales[x].currency \in DOMAIN g.bal
  BY <1>6, <1>7 DEF Sound, Registry
<1>11. DOMAIN h.nfts = DOMAIN g.nfts
  BY <1>4, <1>8
<1>12. /\ Move(g, h, from) /\ h.callbacks = g.callbacks
       /\ \A u, x : balance_check(h, u, x) = balance_check(g, u, x)
  BY <1>8, <1>9, <1>10, <1>11, DealIsMove
<1>13. Delivers(g, h, n, from)
  BY <1>4, <1>6, <1>7, <1>8, <1>12 DEF Delivers
<1>14. QED BY <1>13 DEF h, t

\* purchase: the NFT goes to the buyer against what it was listed for.
LEMMA purchaseFacts ==
    ASSUME NEW g, Sound(g), NEW from \in UserIds(g), NEW m, m.nft \in DOMAIN g.nfts
    PROVE  /\ Move(g, purchase(g, m, from), from) /\ Deals(g, purchase(g, m, from), from)
           /\ purchase(g, m, from).callbacks = g.callbacks
<1> DEFINE n == m.nft
           sale == g.nft_sales[n]
           seller == g.nfts[n].owner
           paid == transfer(g, sale.currency, from, seller, sale.price)
           h == [nft_transfer(paid, n, from) EXCEPT
                    !.nft_sales = Restrict(@, DOMAIN @ \ {n})]
<1>1. CASE purchase(g, m, from) = g
  BY <1>1, IdleIsMove, BuildsIsDeals
<1>2. CASE /\ Acceptable(g, m) /\ transfer_possible(g, sale.currency, from, sale.price)
           /\ purchase(g, m, from) = h
  <2>1. n \in DOMAIN g.nft_sales /\ sale.seller = seller
    BY <1>2 DEF Acceptable
  <2>2. sale.currency \in DOMAIN g.bal /\ sale.price \in Nat
    BY <2>1 DEF Sound, Registry
  <2>3. seller \in UserIds(g) /\ seller \in Holder(g) /\ from \in Holder(g)
        /\ from \in Mine(g, from)
    BY OwnedFacts DEF Sound, Registry, Mine
  <2>4. PICK t, k : t = sale.currency /\ k = sale.price
    OBVIOUS
  <2>5. paid = transfer(g, t, from, seller, k)
    BY <2>4
  <2>6. t \in DOMAIN g.bal /\ k \in Nat
    BY <2>2, <2>4
  <2>7. transfer_possible(g, t, from, k)
    BY <1>2, <2>4
  <2> HIDE DEF sale, seller
  <2>8. /\ Move(g, paid, from) /\ Builds(g, paid) /\ paid.nfts = g.nfts
        /\ paid.callbacks = g.callbacks /\ UserIds(paid) = UserIds(g)
    BY <2>3, <2>5, <2>6, TransferIsMove
  <2>9. balance_check(paid, t, seller) = balance_check(g, t, seller)
                                            + Moved(g, t, from, seller, k, t, seller)
    <3>1. Wallets(g) /\ from \in 1..g.alloc /\ seller \in 1..g.alloc
      BY <2>3 DEF Sound, Books, Holder
    <3>2. QED BY <2>5, <2>6, <3>1, TransferFacts
  <2>10. seller # from =>
            balance_check(paid, t, seller) >= balance_check(g, t, seller) + k
    <3>1. balance_check(g, t, seller) \in Nat
      BY <2>6, BooksTypes DEF Sound
    <3>2. QED BY <2>6, <2>7, <2>9, <3>1 DEF Moved
  <2> HIDE DEF paid
  <2>11. Sound(paid) /\ from \in UserIds(paid) /\ n \in DOMAIN paid.nfts
         /\ paid.nft_sales = g.nft_sales
    BY <2>8 DEF Move, Builds
  <2>12. /\ Move(paid, h, from) /\ h.callbacks = paid.callbacks
         /\ \A u, x : balance_check(h, u, x) = balance_check(paid, u, x)
         /\ DOMAIN h.nfts = DOMAIN paid.nfts
         /\ \A x \in DOMAIN paid.nfts : x # n => h.nfts[x] = paid.nfts[x]
         /\ h.nfts[n] = Handed(paid, n, from)
         /\ DOMAIN h.nft_sales = DOMAIN paid.nft_sales \ {n}
         /\ \A x \in DOMAIN h.nft_sales : h.nft_sales[x] = paid.nft_sales[x]
    <3> HIDE DEF n
    <3>1. Delivers(paid, h, n, from)
      BY <2>11, DeliverFacts
    <3> HIDE DEF h
    <3>2. QED BY ONLY <3>1 DEF Delivers
  <2> HIDE DEF h
  <2>13. Move(g, h, from)
    BY <2>8, <2>12, MoveTrans
  <2>14. \A x \in DOMAIN g.nfts : h.nfts[x].owner # g.nfts[x].owner => Sold(g, h, x, from)
    <3>1. SUFFICES ASSUME NEW x \in DOMAIN g.nfts, h.nfts[x].owner # g.nfts[x].owner
                   PROVE  Sold(g, h, x, from)
      OBVIOUS
    <3>2. x = n /\ h.nfts[n].owner = from /\ seller # from
      BY <2>8, <2>12, <3>1 DEF seller, Handed
    <3>3. balance_check(h, t, seller) >= balance_check(g, t, seller) + k
      BY <2>10, <2>12, <3>2
    <3>4. Sold(g, h, n, from)
      BY <2>1, <2>4, <3>2, <3>3 DEF Sold, sale, seller
    <3>5. QED BY <3>2, <3>4
  <2>15. \A x \in DOMAIN g.nft_sales \ DOMAIN h.nft_sales :
            h.nfts[x] = Handed(g, x, from)
    BY <2>8, <2>11, <2>12 DEF Handed
  <2>16. \A x \in DOMAIN h.nft_sales :
            x \in DOMAIN g.nft_sales /\ h.nft_sales[x] = g.nft_sales[x]
    BY <2>11, <2>12
  <2>17. Deals(g, h, from)
    BY <2>8, <2>12, <2>14, <2>15, <2>16 DEF Deals
  <2>18. QED BY <1>2, <2>8, <2>12, <2>13, <2>17
<1>3. \/ purchase(g, m, from) = g
      \/ /\ Acceptable(g, m) /\ transfer_possible(g, sale.currency, from, sale.price)
         /\ purchase(g, m, from) = h
  BY DEF purchase
<1>4. QED BY <1>1, <1>2, <1>3

\* The agenda after a lockup: its release is scheduled at the time 1.
Locks(g, h, m) ==
    \E id \in Lockup(h) : Added(g.callbacks, h.callbacks, 1,
                                [kind |-> "lockup", id |-> id, asset |-> m.currency])

\* lockup takes from the plant's owner, and schedules its release at the time 1.
LEMMA lockupFacts ==
    ASSUME NEW g, Sound(g), NEW m, m.nft \in DOMAIN g.plants, m.currency \in DOMAIN g.bal,
           m.amount \in Nat, NEW from \in UserIds(g), g.nfts[m.nft].owner = from
    PROVE  LET h == lockup(g, m.nft, from, m) IN
           Move(g, h, from) /\ Builds(g, h) /\ Locks(g, h, m)
<1> DEFINE id == g.alloc + 1
           nft == [owner |-> from, transfer_count |-> NonTransferrable]
           n == Put(g.nfts, id, nft)
           made == [g EXCEPT !.alloc = id, !.nfts = n]
           cb == [kind |-> "lockup", id |-> id, asset |-> m.currency]
           s == schedule(made, 1, cb)
           h == transfer(s, m.currency, m.nft, id, m.amount)
<1>1. DOMAIN g = Field
  BY DEF Sound, Books, Wallets
<1>2. lockup(g, m.nft, from, m) = h
  BY DEF lockup
<1>3. nft.owner = from
  OBVIOUS
<1> HIDE DEF nft
<1>4. /\ DOMAIN n = DOMAIN g.nfts \cup {id} /\ n[id].owner = from
      /\ \A x \in DOMAIN g.nfts : x # id => n[x] = g.nfts[x]
  BY <1>3 DEF Put
<1> HIDE DEF n
<1>5. /\ DOMAIN made = Field /\ made.alloc = id /\ made.nfts = n
      /\ \A x \in Field \ {"alloc", "nfts"} : made[x] = g[x]
  BY <1>1 DEF Field
<1> HIDE DEF made
<1>6. NewId(g, made) /\ made.plants = g.plants
  BY <1>5 DEF NewId, Field
<1>7. NewNft(g, made, from)
  BY <1>4, <1>5, <1>6 DEF NewNft, Field
<1>8. /\ Move(g, made, from) /\ Builds(g, made) /\ made.callbacks = g.callbacks
      /\ id \in Holder(made) /\ UserIds(made) = UserIds(g) /\ DOMAIN made.bal = DOMAIN g.bal
      /\ id \in Lockup(made)
  <2> HIDE DEF id
  <2>1. QED BY <1>5, <1>6, <1>7, NewNftFacts
<1>9. Sound(made)
  BY <1>8 DEF Move
<1>10. cb \in Event(made)
  <2>1. cb \in [kind : {"lockup"}, id : Lockup(made), asset : DOMAIN made.bal]
    BY <1>8
  <2>2. QED BY <2>1 DEF Event
<1> HIDE DEF cb
<1>11. /\ EventStep(made, s) /\ AgendaStep(made, s)
       /\ Added(made.callbacks, s.callbacks, 1, cb)
  <2>1. 1 \in Nat
    OBVIOUS
  <2>2. QED BY <1>9, <1>10, <2>1, ScheduleFacts
<1> HIDE DEF s
<1>12. /\ Sound(s) /\ s.bal = made.bal /\ s.total = made.total /\ Kept(made, s)
       /\ Holder(s) = Holder(made)
       /\ Grows(made, s) /\ Gains(made, s) /\ UserIds(s) = UserIds(made)
       /\ \A u, x : balance_check(s, u, x) = balance_check(made, u, x)
  BY <1>9, <1>11, AgendaStepFacts DEF EventStep, Sound
<1>13. Move(made, s, from) /\ Builds(made, s) /\ s.nfts = made.nfts /\ s.plants = made.plants
  <2>1. Takes(made, s, Mine(made, from))
    <3>1. \A u \in DOMAIN made.bal : \A x : balance_check(made, u, x) \in Nat
      BY <1>9, BooksTypes DEF Sound
    <3>2. QED BY <1>12, <3>1 DEF Takes
  <2>2. Conserves(made, s) /\ SameClock(made, s)
    BY <1>12 DEF Conserves, SameClock, Kept
  <2>3. s.nfts = made.nfts /\ s.plants = made.plants /\ s.nft_sales = made.nft_sales
    BY <1>12 DEF Kept
  <2>4. Builds(made, s)
    BY <2>3 DEF Builds
  <2>5. QED BY <1>12, <2>1, <2>2, <2>3, <2>4 DEF Move
<1>14. Move(g, s, from) /\ Builds(g, s)
  BY <1>8, <1>13, MoveTrans, BuildsTrans DEF Move
<1>15. PICK plant, t, k : plant = m.nft /\ t = m.currency /\ k = m.amount
  OBVIOUS
<1>16. /\ plant \in Holder(s) /\ plant \in Mine(s, from) /\ t \in DOMAIN s.bal /\ k \in Nat
       /\ id \in Holder(s)
  <2>1. plant \in DOMAIN g.plants /\ plant \in DOMAIN g.nfts /\ g.nfts[plant].owner = from
    BY <1>15 DEF Sound, Registry
  <2>2. plant \in DOMAIN s.nfts /\ s.nfts[plant] = g.nfts[plant]
    BY <1>14, <2>1 DEF Builds
  <2>3. plant \in Holder(s) /\ plant \in Mine(s, from)
    BY <1>12, <2>1, <2>2 DEF Sound, Registry, Mine
  <2>4. QED BY <1>8, <1>12, <1>15, <2>3
<1>17. h = transfer(s, t, plant, id, k)
  BY <1>15
<1> HIDE DEF id, h
<1>18. /\ Move(s, h, from) /\ Builds(s, h) /\ h.callbacks = s.callbacks
       /\ h.nfts = s.nfts /\ h.plants = s.plants
  BY <1>12, <1>16, <1>17, TransferIsMove
<1>19. Move(g, h, from) /\ Builds(g, h)
  BY <1>14, <1>18, MoveTrans, BuildsTrans DEF Move
<1>20. Locks(g, h, m)
  <2>1. Added(g.callbacks, h.callbacks, 1, cb)
    BY <1>8, <1>11, <1>18
  <2>2. Lockup(h) = Lockup(made)
    BY <1>13, <1>18 DEF Lockup
  <2>3. id \in Lockup(h)
    BY <1>8, <2>2
  <2>4. QED BY <2>1, <2>3 DEF Locks, cb
<1>21. QED BY <1>2, <1>19, <1>20

\* remove_tokens is a move: nobody else's plant is touched.
LEMMA remove_tokensFacts ==
    ASSUME NEW g, Sound(g), NEW m, m.nft \in DOMAIN g.nfts, m.currency \in DOMAIN g.bal,
           m.amount \in Nat, NEW from \in UserIds(g)
    PROVE  /\ Result(g, remove_tokens(g, m, from), from)
           /\ \/ remove_tokens(g, m, from).game.callbacks = g.callbacks
              \/ Locks(g, remove_tokens(g, m, from).game, m)
<1> DEFINE o == remove_tokens(g, m, from)
<1> SUFFICES /\ Result(g, o, from)
             /\ o.game.callbacks = g.callbacks \/ Locks(g, o.game, m)
  OBVIOUS
<1>1. CASE g.nfts[m.nft].owner # from
  <2>1. o = Done(g)
    BY <1>1 DEF remove_tokens
  <2> HIDE DEF o
  <2>2. o.game = g /\ o.out = "ok"
    BY <2>1, DoneFacts
  <2>3. QED BY <2>2, IdleIsMove, BuildsIsDeals DEF Result, MoveOut
<1>2. CASE g.nfts[m.nft].owner = from /\ m.nft \notin DOMAIN g.plants
  <2>1. o = Refused(g, "panic")
    BY <1>2 DEF remove_tokens
  <2> HIDE DEF o
  <2>2. o.game = g /\ o.out = "panic"
    BY <2>1, DoneFacts
  <2>3. QED BY <2>2, IdleIsMove, BuildsIsDeals DEF Result, MoveOut, Errors
<1>3. CASE g.nfts[m.nft].owner = from /\ m.nft \in DOMAIN g.plants
  <2> DEFINE h == lockup(g, m.nft, from, m)
  <2>1. o = Done(h)
    BY <1>3 DEF remove_tokens
  <2>2. Move(g, h, from) /\ Builds(g, h) /\ Locks(g, h, m)
    BY <1>3, lockupFacts
  <2> HIDE DEF o, h
  <2>3. o.game = h /\ o.out = "ok"
    BY <2>1, DoneFacts
  <2>4. QED BY <2>2, <2>3, BuildsIsDeals DEF Result, MoveOut
<1>4. QED BY <1>1, <1>2, <1>3

\* What a variant's fields are
LEMMA VariantFacts ==
    ASSUME NEW m \in Variant
    PROVE  /\ m.kind \in {"heartbeat", "chat", "trade", "mint", "super_mint", "purchase",
                          "list", "send", "remove"}
           /\ m.kind = "trade" => /\ m.pair \in Nat \X Nat /\ m.amount_a \in Nat
                                  /\ m.amount_b \in Nat /\ m.sell \in BOOLEAN
           /\ m.kind \in {"mint", "super_mint"} => m.plant_type \in PlantType /\ m.scale \in Nat
           /\ m.kind = "list" => m.price \in Nat
           /\ m.kind \in {"send", "remove"} => m.amount \in Nat
BY DEF Variant

\* A move, whatever it is
LEMMA PlayInnerFacts ==
    ASSUME NEW g, Sound(g), NEW m \in Variant, sanitize(g, m), NEW from \in UserIds(g)
    PROVE  /\ Result(g, play_inner(g, m, from), from)
           /\ \/ play_inner(g, m, from).game.callbacks = g.callbacks
              \/ Locks(g, play_inner(g, m, from).game, m)
<1> DEFINE o == play_inner(g, m, from)
<1> SUFFICES /\ Result(g, o, from)
             /\ o.game.callbacks = g.callbacks \/ Locks(g, o.game, m)
  OBVIOUS
<1>0. ASSUME Played(g, o, from)
      PROVE  /\ Result(g, o, from)
             /\ o.game.callbacks = g.callbacks \/ Locks(g, o.game, m)
  <2> HIDE DEF o
  <2>1. QED BY <1>0, PlayedIsResult DEF Played, Build
<1>1. CASE m.kind \in {"heartbeat", "chat"}
  <2>1. o = Done(g)
    BY <1>1 DEF play_inner
  <2> HIDE DEF o
  <2>2. o.game = g /\ o.out = "ok"
    BY <2>1, DoneFacts
  <2>3. QED BY <2>2, IdleIsMove, BuildsIsDeals DEF Result, MoveOut
<1>2. CASE m.kind = "trade"
  <2>1. o = DoTrade(g, m.pair, m.amount_a, m.amount_b, m.sell, m.cap, FALSE, from)
    BY <1>2 DEF play_inner
  <2>2. PICK pair, a, b, sell, cap : /\ pair = m.pair /\ a = m.amount_a /\ b = m.amount_b
                                     /\ sell = m.sell /\ cap = m.cap
    OBVIOUS
  <2>3. {pair[1], pair[2]} \subseteq DOMAIN g.bal
    BY <1>2, <2>2 DEF sanitize
  <2>4. pair \in Nat \X Nat /\ a \in Nat /\ b \in Nat /\ sell \in BOOLEAN
    BY <1>2, <2>2, VariantFacts
  <2>5. pair \in (DOMAIN g.bal) \X (DOMAIN g.bal)
    BY <2>3, <2>4
  <2>6. Played(g, DoTrade(g, pair, a, b, sell, cap, FALSE, from), from)
    BY <2>4, <2>5, TradeIsPlayed
  <2>7. QED BY <1>0, <2>1, <2>2, <2>6
<1>3. CASE m.kind = "mint"
  <2>1. o = mint_power_plant(g, m, from)
    BY <1>3 DEF play_inner
  <2>2. QED BY <1>0, <1>3, <2>1, VariantFacts, mint_power_plantFacts
<1>4. CASE m.kind = "super_mint"
  <2>1. o = super_mint(g, m, from)
    BY <1>4 DEF play_inner
  <2>2. QED BY <1>0, <1>4, <2>1, VariantFacts, super_mintFacts
<1>5. CASE m.kind = "purchase"
  <2> DEFINE h == purchase(g, m, from)
  <2>1. o = Done(h)
    BY <1>5 DEF play_inner
  <2>2. m.nft \in DOMAIN g.nfts
    BY <1>5 DEF sanitize
  <2>3. Move(g, h, from) /\ Deals(g, h, from) /\ h.callbacks = g.callbacks
    BY <2>2, purchaseFacts
  <2> HIDE DEF o, h
  <2>4. o.game = h /\ o.out = "ok"
    BY <2>1, DoneFacts
  <2>5. QED BY <2>3, <2>4 DEF Result, MoveOut
<1>6. CASE m.kind = "list"
  <2> DEFINE h == list_nft(g, m, from)
  <2>1. o = Done(h)
    BY <1>6 DEF play_inner
  <2>2. m.nft \in DOMAIN g.nfts /\ m.currency \in DOMAIN g.bal /\ m.price \in Nat
    BY <1>6, VariantFacts DEF sanitize
  <2>3. Move(g, h, from) /\ Deals(g, h, from) /\ h.callbacks = g.callbacks
    <3>1. Move(g, h, from) /\ Deals(g, h, from)
      BY <2>2, list_nftFacts
    <3>2. h.callbacks = g.callbacks
      BY DEF list_nft
    <3>3. QED BY <3>1, <3>2
  <2> HIDE DEF o, h
  <2>4. o.game = h /\ o.out = "ok"
    BY <2>1, DoneFacts
  <2>5. QED BY <2>3, <2>4 DEF Result, MoveOut
<1>7. CASE m.kind = "send"
  <2>1. PICK t, to, k : t = m.currency /\ to = m.to /\ k = m.amount
    OBVIOUS
  <2> DEFINE h == transfer(g, t, from, to, k)
  <2>2. o = Done(h)
    BY <1>7, <2>1 DEF play_inner
  <2>3. to \in UserIds(g) \cup DOMAIN g.nfts /\ t \in DOMAIN g.bal /\ k \in Nat
    BY <1>7, <2>1, VariantFacts DEF sanitize
  <2>4. to \in Holder(g) /\ from \in Holder(g) /\ from \in Mine(g, from)
    BY <2>3, OwnedFacts DEF Sound, Registry, Mine
  <2>5. Move(g, h, from) /\ Builds(g, h) /\ h.callbacks = g.callbacks
    BY <2>3, <2>4, TransferIsMove
  <2> HIDE DEF o, h
  <2>6. o.game = h /\ o.out = "ok"
    BY <2>2, DoneFacts
  <2>7. QED BY <2>5, <2>6, BuildsIsDeals DEF Result, MoveOut
<1>8. CASE m.kind = "remove"
  <2>1. o = remove_tokens(g, m, from)
    BY <1>8 DEF play_inner
  <2>2. m.nft \in DOMAIN g.nfts /\ m.currency \in DOMAIN g.bal /\ m.amount \in Nat
    BY <1>8, VariantFacts DEF sanitize
  <2>3. QED BY <2>1, <2>2, remove_tokensFacts
<1>9. QED BY <1>1, <1>2, <1>3, <1>4, <1>5, <1>6, <1>7, <1>8, VariantFacts

-----------------------------------------------------------------------------
(* A new game *)

\* The board that new_game starts from is sound.
LEMMA EmptyGame ==
    ASSUME NEW setup \in DOMAIN Setup
    PROVE  /\ Sound(no_game(setup)) /\ root_user \in Holder(no_game(setup))
           /\ DOMAIN no_game(setup).users = {} /\ DOMAIN no_game(setup).nfts = {}
<1> DEFINE g == no_game(setup)
<1>1. /\ DOMAIN g = Field /\ g.setup = setup /\ g.alloc = 7
      /\ g.bal = [t \in BaseToken |-> <<>>] /\ g.total = [t \in BaseToken |-> 0]
      /\ g.markets = <<>> /\ g.users = <<>> /\ g.nfts = <<>> /\ g.plants = <<>>
      /\ g.nft_sales = <<>> /\ g.seq = <<>> /\ g.ticks = <<>> /\ g.elapsed = 0
      /\ g.callbacks = <<>>
  BY DEF no_game, Field, root_user
<1> HIDE DEF g
<1>2. DOMAIN <<>> = {}
  OBVIOUS
<1>3. BaseToken \subseteq 1..7
  BY DEF BaseToken, btc, real_sats, concrete, asic, steel, silicon
<1>4. Wallets(g)
  <2>1. ASSUME NEW t \in BaseToken
        PROVE  /\ DOMAIN g.bal[t] \subseteq 1..g.alloc
               /\ \A e \in DOMAIN g.bal[t] : g.bal[t][e] \in Nat
               /\ g.total[t] = Sum(g.bal[t], DOMAIN g.bal[t])
    <3>1. g.bal[t] = <<>> /\ DOMAIN g.bal[t] = {} /\ g.total[t] = 0
      BY <1>1, <1>2
    <3>2. Sum(g.bal[t], {}) = 0
      BY SumEmpty
    <3>3. QED BY <3>1, <3>2
  <2>2. DOMAIN g.bal = BaseToken /\ DOMAIN g.total = BaseToken
    BY <1>1
  <2>3. QED BY <1>1, <1>3, <2>1, <2>2 DEF Wallets
<1>5. Books(g) /\ MarketIds(g) = {}
  BY <1>1, <1>2, <1>4 DEF Books, Markets, MarketIds
<1>6. 7 \in Holder(g)
  BY <1>1, <1>5 DEF Holder
<1>7. Registry(g) /\ Agenda(g)
  BY <1>1, <1>2 DEF Registry, Agenda
<1>8. QED BY <1>1, <1>2, <1>5, <1>6, <1>7 DEF Sound, g, root_user

\* While a game is made: h grows from g, and the users and NFTs of g stay.
Made(g, h) ==
    /\ Sound(h) /\ Grows(g, h) /\ h.users = g.users /\ h.setup = g.setup

\* Two steps of new_game, one after the other
LEMMA MadeTrans ==
    ASSUME NEW g, NEW h, NEW k, Sound(g), Made(g, h), Made(h, k)
    PROVE  Made(g, k)
<1>1. Sound(h) /\ Sound(k) /\ g.alloc \in Nat /\ h.alloc \in Nat /\ k.alloc \in Nat
  BY BooksTypes DEF Made, Sound
<1>2. Grows(g, k)
  BY <1>1 DEF Made, Grows
<1>3. QED BY <1>2 DEF Made

\* A step of the ledger while the game is made
LEMMA LedgerIsMade ==
    ASSUME NEW g, Sound(g), NEW h, NEW S, LedgerStep(g, h, S)
    PROVE  Made(g, h)
BY LedgerKeeps DEF Made, LedgerStep, Kept

\* What new_game mints keeps the books.
LEMMA MintIsMade ==
    ASSUME NEW g, Sound(g), NEW t \in DOMAIN g.bal, NEW e \in Holder(g), NEW n \in Nat
    PROVE  Made(g, mint(g, t, e, n))
<1>1. Books(g)
  BY DEF Sound
<1>2. LedgerStep(g, mint(g, t, e, n), {})
  BY <1>1, MintStep
<1>3. QED BY <1>2, LedgerIsMade

\* The six tokens are tokens of the game that is made.
LEMMA BaseTokens ==
    ASSUME NEW g, Sound(g)
    PROVE  {btc, real_sats, concrete, asic, steel, silicon} \subseteq DOMAIN g.bal
BY DEF Sound, Books, Wallets, BaseToken

\* A player joins.
LEMMA add_userFacts ==
    ASSUME NEW g, Sound(g), NEW key, key \notin DOMAIN g.users
    PROVE  LET h == add_user(g, key) IN
           /\ Sound(h) /\ Grows(g, h) /\ h.setup = g.setup
           /\ DOMAIN h.users = DOMAIN g.users \cup {key}
<1> DEFINE id == g.alloc + 1
           u == Put(g.users, key, id)
           i == [g EXCEPT !.alloc = id, !.users = u]
           amount == Setup[g.setup].start_amount
           m1 == mint(i, real_sats, id, amount)
           m2 == mint(m1, btc, id, amount)
<1>1. DOMAIN g = Field
  BY DEF Sound, Books, Wallets
<1>2. add_user(g, key) = m2
  BY DEF add_user
<1>3. /\ DOMAIN u = DOMAIN g.users \cup {key} /\ u[key] = id
      /\ \A k \in DOMAIN g.users : u[k] = g.users[k]
  BY DEF Put
<1> HIDE DEF u
<1>4. /\ DOMAIN i = Field /\ i.alloc = id /\ i.users = u
      /\ \A x \in Field \ {"alloc", "users"} : i[x] = g[x]
  BY <1>1 DEF Field
<1> HIDE DEF i
<1>5. NewId(g, i)
  BY <1>4 DEF NewId, Field
<1>6. /\ i.bal = g.bal /\ Books(i) /\ Grows(g, i)
      /\ Holder(i) = Holder(g) \cup {id} /\ id \notin Holder(g)
  BY <1>4, <1>5, NewIdFacts DEF Sound
<1> HIDE DEF id
<1>7. /\ i.setup = g.setup /\ i.nfts = g.nfts /\ i.plants = g.plants
      /\ i.nft_sales = g.nft_sales /\ i.seq = g.seq /\ i.ticks = g.ticks
      /\ i.elapsed = g.elapsed /\ i.callbacks = g.callbacks
  BY <1>4 DEF Field
<1>8. UserIds(i) = UserIds(g) \cup {id}
  BY <1>3, <1>4 DEF UserIds
<1>9. /\ DOMAIN g.nfts \subseteq Holder(g) \ UserIds(g) /\ UserIds(g) \subseteq Holder(g)
  BY OwnedFacts DEF Sound, Registry
<1>10. Registry(i)
  <2>1. \A n \in DOMAIN i.nfts : n \in Holder(i) \ UserIds(i) /\ i.nfts[n].owner \in UserIds(i)
    BY <1>6, <1>7, <1>8, <1>9 DEF Sound, Registry
  <2>2. \A k \in DOMAIN i.users : i.users[k] \in Holder(i)
    BY <1>3, <1>4, <1>6 DEF Sound, Registry
  <2>3. QED BY <1>6, <1>7, <1>8, <2>1, <2>2 DEF Sound, Registry
<1>11. Agenda(i)
  <2>1. Lockup(i) = Lockup(g)
    BY <1>7 DEF Lockup
  <2>2. Holder(g) \ (UserIds(g) \cup DOMAIN g.nfts)
            \subseteq Holder(i) \ (UserIds(i) \cup DOMAIN i.nfts)
    BY <1>6, <1>7, <1>8
  <2>3. Event(g) \subseteq Event(i)
    BY <1>6, <2>1, <2>2 DEF Event
  <2>4. QED BY <1>7, <2>3, AgendaKept DEF Sound
<1>12. Sound(i)
  BY <1>6, <1>10, <1>11 DEF Sound
<1>13. amount \in Nat
  BY BoardAssumption DEF Sound, Registry
<1> HIDE DEF amount
<1>14. Made(i, m1)
  <2>1. real_sats \in DOMAIN i.bal
    BY <1>12, BaseTokens
  <2>2. QED BY <1>6, <1>12, <1>13, <2>1, MintIsMade
<1> HIDE DEF m1
<1>15. Made(m1, m2)
  <2>1. Sound(m1) /\ id \in Holder(m1)
    BY <1>6, <1>14 DEF Made, Grows
  <2>2. btc \in DOMAIN m1.bal
    BY <2>1, BaseTokens
  <2>3. QED BY <1>13, <2>1, <2>2, MintIsMade
<1> HIDE DEF m2
<1>16. Made(i, m2)
  BY <1>12, <1>14, <1>15, MadeTrans
<1>17. Sound(m2) /\ m2.setup = g.setup /\ DOMAIN m2.users = DOMAIN g.users \cup {key}
  BY <1>3, <1>4, <1>7, <1>16 DEF Made
<1>18. Grows(g, m2)
  <2>1. g.alloc \in Nat /\ i.alloc \in Nat /\ m2.alloc \in Nat
    BY <1>12, <1>17, BooksTypes DEF Sound
  <2>2. QED BY <1>6, <1>16, <2>1 DEF Made, Grows
<1>19. QED BY <1>2, <1>17, <1>18

\* The players join one after the other.
Joins(setup, f) ==
    /\ f[0] = no_game(setup) /\ WithUsers(setup) = f[Len(Players)]
    /\ \A i \in 1..Len(Players) : f[i] = add_user(f[i - 1], Players[i])

\* WithUsers is the last of the boards that its players lead to.
LEMMA WithUsersUnfolds ==
    ASSUME NEW setup
    PROVE  \E f : Joins(setup, f)
<1> DEFINE Step(x, i) == add_user(x, Players[i])
           Fold(f, n) == f = [i \in 0..n |-> IF i = 0 THEN no_game(setup) ELSE Step(f[i - 1], i)]
           T == {n \in Nat : \E f : Fold(f, n)}
<1>0. Len(Players) \in Nat
  BY BoardAssumption, LenProperties
<1>1. WithUsers(setup) = (CHOOSE f : Fold(f, Len(Players)))[Len(Players)]
  BY DEF WithUsers
<1> HIDE DEF Step
<1>2. 0 \in T
  <2> DEFINE f == [i \in 0..0 |-> no_game(setup)]
  <2>1. Fold(f, 0)
    OBVIOUS
  <2>2. QED BY <2>1
<1>3. ASSUME NEW n \in Nat, n \in T PROVE n + 1 \in T
  <2>1. PICK f : Fold(f, n)
    BY <1>3
  <2> DEFINE k == [i \in 0..(n + 1) |-> IF i = n + 1 THEN Step(f[n], i) ELSE f[i]]
  <2>2. \A i \in 0..n : f[i] = IF i = 0 THEN no_game(setup) ELSE Step(f[i - 1], i)
    BY <2>1
  <2>3. ASSUME NEW i \in 0..(n + 1)
        PROVE  k[i] = IF i = 0 THEN no_game(setup) ELSE Step(k[i - 1], i)
    <3>1. CASE i = n + 1
      BY <3>1
    <3>2. CASE i # n + 1
      <4>1. i \in 0..n /\ (i # 0 => i - 1 \in 0..n /\ i - 1 # n + 1)
        BY <3>2
      <4>2. QED BY <2>2, <4>1
    <3>3. QED BY <3>1, <3>2
  <2>4. Fold(k, n + 1)
    <3>1. k = [i \in 0..(n + 1) |-> k[i]]
      OBVIOUS
    <3> HIDE DEF k
    <3>2. QED BY <2>3, <3>1
  <2> HIDE DEF k, Fold
  <2>5. QED BY <2>4
<1>4. \E f : Fold(f, Len(Players))
  <2>1. Len(Players) \in T
    <3> HIDE DEF T
    <3>1. QED BY <1>0, <1>2, <1>3, Induction
  <2>2. QED BY <2>1
<1>5. PICK f : Fold(f, Len(Players)) /\ WithUsers(setup) = f[Len(Players)]
  <2> HIDE DEF Fold
  <2>1. QED BY <1>1, <1>4
<1>6. f[0] = no_game(setup) /\ \A i \in 1..Len(Players) : f[i] = Step(f[i - 1], i)
  BY <1>0, <1>5
<1>7. Joins(setup, f)
  BY <1>5, <1>6 DEF Step, Joins
<1>8. QED BY <1>7

\* Each player joins, with an EntityID of its own.
LEMMA WithUsersFacts ==
    ASSUME NEW setup \in DOMAIN Setup
    PROVE  LET g == WithUsers(setup) IN
           /\ Sound(g) /\ root_user \in Holder(g)
           /\ DOMAIN g.users = {Players[i] : i \in DOMAIN Players}
<1>1. PICK f : Joins(setup, f)
  BY WithUsersUnfolds
<1>2. Len(Players) \in Nat /\ DOMAIN Players = 1..Len(Players)
      /\ \A i, j \in 1..Len(Players) : Players[i] = Players[j] => i = j
  BY BoardAssumption, LenProperties DEF IsInjective
<1> DEFINE N == Len(Players)
           Good(i) == /\ Sound(f[i]) /\ root_user \in Holder(f[i])
                      /\ DOMAIN f[i].users = {Players[j] : j \in 1..i}
           T == {i \in Nat : i <= N => Good(i)}
<1>3. 0 \in T
  <2>1. f[0] = no_game(setup) /\ 1..0 = {}
    BY <1>1 DEF Joins
  <2>2. QED BY <2>1, EmptyGame
<1>4. ASSUME NEW i \in Nat, i \in T PROVE i + 1 \in T
  <2>1. SUFFICES ASSUME i + 1 <= N PROVE Good(i + 1)
    OBVIOUS
  <2>2. Good(i) /\ i + 1 \in 1..N /\ (i + 1) - 1 = i
    BY <1>2, <1>4, <2>1
  <2>3. PICK g, key : g = f[i] /\ key = Players[i + 1]
    OBVIOUS
  <2>4. f[i + 1] = add_user(g, key)
    BY <1>1, <2>2, <2>3 DEF Joins
  <2>5. key \notin DOMAIN g.users
    <3>1. \A j \in 1..i : j \in 1..N /\ j # i + 1
      BY <1>2, <2>2
    <3>2. QED BY <1>2, <2>2, <2>3, <3>1
  <2>6. Sound(g) /\ root_user \in Holder(g) /\ DOMAIN g.users = {Players[j] : j \in 1..i}
    BY <2>2, <2>3
  <2>7. /\ Sound(f[i + 1]) /\ Grows(g, f[i + 1])
        /\ DOMAIN f[i + 1].users = DOMAIN g.users \cup {key}
    BY <2>4, <2>5, <2>6, add_userFacts
  <2>8. {Players[j] : j \in 1..(i + 1)} = {Players[j] : j \in 1..i} \cup {key}
    <3>1. 1..(i + 1) = (1..i) \cup {i + 1}
      OBVIOUS
    <3>2. QED BY <2>3, <3>1
  <2>9. root_user \in Holder(f[i + 1])
    BY <2>6, <2>7 DEF Grows
  <2>10. QED BY <2>6, <2>7, <2>8, <2>9
<1>5. Good(N)
  <2>1. N \in T
    <3> HIDE DEF T
    <3>1. QED BY <1>2, <1>3, <1>4, Induction
  <2>2. QED BY <1>2, <2>1
<1>6. WithUsers(setup) = f[N]
  BY <1>1 DEF Joins
<1>7. QED BY <1>2, <1>5, <1>6

\* The markets of the materials are there.
Stalls(g) == \A t \in Material4 : <<btc, t>> \in DOMAIN g.markets

\* The four markets are made, each with an account of its own.
LEMMA WithMarketsFacts ==
    ASSUME NEW g, Sound(g)
    PROVE  Made(g, WithMarkets(g)) /\ Stalls(WithMarkets(g))
<1> DEFINE g1 == ensure(g, <<btc, steel>>)
           g2 == ensure(g1, <<btc, silicon>>)
           g3 == ensure(g2, <<btc, concrete>>)
           g4 == ensure(g3, <<btc, asic>>)
<1>1. ASSUME NEW h, Sound(h), NEW t \in {steel, silicon, concrete, asic}
      PROVE  /\ Made(h, ensure(h, <<btc, t>>))
             /\ <<btc, t>> \in DOMAIN ensure(h, <<btc, t>>).markets
  <2>1. PICK p : p = <<btc, t>>
    OBVIOUS
  <2>2. p \in (DOMAIN h.bal) \X (DOMAIN h.bal)
    BY <2>1, <1>1, BaseTokens
  <2>3. normalize(p) = p
    BY <2>1 DEF normalize, btc, steel, silicon, concrete, asic
  <2>4. LedgerStep(h, ensure(h, p), {}) /\ normalize(p) \in DOMAIN ensure(h, p).markets
    BY <1>1, <2>2, EnsureStep DEF Sound
  <2>5. Made(h, ensure(h, p))
    BY <1>1, <2>4, LedgerIsMade
  <2>6. QED BY <2>1, <2>3, <2>4, <2>5
<1>2. WithMarkets(g) = g4
  BY DEF WithMarkets
<1>3. Made(g, g1) /\ <<btc, steel>> \in DOMAIN g1.markets
  BY <1>1
<1> HIDE DEF g1
<1>4. Made(g1, g2) /\ <<btc, silicon>> \in DOMAIN g2.markets
  BY <1>1, <1>3 DEF Made
<1> HIDE DEF g2
<1>5. Made(g2, g3) /\ <<btc, concrete>> \in DOMAIN g3.markets
  BY <1>1, <1>4 DEF Made
<1> HIDE DEF g3
<1>6. Made(g3, g4) /\ <<btc, asic>> \in DOMAIN g4.markets
  BY <1>1, <1>5 DEF Made
<1> HIDE DEF g4
<1>7. Made(g, g4)
  <2>1. Made(g, g2)
    BY <1>3, <1>4, MadeTrans
  <2>2. Made(g, g3)
    BY <1>5, <2>1, MadeTrans
  <2>3. QED BY <1>6, <2>2, MadeTrans
<1>8. Stalls(g4)
  BY <1>3, <1>4, <1>5, <1>6 DEF Stalls, Material4, Made, Grows
<1>9. QED BY <1>2, <1>7, <1>8

\* The host's tokens keep the books.
LEMMA WithRootFacts ==
    ASSUME NEW g, Sound(g), root_user \in Holder(g)
    PROVE  Made(g, WithRoot(g))
<1> DEFINE g1 == mint(g, btc, root_user, RootSats)
           g2 == mint(g1, real_sats, root_user, RootRealSats)
<1>1. RootSats \in Nat /\ RootRealSats \in Nat
  BY BoardAssumption
<1>2. WithRoot(g) = g2
  BY DEF WithRoot
<1>3. Made(g, g1)
  BY <1>1, BaseTokens, MintIsMade
<1> HIDE DEF g1
<1>4. Made(g1, g2)
  <2>1. Sound(g1) /\ root_user \in Holder(g1)
    BY <1>3 DEF Made, Grows
  <2>2. real_sats \in DOMAIN g1.bal
    BY <2>1, BaseTokens
  <2>3. QED BY <1>1, <2>1, <2>2, MintIsMade
<1> HIDE DEF g2
<1>5. QED BY <1>2, <1>3, <1>4, MadeTrans

\* A producer gets its EntityID and is scheduled.
LEMMA add_producerFacts ==
    ASSUME NEW g, Sound(g), NEW i \in 1..4
    PROVE  Made(g, add_producer(g, Producers[i]))
<1> DEFINE id == g.alloc + 1
           h == [g EXCEPT !.alloc = id]
           p == Producers[i]
           cb == [kind |-> p.kind, asset |-> p.asset, id |-> id, first |-> TRUE]
           k == schedule(h, 0, cb)
<1>1. DOMAIN g = Field
  BY DEF Sound, Books, Wallets
<1>2. add_producer(g, Producers[i]) = k
  BY DEF add_producer
<1>3. /\ p.kind \in ProducerKind /\ p.asset \in BaseToken \ {btc}
      /\ <<p.kind, p.asset>> \in {<<"asic", asic>>, <<"steel", steel>>,
                        <<"silicon", silicon>>, <<"concrete", concrete>>}
  BY DEF Producers, ProducerKind, BaseToken, btc, real_sats, asic, steel, silicon, concrete
<1> HIDE DEF p
<1>4. DOMAIN h = Field /\ h.alloc = id /\ \A x \in Field \ {"alloc"} : h[x] = g[x]
  BY <1>1 DEF Field
<1> HIDE DEF h
<1>5. NewId(g, h)
  BY <1>4 DEF NewId, Field
<1>6. /\ h.bal = g.bal /\ Books(h) /\ Grows(g, h)
      /\ Holder(h) = Holder(g) \cup {id} /\ id \notin Holder(g)
  BY <1>4, <1>5, NewIdFacts DEF Sound
<1> HIDE DEF id
<1>7. Kept(g, h) /\ h.callbacks = g.callbacks
  BY <1>4 DEF Field, Kept
<1>8. Registry(h) /\ UserIds(h) = UserIds(g) /\ Event(g) \subseteq Event(h)
  BY <1>6, <1>7, RegistryKept DEF Sound
<1>9. Sound(h)
  BY <1>6, <1>7, <1>8, AgendaKept DEF Sound
<1>10. cb \in Event(h)
  <2>1. id \in Holder(h) \ (UserIds(h) \cup DOMAIN h.nfts)
    <3>1. UserIds(g) \cup DOMAIN g.nfts \subseteq Holder(g)
      BY OwnedFacts DEF Sound, Registry
    <3>2. h.nfts = g.nfts
      BY <1>7 DEF Kept
    <3>3. QED BY <1>6, <1>8, <3>1, <3>2
  <2>2. cb \in [kind : ProducerKind, asset : BaseToken \ {btc},
                id : Holder(h) \ (UserIds(h) \cup DOMAIN h.nfts), first : BOOLEAN]
        /\ cb.kind = p.kind /\ cb.asset = p.asset
    BY <1>3, <2>1
  <2> HIDE DEF cb
  <2>3. QED BY <1>3, <2>2 DEF Event
<1> HIDE DEF cb
<1>11. EventStep(h, k)
  <2>1. 0 \in Nat
    OBVIOUS
  <2>2. QED BY <1>9, <1>10, <2>1, ScheduleFacts
<1> HIDE DEF k
<1>12. Made(h, k)
  BY <1>11 DEF EventStep, Made, Kept
<1>13. Made(g, h)
  BY <1>6, <1>7, <1>9 DEF Made, Kept
<1>14. QED BY <1>2, <1>12, <1>13, MadeTrans

\* The payout and the four producers are scheduled.
LEMMA WithProducersFacts ==
    ASSUME NEW g, Sound(g)
    PROVE  Made(g, WithProducers(g))
<1> DEFINE cb == [kind |-> "payout"]
           g0 == schedule(g, 0, cb)
           g1 == add_producer(g0, Producers[1])
           g2 == add_producer(g1, Producers[2])
           g3 == add_producer(g2, Producers[3])
           g4 == add_producer(g3, Producers[4])
<1>1. WithProducers(g) = g4
  BY DEF WithProducers
<1>2. cb \in Event(g) /\ 0 \in Nat
  BY DEF Event
<1> HIDE DEF cb
<1>3. EventStep(g, g0)
  BY <1>2, ScheduleFacts
<1> HIDE DEF g0
<1>4. Made(g, g0)
  BY <1>3 DEF EventStep, Made, Kept
<1>5. 1 \in 1..4 /\ 2 \in 1..4 /\ 3 \in 1..4 /\ 4 \in 1..4
  OBVIOUS
<1>6. ASSUME NEW h, Made(g, h), NEW i \in 1..4 PROVE Made(g, add_producer(h, Producers[i]))
  <2>1. Made(h, add_producer(h, Producers[i]))
    BY <1>6, add_producerFacts DEF Made
  <2>2. QED BY <1>6, <2>1, MadeTrans
<1>7. Made(g, g1)
  BY <1>4, <1>5, <1>6
<1> HIDE DEF g1
<1>8. Made(g, g2)
  BY <1>5, <1>6, <1>7
<1> HIDE DEF g2
<1>9. Made(g, g3)
  BY <1>5, <1>6, <1>8
<1> HIDE DEF g3
<1>10. Made(g, g4)
  BY <1>5, <1>6, <1>9
<1>11. QED BY <1>1, <1>10

\* A player's first plant
LEMMA add_start_plantFacts ==
    ASSUME NEW g, Sound(g), NEW i \in DOMAIN Players, Players[i] \in DOMAIN g.users
    PROVE  Made(g, add_start_plant(g, i))
<1> DEFINE owner == g.users[Players[i]]
           h == add_plant(g, owner, StartPlants[i], 1)
           k == mint(h, asic, h.alloc, 1)
<1>1. owner \in UserIds(g)
  BY DEF UserIds
<1>2. StartPlants[i] \in PlantType /\ 1 \in Nat
  <2>1. /\ Players \in Seq(STRING) /\ StartPlants \in Seq(PlantType)
        /\ Len(Players) <= Len(StartPlants)
    BY BoardAssumption, Zenon
  <2>2. i \in 1..Len(Players) /\ Len(Players) \in Nat /\ Len(StartPlants) \in Nat
    <3>1. /\ Len(Players) \in Nat /\ Len(StartPlants) \in Nat
          /\ DOMAIN Players = 1..Len(Players)
      BY <2>1, LenProperties, Zenon
    <3>2. QED BY <3>1, Zenon
  <2>3. i \in 1..Len(StartPlants)
    BY ONLY <2>1, <2>2
  <2>4. QED BY <2>1, <2>3, ElementOfSeq, 1 \in Nat, Zenon
<1>3. add_start_plant(g, i) = k
  BY DEF add_start_plant
<1> HIDE DEF owner
<1>4. Build(g, h, owner) /\ h.alloc \in Holder(h)
  BY <1>1, <1>2, add_plantFacts
<1> HIDE DEF h
<1>5. Made(g, h)
  BY <1>4 DEF Build, Move, Made, SameClock
<1>6. Made(h, k)
  <2>1. PICK e : e = h.alloc
    OBVIOUS
  <2>2. Sound(h) /\ e \in Holder(h) /\ asic \in DOMAIN h.bal
    BY <1>4, <1>5, <2>1, BaseTokens DEF Made
  <2>3. Made(h, mint(h, asic, e, 1))
    BY <1>2, <2>2, MintIsMade
  <2>4. QED BY <2>1, <2>3
<1> HIDE DEF k
<1>7. QED BY <1>3, <1>5, <1>6, MadeTrans

\* The plants are built one after the other.
PlantsBuilt(g, f) ==
    /\ f[0] = g /\ WithPlants(g) = f[Len(Players)]
    /\ \A i \in 1..Len(Players) : f[i] = add_start_plant(f[i - 1], i)

\* WithPlants is the last of the boards that its players' plants lead to.
LEMMA WithPlantsUnfolds ==
    ASSUME NEW g
    PROVE  \E f : PlantsBuilt(g, f)
<1> DEFINE Step(x, i) == add_start_plant(x, i)
           Fold(f, n) == f = [i \in 0..n |-> IF i = 0 THEN g ELSE Step(f[i - 1], i)]
           T == {n \in Nat : \E f : Fold(f, n)}
<1>0. Len(Players) \in Nat
  BY BoardAssumption, LenProperties
<1>1. WithPlants(g) = (CHOOSE f : Fold(f, Len(Players)))[Len(Players)]
  BY DEF WithPlants
<1> HIDE DEF Step
<1>2. 0 \in T
  <2> DEFINE f == [i \in 0..0 |-> g]
  <2>1. Fold(f, 0)
    OBVIOUS
  <2>2. QED BY <2>1
<1>3. ASSUME NEW n \in Nat, n \in T PROVE n + 1 \in T
  <2>1. PICK f : Fold(f, n)
    BY <1>3
  <2> DEFINE k == [i \in 0..(n + 1) |-> IF i = n + 1 THEN Step(f[n], i) ELSE f[i]]
  <2>2. \A i \in 0..n : f[i] = IF i = 0 THEN g ELSE Step(f[i - 1], i)
    BY <2>1
  <2>3. ASSUME NEW i \in 0..(n + 1)
        PROVE  k[i] = IF i = 0 THEN g ELSE Step(k[i - 1], i)
    <3>1. CASE i = n + 1
      BY <3>1
    <3>2. CASE i # n + 1
      <4>1. i \in 0..n /\ (i # 0 => i - 1 \in 0..n /\ i - 1 # n + 1)
        BY <3>2
      <4>2. QED BY <2>2, <4>1
    <3>3. QED BY <3>1, <3>2
  <2>4. Fold(k, n + 1)
    <3>1. k = [i \in 0..(n + 1) |-> k[i]]
      OBVIOUS
    <3> HIDE DEF k
    <3>2. QED BY <2>3, <3>1
  <2> HIDE DEF k, Fold
  <2>5. QED BY <2>4
<1>4. \E f : Fold(f, Len(Players))
  <2>1. Len(Players) \in T
    <3> HIDE DEF T
    <3>1. QED BY <1>0, <1>2, <1>3, Induction
  <2>2. QED BY <2>1
<1>5. PICK f : Fold(f, Len(Players)) /\ WithPlants(g) = f[Len(Players)]
  <2> HIDE DEF Fold
  <2>1. QED BY <1>1, <1>4
<1>6. f[0] = g /\ \A i \in 1..Len(Players) : f[i] = Step(f[i - 1], i)
  BY <1>0, <1>5
<1>7. PlantsBuilt(g, f)
  BY <1>5, <1>6 DEF Step, PlantsBuilt
<1>8. QED BY <1>7

\* Each player gets a plant.
LEMMA WithPlantsFacts ==
    ASSUME NEW g, Sound(g), DOMAIN g.users = {Players[i] : i \in DOMAIN Players}
    PROVE  Made(g, WithPlants(g))
<1>1. PICK f : PlantsBuilt(g, f)
  BY WithPlantsUnfolds
<1>2. Len(Players) \in Nat /\ DOMAIN Players = 1..Len(Players)
  BY BoardAssumption, LenProperties
<1> DEFINE N == Len(Players)
           T == {i \in Nat : i <= N => Made(g, f[i])}
<1>3. 0 \in T
  <2>1. f[0] = g
    BY <1>1 DEF PlantsBuilt
  <2>2. Made(g, g)
    <3>1. g.alloc \in Nat
      BY BooksTypes DEF Sound
    <3>2. QED BY <3>1 DEF Made, Grows
  <2>3. QED BY <2>1, <2>2
<1>4. ASSUME NEW i \in Nat, i \in T PROVE i + 1 \in T
  <2>1. SUFFICES ASSUME i + 1 <= N PROVE Made(g, f[i + 1])
    OBVIOUS
  <2>2. Made(g, f[i]) /\ i + 1 \in 1..N /\ (i + 1) - 1 = i
    BY <1>2, <1>4, <2>1
  <2>3. PICK h, j : h = f[i] /\ j = i + 1
    OBVIOUS
  <2>4. f[j] = add_start_plant(h, j) /\ j \in DOMAIN Players
    BY <1>1, <1>2, <2>2, <2>3 DEF PlantsBuilt
  <2>5. Sound(h) /\ Players[j] \in DOMAIN h.users
    BY <2>2, <2>3, <2>4 DEF Made
  <2>6. Made(h, f[j])
    BY <2>4, <2>5, add_start_plantFacts
  <2>7. QED BY <2>2, <2>3, <2>6, MadeTrans
<1>5. Made(g, f[N])
  <2>1. N \in T
    <3> HIDE DEF T
    <3>1. QED BY <1>2, <1>3, <1>4, Induction
  <2>2. QED BY <1>2, <2>1
<1>6. QED BY <1>1, <1>5 DEF PlantsBuilt

\* A game starts sound.
LEMMA new_gameFacts ==
    ASSUME NEW setup \in DOMAIN Setup
    PROVE  Sound(new_game(setup)) /\ Started(new_game(setup))
<1> DEFINE g1 == WithUsers(setup)
           g2 == WithMarkets(g1)
           g3 == WithRoot(g2)
           g4 == WithProducers(g3)
           g5 == WithPlants(g4)
           All == {Players[i] : i \in DOMAIN Players}
<1>1. new_game(setup) = g5
  BY DEF new_game
<1>2. Sound(g1) /\ root_user \in Holder(g1) /\ DOMAIN g1.users = All
  BY WithUsersFacts
<1> HIDE DEF g1
<1>3. Made(g1, g2) /\ Stalls(g2)
  BY <1>2, WithMarketsFacts
<1> HIDE DEF g2
<1>4. Made(g2, g3)
  <2>1. Sound(g2) /\ root_user \in Holder(g2)
    BY <1>2, <1>3 DEF Made, Grows
  <2>2. QED BY <2>1, WithRootFacts
<1> HIDE DEF g3
<1>5. Made(g3, g4)
  BY <1>4, WithProducersFacts DEF Made
<1> HIDE DEF g4
<1>6. Sound(g4) /\ DOMAIN g4.users = All
  BY <1>2, <1>3, <1>4, <1>5 DEF Made
<1>7. Made(g4, g5)
  BY <1>6, WithPlantsFacts
<1> HIDE DEF g5
<1>8. Stalls(g5)
  BY <1>3, <1>4, <1>5, <1>7 DEF Made, Stalls, Grows
<1>9. QED BY <1>1, <1>6, <1>7, <1>8 DEF Made, Started, Stalls

-----------------------------------------------------------------------------
(* The queries *)

Idle(g, o) == o.game = g

\* A simulated trade on a market leaves the board.
LEMMA SimulatedIsIdle ==
    ASSUME NEW g, Books(g), NEW pair \in (DOMAIN g.bal) \X (DOMAIN g.bal),
           has_market(g, pair), NEW a \in Nat, NEW b \in Nat, NEW sell \in BOOLEAN,
           NEW cap, NEW sender \in Holder(g)
    PROVE  Idle(g, DoTrade(g, pair, a, b, sell, cap, TRUE, sender))
<1> DEFINE o == DoTrade(g, pair, a, b, sell, cap, TRUE, sender)
<1>1. TRUE \in BOOLEAN
  OBVIOUS
<1>2. Dealt(g, o, sender) /\ Simulated(g, pair, TRUE, o)
  BY <1>1, TradeFacts
<1> HIDE DEF o
<1>3. Idle(g, o)
  BY <1>2 DEF Simulated, Idle, ensure
<1>4. QED BY <1>3 DEF o

\* The price of a material is asked without a trade.
LEMMA QuoteIsIdle ==
    ASSUME NEW g, Sound(g), Started(g), NEW type \in PlantType, NEW scale \in Nat,
           NEW i \in Bill, NEW from \in UserIds(g), NEW m, m.plant_type = type, m.scale = scale
    PROVE  Quote(g, from, m, i).game = g
<1> DEFINE t == Material(type, i)
           n == Quantity(type, scale, i)
<1>1. PICK pair : pair = <<t, btc>>
  OBVIOUS
<1>2. n \in Nat /\ t \in DOMAIN g.bal /\ btc \in DOMAIN g.bal
      /\ t \in {steel, silicon, concrete}
  BY MaterialsExist, BillFacts
<1>3. Quote(g, from, m, i) = DoTrade(g, pair, n, 0, FALSE, NoCap, TRUE, from)
  BY <1>1 DEF Quote, do_buy_trade
<1> HIDE DEF t, n
<1>4. pair \in (DOMAIN g.bal) \X (DOMAIN g.bal)
  BY <1>1, <1>2
<1>5. has_market(g, pair)
  <2>1. normalize(pair) = <<btc, t>>
    BY <1>1, <1>2 DEF normalize, btc, steel, silicon, concrete
  <2>2. QED BY <1>2, <2>1 DEF has_market, Started, Material4
<1>6. Books(g) /\ from \in Holder(g) /\ 0 \in Nat /\ FALSE \in BOOLEAN /\ TRUE \in BOOLEAN
  BY OwnedFacts DEF Sound
<1>7. Idle(g, DoTrade(g, pair, n, 0, FALSE, NoCap, TRUE, from))
  BY <1>2, <1>4, <1>5, <1>6, SimulatedIsIdle
<1>8. QED BY <1>3, <1>7 DEF Idle

\* get_power_plant_cost leaves the board.
LEMMA PlantCostIsIdle ==
    ASSUME Sound(game), Started(game), NEW from \in UserIds(game), NEW v \in View,
           get_power_plant_cost(from, v)
    PROVE  game' = game
<1>1. v.plant_type \in PlantType /\ v.scale \in Nat
  BY DEF get_power_plant_cost, View
<1>2. PICK g : g = game
  OBVIOUS
<1> DEFINE Q(h, i) == Quote(h, from, v, i).game
<1>3. game' = Q(Q(Q(g, 1), 2), 3)
  BY <1>2 DEF get_power_plant_cost, OverBill
<1>4. \A i \in Bill : Q(g, i) = g
  BY <1>1, <1>2, QuoteIsIdle
<1>5. 1 \in Bill /\ 2 \in Bill /\ 3 \in Bill
  BY DEF Bill
<1> HIDE DEF Q
<1>6. Q(g, 1) = g /\ Q(g, 2) = g /\ Q(g, 3) = g
  BY <1>4, <1>5
<1>7. QED BY <1>2, <1>3, <1>6

\* What a query does to the board: at most it makes the market of a pair.
Opens(g, h) == \E pair \in (DOMAIN g.bal) \X (DOMAIN g.bal) : h = ensure(g, pair)

\* simulate_trade at most makes the market.
LEMMA SimulationOpens ==
    ASSUME Sound(game), NEW from \in UserIds(game), NEW v \in View,
           simulate_trade(from, v)
    PROVE  game' = game \/ Opens(game, game')
<1>1. /\ v.pair \in Nat \X Nat /\ v.amount_a \in Nat /\ v.amount_b \in Nat
      /\ v.sell \in BOOLEAN
  BY DEF simulate_trade, View
<1>2. PICK g, pair, a, b, sell : /\ g = game /\ pair = v.pair /\ a = v.amount_a
                                 /\ b = v.amount_b /\ sell = v.sell
  OBVIOUS
<1>3. CASE /\ {pair[1], pair[2]} \subseteq DOMAIN g.bal
           /\ game' = DoTrade(g, pair, a, b, sell, NoCap, TRUE, from).game
  <2>1. Sound(g) /\ Books(g) /\ from \in Holder(g) /\ TRUE \in BOOLEAN
    BY <1>2, OwnedFacts DEF Sound
  <2>2. pair \in (DOMAIN g.bal) \X (DOMAIN g.bal)
    BY <1>1, <1>2, <1>3
  <2>3. PICK o : o = DoTrade(g, pair, a, b, sell, NoCap, TRUE, from)
    OBVIOUS
  <2>4. Simulated(g, pair, TRUE, o)
    BY <1>1, <1>2, <2>1, <2>2, <2>3, TradeFacts
  <2>5. game' = ensure(g, pair)
    BY <1>3, <2>3, <2>4 DEF Simulated
  <2>6. QED BY <1>2, <2>2, <2>5 DEF Opens
<1>4. CASE game' = g
  BY <1>2, <1>4
<1>5. QED BY <1>2, <1>3, <1>4 DEF simulate_trade

\* A market more is a move, and moves nothing.
LEMMA OpensFacts ==
    ASSUME NEW g, Sound(g), NEW h, Opens(g, h)
    PROVE  /\ \A from : Move(g, h, from)
           /\ Builds(g, h) /\ h.callbacks = g.callbacks /\ h.nfts = g.nfts
           /\ h.plants = g.plants
           /\ \A u \in DOMAIN g.bal : h.total[u] = g.total[u]
           /\ \A u \in DOMAIN g.bal : \A x : balance_check(h, u, x) = balance_check(g, u, x)
<1>1. PICK pair \in (DOMAIN g.bal) \X (DOMAIN g.bal) : h = ensure(g, pair)
  BY DEF Opens
<1>2. /\ LedgerStep(g, h, {})
      /\ \A u \in DOMAIN g.bal : h.total[u] = g.total[u]
      /\ \A u \in DOMAIN g.bal : \A x : balance_check(h, u, x) = balance_check(g, u, x)
  BY <1>1, EnsureStep DEF Sound
<1>3. Conserves(g, h)
  BY <1>2 DEF Conserves
<1>4. ASSUME NEW from
      PROVE  /\ Move(g, h, from) /\ Builds(g, h) /\ h.callbacks = g.callbacks
             /\ h.nfts = g.nfts /\ h.plants = g.plants
  <2>1. {} \subseteq Mine(g, from)
    OBVIOUS
  <2>2. QED BY <1>2, <1>3, <2>1, LedgerIsMove
<1>5. QED BY <1>2, <1>4

\* Folding what changes nothing
LEMMA PricesAreIdle ==
    ASSUME Sound(game), get_ux_materials_prices
    PROVE  game' = game
<1>1. PICK g, S : g = game /\ S = DOMAIN game.bal
  OBVIOUS
<1> DEFINE Op(t, h) == IF has_market(h, <<t, btc>>) THEN ensure(h, <<t, btc>>) ELSE h
           Pick(s) == CHOOSE x \in s : TRUE
           F(f) == f = [s \in SUBSET S |-> IF s = {} THEN g ELSE Op(Pick(s), f[s \ {Pick(s)}])]
<1>2. game' = (CHOOSE f : F(f))[S]
  BY <1>1 DEF get_ux_materials_prices, FoldSet, MapThenFoldSet
<1>3. \A t, h : Op(t, h) = h
  BY DEF ensure
<1> HIDE DEF Op
<1>4. \A s \in SUBSET S : s # {} => Pick(s) \in s
  OBVIOUS
<1> HIDE DEF Pick
<1>5. \E f : F(f)
  <2> DEFINE f == [s \in SUBSET S |-> g]
  <2>1. F(f)
    BY <1>3, <1>4
  <2>2. QED BY <2>1
<1>6. PICK f : F(f) /\ game' = f[S]
  <2> HIDE DEF F
  <2>1. QED BY <1>2, <1>5
<1> DEFINE T == {s \in SUBSET S : f[s] = g}
<1>7. {} \in T
  BY <1>6
<1>8. ASSUME NEW s \in SUBSET S, s # {}, \A x \in s : s \ {x} \in T PROVE s \in T
  <2>1. PICK x : x = Pick(s)
    OBVIOUS
  <2>2. f[s] = Op(x, f[s \ {x}])
    BY <1>6, <1>8, <2>1
  <2>3. x \in s
    BY <1>4, <1>8, <2>1
  <2>4. QED BY <1>3, <1>8, <2>2, <2>3
<1>9. IsFiniteSet(S)
  <2>1. S \subseteq 1..g.alloc /\ g.alloc \in Nat
    BY <1>1 DEF Sound, Books, Wallets
  <2>2. IsFiniteSet(1..g.alloc)
    BY <2>1, FS_Interval
  <2>3. QED BY <2>1, <2>2, FS_Subset
<1>10. S \in T
  <2> HIDE DEF T
  <2>1. QED BY <1>7, <1>8, <1>9, FiniteInduction
<1>11. QED BY <1>1, <1>6, <1>10

-----------------------------------------------------------------------------
(* The invariant *)

\* What a move names, exists also later.
LEMMA StillSane ==
    ASSUME NEW g, NEW r, NEW m \in Variant, sanitize(g, m), UserIds(r) = UserIds(g),
           r.nfts = g.nfts, DOMAIN g.bal \subseteq DOMAIN r.bal
    PROVE  sanitize(r, m)
<1>1. CASE m.kind \in {"heartbeat", "chat"}
  BY <1>1 DEF sanitize
<1>2. CASE m.kind = "trade"
  BY <1>2 DEF sanitize
<1>3. CASE m.kind \in {"mint", "super_mint"}
  BY <1>3 DEF sanitize
<1>4. CASE m.kind \in {"purchase", "list", "remove"}
  <2>1. m.nft \in DOMAIN g.nfts /\ m.currency \in DOMAIN g.bal
    BY <1>4 DEF sanitize
  <2>2. m.nft \in DOMAIN r.nfts /\ m.currency \in DOMAIN r.bal
    BY <2>1
  <2>3. QED BY <1>4, <2>2 DEF sanitize
<1>5. CASE m.kind = "send"
  <2>1. m.to \in UserIds(g) \cup DOMAIN g.nfts /\ m.currency \in DOMAIN g.bal
    BY <1>5 DEF sanitize
  <2>2. m.to \in UserIds(r) \cup DOMAIN r.nfts /\ m.currency \in DOMAIN r.bal
    BY <2>1
  <2>3. QED BY <1>5, <2>2 DEF sanitize
<1>6. QED BY <1>1, <1>2, <1>3, <1>4, <1>5, VariantFacts

\* A move that is not refused, from the board before it to the one after it: the
\* number and the clock, the events due, and the move itself
Before(g, from, sequence, time) ==
    update_current_time(SetSequence(g, from, sequence), from, time)
PlayStep(g, c, r, o, from, m) ==
    /\ ClockStep(g, c) /\ Sound(c) /\ r = run(c) /\ EventStep(c, r)
    /\ from \in UserIds(g) /\ Result(r, o, from)
    /\ o.game.callbacks = r.callbacks \/ Locks(r, o.game, m)

\* The number, the clock, the events and the move of a play that is not refused
LEMMA PlayFacts ==
    ASSUME NEW g, Sound(g), NEW from \in UserIds(g), NEW sequence, NEW time \in Nat,
           NEW m \in Variant, sanitize(g, m)
    PROVE  PlayStep(g, Before(g, from, sequence, time), run(Before(g, from, sequence, time)),
                    play_inner(process_ticks(SetSequence(g, from, sequence), from, time),
                               m, from),
                    from, m)
<1> DEFINE c == Before(g, from, sequence, time)
           r == run(c)
<1>1. ClockStep(g, c) /\ Sound(c) /\ EventStep(c, r)
  BY BeforeFacts DEF Before
<1>2. process_ticks(SetSequence(g, from, sequence), from, time) = r
  BY DEF process_ticks, Before
<1> SUFFICES PlayStep(g, c, r, play_inner(r, m, from), from, m)
  BY <1>2
<1>2a. r = run(c)
  OBVIOUS
<1> HIDE DEF c, r
<1>3. /\ UserIds(r) = UserIds(g) /\ r.nfts = g.nfts /\ DOMAIN g.bal \subseteq DOMAIN r.bal
      /\ Sound(r)
  <2>1. /\ UserIds(c) = UserIds(g) /\ c.nfts = g.nfts /\ DOMAIN g.bal \subseteq DOMAIN c.bal
    BY <1>1, ClockFacts DEF ClockStep, Grows
  <2>2. /\ UserIds(r) = UserIds(c) /\ r.nfts = c.nfts /\ DOMAIN c.bal \subseteq DOMAIN r.bal
    BY <1>1 DEF EventStep, Kept, Grows, UserIds
  <2>3. QED BY <1>1, <2>1, <2>2 DEF EventStep
<1>4. sanitize(r, m)
  BY <1>3, StillSane
<1>5. /\ Result(r, play_inner(r, m, from), from)
      /\ \/ play_inner(r, m, from).game.callbacks = r.callbacks
         \/ Locks(r, play_inner(r, m, from).game, m)
  BY <1>3, <1>4, PlayInnerFacts
<1>6. QED BY ONLY <1>1, <1>5, <1>2a, from \in UserIds(g) DEF PlayStep

-----------------------------------------------------------------------------
(* The steps *)

\* What came of the last step: nothing to the board; a market more, by a query; a
\* number of a player's moves set; or a move, from the board game over c, when its time has come, and r, after
\* the events due, to the outcome o.
IdleStep ==
    /\ game' = game /\ game_task' = game_task
    /\ last'.out \in {"finished", "no such user", "view"}
QueryStep ==
    /\ Opens(game, game') /\ game_task' = game_task
    /\ last'.out = "view"
NumberStep ==
    /\ ~game_is_finished(game)
    /\ ClockStep(game, game') /\ game_task' = game_task
    /\ last'.out \in {"ignored", "unsanitized"}
PlayedStep ==
    /\ ~game_is_finished(game)
    /\ \E from \in UserIds(game), m \in Variant : \E c, r, o :
          /\ PlayStep(game, c, r, o, from, m)
          /\ game' = o.game /\ last'.from = from /\ last'.out = o.out
          /\ game_task' \in {"playing", "dead"}

\* What a player's move names
LEMMA MovesAreVariants ==
    ASSUME Sound(game), NEW from \in UserIds(game), NEW sequence,
           NEW m \in MovesAt(from, sequence)
    PROVE  m \in Variant
<1>1. game.setup \in DOMAIN Setup
  BY DEF Sound, Registry
<1>2. Setup[game.setup].moves \subseteq Variant
  BY <1>1, BoardAssumption
<1>3. [kind |-> "heartbeat"] \in Variant
  BY DEF Variant
<1>4. QED BY <1>2, <1>3 DEF MovesAt

\* play is a step as PlayedStep says.
LEMMA PlayIsPlayed ==
    ASSUME BoardInv, NEW from \in UserIds(game), NEW sequence, NEW m \in Variant,
           NEW time \in Nat, play(from, sequence, time, m)
    PROVE  PlayedStep
<1>1. PICK g : g = game
  OBVIOUS
<1>2. Sound(g) /\ from \in UserIds(g) /\ sanitize(g, m)
  BY <1>1 DEF BoardInv, play
<1> DEFINE c == Before(g, from, sequence, time)
           r == run(c)
           o == play_inner(process_ticks(SetSequence(g, from, sequence), from, time), m, from)
<1>3. PlayStep(g, c, r, o, from, m)
  BY <1>2, PlayFacts
<1>4. /\ ~game_is_finished(game)
      /\ game' = o.game /\ last'.from = from /\ last'.out = o.out
      /\ game_task' \in {"playing", "dead"}
  BY <1>1 DEF play
<1> HIDE DEF c, r, o
<1>5. PlayStep(game, c, r, o, from, m)
  BY <1>1, <1>3
<1>6. QED BY <1>4, <1>5 DEF PlayedStep

\* A move is made that is not refused before the events due.
PlaysMove ==
    \E from \in UserIds(game) : \E n : \E m \in MovesAt(from, n) :
        \E time \in Nat : play(from, n, time, m)

\* Every step is one of these four kinds, and the last is a move of a player.
LEMMA StepKinds ==
    ASSUME BoardInv, Next
    PROVE  IdleStep \/ QueryStep \/ NumberStep \/ (PlayedStep /\ PlaysMove)
<1>1. Sound(game) /\ Started(game) /\ game.setup \in DOMAIN Setup
  BY DEF BoardInv, Sound, Registry
<1>2. CASE play_finished
  BY <1>2 DEF play_finished, IdleStep
<1>3. CASE play_no_such_user
  BY <1>3 DEF play_no_such_user, IdleStep
<1>4. ASSUME NEW from \in UserIds(game), NEW n, play_out_of_sequence(from, n) PROVE NumberStep
  <2>1. PICK g, k : g = game /\ k = current_move(game, from)
    OBVIOUS
  <2>2. ClockStep(g, SetSequence(g, from, k))
    BY <1>1, <2>1, SetSequenceFacts
  <2>3. game' = SetSequence(g, from, k)
    BY <1>4, <2>1 DEF play_out_of_sequence
  <2>4. ClockStep(game, game')
    BY <2>1, <2>2, <2>3
  <2>5. QED BY <1>4, <2>4 DEF play_out_of_sequence, NumberStep
<1>5. ASSUME NEW from \in UserIds(game), NEW n, NEW m, play_unsanitized(from, n, m)
      PROVE  NumberStep
  <2>1. PICK g : g = game
    OBVIOUS
  <2>2. ClockStep(g, SetSequence(g, from, n))
    BY <1>1, <2>1, SetSequenceFacts
  <2>3. game' = SetSequence(g, from, n)
    BY <1>5, <2>1 DEF play_unsanitized
  <2>4. ClockStep(game, game')
    BY <2>1, <2>2, <2>3
  <2>5. QED BY <1>5, <2>4 DEF play_unsanitized, NumberStep
<1>6. ASSUME NEW from \in UserIds(game), NEW n, NEW m \in MovesAt(from, n),
             NEW time \in Setup[game.setup].times, play(from, n, time, m)
      PROVE  PlayedStep /\ PlaysMove
  <2>1. time \in Nat
    BY <1>1, BoardAssumption
  <2>2. m \in Variant
    BY <1>1, MovesAreVariants
  <2>3. PlayedStep
    BY <1>6, <2>1, <2>2, PlayIsPlayed
  <2>4. PlaysMove
    BY <1>6, <2>1 DEF PlaysMove
  <2>5. QED BY <2>3, <2>4
<1>7. ASSUME NEW from \in UserIds(game), NEW v \in Setup[game.setup].views,
             simulate_trade(from, v) \/ get_power_plant_cost(from, v)
      PROVE  IdleStep \/ QueryStep
  <2>1. v \in View
    BY <1>1, BoardAssumption
  <2>2. CASE simulate_trade(from, v)
    <3>1. game' = game \/ Opens(game, game')
      BY <1>1, <2>1, <2>2, SimulationOpens
    <3>2. last' = [from |-> 0, out |-> "view"] /\ game_task' = game_task
      BY <2>2 DEF simulate_trade
    <3>3. QED BY <3>1, <3>2 DEF IdleStep, QueryStep
  <2>3. CASE get_power_plant_cost(from, v)
    <3>1. game' = game
      BY <1>1, <2>1, <2>3, PlantCostIsIdle
    <3>2. last' = [from |-> 0, out |-> "view"] /\ game_task' = game_task
      BY <2>3 DEF get_power_plant_cost
    <3>3. QED BY <3>1, <3>2 DEF IdleStep
  <2>4. QED BY <1>7, <2>2, <2>3
<1>8. CASE get_ux_materials_prices
  <2>1. game' = game
    BY <1>1, <1>8, PricesAreIdle
  <2>2. last' = [from |-> 0, out |-> "view"] /\ game_task' = game_task
    BY <1>8 DEF get_ux_materials_prices
  <2>3. QED BY <2>1, <2>2 DEF IdleStep
<1>9. QED BY <1>2, <1>3, <1>4, <1>5, <1>6, <1>7, <1>8 DEF Next

\* Every step is one of the four.
LEMMA StepFacts ==
    ASSUME BoardInv, Next
    PROVE  IdleStep \/ QueryStep \/ NumberStep \/ PlayedStep
BY StepKinds

-----------------------------------------------------------------------------
(* The invariant *)

\* Players stay and markets are not closed.
LEMMA StartedStays ==
    ASSUME NEW g, Started(g), NEW h, h.users = g.users, DOMAIN g.markets \subseteq DOMAIN h.markets
    PROVE  Started(h)
BY DEF Started

\* What a move leaves
LEMMA PlayedFacts ==
    ASSUME NEW g, Sound(g), Started(g), NEW c, NEW r, NEW o, NEW from, NEW m,
           PlayStep(g, c, r, o, from, m)
    PROVE  Sound(o.game) /\ Started(o.game)
<1>1. c.users = g.users /\ DOMAIN g.markets \subseteq DOMAIN c.markets
  <2>1. ClockStep(g, c)
    BY DEF PlayStep
  <2>2. Grows(g, c)
    BY <2>1, ClockFacts
  <2>3. QED BY <2>1, <2>2 DEF ClockStep, SameLedger, Grows
<1>2. r.users = c.users /\ DOMAIN c.markets \subseteq DOMAIN r.markets
  BY DEF PlayStep, EventStep, Kept, Grows
<1>3. /\ o.game.users = r.users /\ DOMAIN r.markets \subseteq DOMAIN o.game.markets
      /\ Sound(o.game)
  BY DEF PlayStep, Result, Move, SameClock, Grows
<1>4. QED BY <1>1, <1>2, <1>3 DEF Started

\* A new game satisfies the invariant.
LEMMA InvHolds == Init => BoardInv
<1> SUFFICES ASSUME Init PROVE BoardInv
  OBVIOUS
<1>1. PICK setup \in DOMAIN Setup : game = new_game(setup)
  BY DEF Init
<1>2. Sound(new_game(setup)) /\ Started(new_game(setup))
  BY new_gameFacts
<1>3. QED BY <1>1, <1>2 DEF Init, BoardInv

\* No step breaks the invariant.
LEMMA InvStays == BoardInv /\ [Next]_vars => BoardInv'
<1> SUFFICES ASSUME BoardInv, [Next]_vars PROVE BoardInv'
  OBVIOUS
<1> USE DEF BoardInv
<1>1. CASE UNCHANGED vars
  BY <1>1 DEF vars
<1>2. CASE Next
  <2>1. PICK h : h = game'
    OBVIOUS
  <2>2. SUFFICES Sound(h) /\ Started(h) /\ game_task' \in {"playing", "dead"}
    BY <2>1
  <2>3. PICK g : g = game
    OBVIOUS
  <2>4. CASE IdleStep
    BY <2>1, <2>4 DEF IdleStep
  <2>5. CASE NumberStep
    <3>1. ClockStep(g, h) /\ Sound(g) /\ Started(g)
      BY <2>1, <2>3, <2>5 DEF NumberStep
    <3>2. Sound(h) /\ Grows(g, h)
      BY <3>1, ClockFacts
    <3>3. h.users = g.users /\ DOMAIN g.markets \subseteq DOMAIN h.markets
      BY <3>1, <3>2 DEF ClockStep, SameLedger, Grows
    <3>4. QED BY <2>5, <3>1, <3>2, <3>3, StartedStays DEF NumberStep
  <2>6. CASE PlayedStep
    <3>1. PICK from, m, c, r, o :
             /\ PlayStep(game, c, r, o, from, m)
             /\ game' = o.game /\ game_task' \in {"playing", "dead"}
      BY <2>6 DEF PlayedStep
    <3>2. PlayStep(g, c, r, o, from, m) /\ Sound(g) /\ Started(g)
      BY <2>3, <3>1
    <3>3. Sound(o.game) /\ Started(o.game)
      BY <3>2, PlayedFacts
    <3>4. QED BY <2>1, <3>1, <3>3
  <2>7. CASE QueryStep
    <3>1. Sound(g) /\ Started(g) /\ Opens(g, h)
      BY <2>1, <2>3, <2>7 DEF QueryStep
    <3>2. Move(g, h, 0)
      BY <3>1, OpensFacts
    <3>3. Sound(h) /\ h.users = g.users /\ DOMAIN g.markets \subseteq DOMAIN h.markets
      BY <3>2 DEF Move, SameClock, Grows
    <3>4. QED BY <2>7, <3>1, <3>3, StartedStays DEF QueryStep
  <2>8. QED BY <1>2, <2>4, <2>5, <2>6, <2>7, StepFacts
<1>3. QED BY <1>1, <1>2

\* The invariant has the copies of the balances right.
LEMMA InvBalances == BoardInv => BooksBalance
<1> SUFFICES ASSUME BoardInv PROVE BooksBalance
  OBVIOUS
<1>1. Sound(game) /\ Wallets(game) /\ Markets(game) /\ Registry(game)
  BY DEF BoardInv, Sound, Books
<1>2. /\ game.alloc \in Nat /\ game.elapsed \in Nat /\ DOMAIN game.bal = DOMAIN game.total
      /\ BaseToken \subseteq DOMAIN game.bal
      /\ \A t \in DOMAIN game.bal : \A e \in DOMAIN game.bal[t] :
            e \in 1..game.alloc /\ game.bal[t][e] \in Nat
  BY <1>1 DEF Wallets, Registry
<1>3. \A p \in DOMAIN game.markets : p[1] <= p[2] /\ game.markets[p].lp \in DOMAIN game.bal
  BY <1>1 DEF Markets, MarketSound
<1>4. /\ DOMAIN game.plants \subseteq DOMAIN game.nfts
      /\ DOMAIN game.nft_sales \subseteq DOMAIN game.nfts
      /\ DOMAIN game.nfts \subseteq 1..game.alloc
      /\ DOMAIN game.seq \subseteq UserIds(game) /\ DOMAIN game.ticks \subseteq UserIds(game)
  BY <1>1 DEF Registry, Holder
<1>5. TypeOK
  BY <1>2, <1>3, <1>4 DEF TypeOK, BoardInv
<1>6. TotalsAreSums
  BY <1>1 DEF Wallets, TotalsAreSums
<1>7. ReservesAreHoldings
  <2>1. ASSUME NEW p \in DOMAIN game.markets
        PROVE  /\ game.markets[p].a = Holding(game, p, p[1])
               /\ game.markets[p].b = Holding(game, p, p[2])
    <3>1. MarketSound(game, p)
      BY <1>1 DEF Markets
    <3>2. normalize(p) = p
      BY <3>1 DEF MarketSound, normalize
    <3>3. QED BY <3>1, <3>2 DEF MarketSound, Holding
  <2>2. QED BY <2>1 DEF ReservesAreHoldings
<1>8. QED BY <1>5, <1>6, <1>7 DEF BooksBalance

\* The invariant holds of every game, whatever its players do and whatever events
\* are due (GameBoard::play, CallbackRegistry::run, the desktop application's
\* queries).
THEOREM Invariant == Spec => []BoardInv
<1>1. QED BY InvHolds, InvStays, PTL DEF Spec

\* After every step the cached totals are the sums of the balances and the
\* reserves on record are what the markets hold (tokens/mod.rs, token_swap.rs),
\* and the registers name only what exists.
THEOREM BooksAlwaysBalance == Spec => []BooksBalance
<1>1. QED BY Invariant, InvBalances, PTL

-----------------------------------------------------------------------------
(* Fair deals *)

\* The board over the clock and the events due, before the move itself
Ripens(g, r) ==
    /\ Sound(r) /\ r.setup = g.setup /\ r.users = g.users
    /\ r.nfts = g.nfts /\ r.plants = g.plants /\ r.nft_sales = g.nft_sales
    /\ r.elapsed >= g.elapsed /\ Grows(g, r) /\ Gains(g, r) /\ Spares(g, r)

\* The clock and the events leave owners, plants and listings, and players no
\* poorer.
LEMMA RipensFacts ==
    ASSUME NEW g, Sound(g), NEW c, NEW r, ClockStep(g, c), EventStep(c, r)
    PROVE  Ripens(g, r)
<1>1. /\ Sound(c) /\ UserIds(c) = UserIds(g) /\ Owned(c) = Owned(g)
      /\ Grows(g, c) /\ Gains(g, c)
      /\ \A u, x : balance_check(c, u, x) = balance_check(g, u, x)
  BY ClockFacts
<1>2. /\ c.setup = g.setup /\ c.users = g.users
      /\ c.nfts = g.nfts /\ c.plants = g.plants /\ c.nft_sales = g.nft_sales
      /\ c.elapsed >= g.elapsed
  BY DEF ClockStep, SameLedger
<1>3. /\ Sound(r) /\ Grows(c, r) /\ Gains(c, r) /\ Spares(c, r)
      /\ r.setup = c.setup /\ r.users = c.users
      /\ r.nfts = c.nfts /\ r.plants = c.plants /\ r.nft_sales = c.nft_sales
      /\ r.elapsed = c.elapsed
  BY DEF EventStep, Kept
<1>4. Grows(g, r)
  <2>1. g.alloc \in Nat /\ c.alloc \in Nat /\ r.alloc \in Nat
    BY <1>1, <1>3, BooksTypes DEF Sound
  <2>2. QED BY <1>1, <1>3, <2>1 DEF Grows
<1>5. ASSUME NEW p \in DOMAIN g.markets PROVE Product(g, p) <= Product(r, p)
  <2>1. p \in DOMAIN c.markets /\ p \in DOMAIN r.markets
    BY <1>1, <1>3 DEF Grows
  <2>2. Product(g, p) \in Nat /\ Product(c, p) \in Nat /\ Product(r, p) \in Nat
    BY <1>1, <1>3, <2>1, BooksTypes DEF Sound
  <2>3. Product(g, p) <= Product(c, p) /\ Product(c, p) <= Product(r, p)
    BY <1>1, <1>3, <2>1 DEF Gains
  <2>4. QED BY <2>2, <2>3
<1>6. Spares(g, r)
  BY <1>1, <1>3 DEF Spares, Grows
<1>7. QED BY <1>2, <1>3, <1>4, <1>5, <1>6 DEF Ripens, Gains

\* A deal after the events is a deal in the game before them: what a seller is paid,
\* it has over what it had then.
LEMMA RipeDeals ==
    ASSUME NEW g, Sound(g), NEW r, Ripens(g, r), NEW h, Sound(h), Grows(r, h),
           NEW from, Deals(r, h, from)
    PROVE  Deals(g, h, from)
<1>1. /\ r.nfts = g.nfts /\ r.nft_sales = g.nft_sales /\ Sound(r) /\ Spares(g, r)
      /\ DOMAIN g.bal \subseteq DOMAIN r.bal /\ DOMAIN r.bal \subseteq DOMAIN h.bal
  BY DEF Ripens, Grows
<1>2. ASSUME NEW n \in DOMAIN g.nfts, h.nfts[n].owner # g.nfts[n].owner
      PROVE  Sold(g, h, n, from)
  <2>1. Sold(r, h, n, from)
    BY <1>1, <1>2 DEF Deals
  <2>2. PICK sale : sale = g.nft_sales[n]
    OBVIOUS
  <2>3. PICK t, e, price : t = sale.currency /\ e = sale.seller /\ price = sale.price
    OBVIOUS
  <2>4. /\ n \in DOMAIN g.nft_sales /\ e = g.nfts[n].owner /\ h.nfts[n].owner = from
        /\ balance_check(h, t, e) >= balance_check(r, t, e) + price
    BY <1>1, <2>1, <2>2, <2>3 DEF Sold
  <2>5. t \in DOMAIN g.bal /\ price \in Nat /\ e \in Owned(g)
    BY <2>2, <2>3, <2>4 DEF Sound, Registry, Owned
  <2>6. balance_check(g, t, e) <= balance_check(r, t, e)
    BY <1>1, <2>5 DEF Spares
  <2>7. /\ balance_check(g, t, e) \in Nat /\ balance_check(r, t, e) \in Nat
        /\ balance_check(h, t, e) \in Nat
    BY <1>1, <2>5, BooksTypes DEF Sound
  <2>8. balance_check(h, t, e) >= balance_check(g, t, e) + price
    BY <2>4, <2>5, <2>6, <2>7
  <2>9. QED BY <2>2, <2>3, <2>4, <2>8 DEF Sold
<1>3. \A n : Handed(r, n, from) = Handed(g, n, from)
  BY <1>1 DEF Handed
<1>4. QED BY <1>1, <1>2, <1>3 DEF Deals

\* A move, over all: from the board before it to the one after it
LEMMA PlayedDeals ==
    ASSUME NEW g, Sound(g), NEW c, NEW r, NEW o, NEW from, NEW m,
           PlayStep(g, c, r, o, from, m)
    PROVE  /\ Sound(o.game) /\ Grows(g, o.game) /\ Gains(g, o.game)
           /\ Deals(g, o.game, from) /\ Ripens(g, r)
<1>1. ClockStep(g, c) /\ EventStep(c, r) /\ Result(r, o, from)
  BY DEF PlayStep
<1>2. Ripens(g, r)
  BY <1>1, RipensFacts
<1>3. PICK h : h = o.game
  OBVIOUS
<1>4. Sound(h) /\ Grows(r, h) /\ Gains(r, h) /\ Deals(r, h, from) /\ Sound(r)
  BY <1>1, <1>2, <1>3 DEF Result, Move, Ripens
<1>5. Deals(g, h, from)
  BY <1>2, <1>4, RipeDeals
<1>6. Grows(g, r) /\ Gains(g, r)
  BY <1>2 DEF Ripens
<1>7. Grows(g, h)
  <2>1. g.alloc \in Nat /\ r.alloc \in Nat /\ h.alloc \in Nat
    BY <1>4, BooksTypes DEF Sound
  <2>2. QED BY <1>4, <1>6, <2>1 DEF Grows
<1>8. ASSUME NEW p \in DOMAIN g.markets PROVE Product(g, p) <= Product(h, p)
  <2>1. p \in DOMAIN r.markets /\ p \in DOMAIN h.markets
    BY <1>4, <1>6 DEF Grows
  <2>2. Product(g, p) \in Nat /\ Product(r, p) \in Nat /\ Product(h, p) \in Nat
    BY <1>4, <2>1, BooksTypes DEF Sound
  <2>3. Product(g, p) <= Product(r, p) /\ Product(r, p) <= Product(h, p)
    BY <1>4, <1>6, <2>1 DEF Gains
  <2>4. QED BY <2>2, <2>3
<1>9. QED BY <1>2, <1>3, <1>4, <1>5, <1>7, <1>8 DEF Gains

\* What leaves the registers and the markets is fair.
LEMMA IdleDeals ==
    ASSUME BoardInv, NEW g, g = game, NEW h, h = game', h.nfts = g.nfts,
           h.nft_sales = g.nft_sales, Gains(g, h), Grows(g, h), Sound(h)
    PROVE  ProductNeverFalls /\ PaidFor /\ ListedByOwner /\ Delivered
<1>1. Sound(g) /\ DOMAIN g.markets \subseteq DOMAIN h.markets
  BY DEF BoardInv, Grows
<1>2. \A p \in DOMAIN g.markets : Product(g, p) \in Nat /\ Product(h, p) \in Nat
  BY <1>1, BooksTypes DEF Sound
<1>3. ProductNeverFalls
  BY <1>1, <1>2 DEF Gains, Product, ProductNeverFalls
<1>4. PaidFor /\ ListedByOwner /\ Delivered
  BY DEF PaidFor, ListedByOwner, Delivered, Ended, Listed
<1>5. QED BY <1>3, <1>4

\* Every step is fair.
LEMMA StepIsFair ==
    BoardInv /\ [Next]_vars => [ProductNeverFalls /\ PaidFor /\ ListedByOwner /\ Delivered]_vars
<1> SUFFICES ASSUME BoardInv, Next
             PROVE  ProductNeverFalls /\ PaidFor /\ ListedByOwner /\ Delivered
  OBVIOUS
<1>1. PICK g, h : g = game /\ h = game'
  OBVIOUS
<1>2. Sound(g) /\ Started(g)
  BY <1>1 DEF BoardInv
<1>3. CASE IdleStep
  <2>1. h = g
    BY <1>1, <1>3 DEF IdleStep
  <2>2. Gains(g, g) /\ Grows(g, g)
    BY <1>2, IdleIsMove DEF Move
  <2>3. QED BY <1>1, <1>2, <2>1, <2>2, IdleDeals
<1>4. CASE NumberStep
  <2>1. ClockStep(g, h)
    BY <1>1, <1>4 DEF NumberStep
  <2>2. Sound(h) /\ Gains(g, h) /\ Grows(g, h) /\ h.nfts = g.nfts /\ h.nft_sales = g.nft_sales
    BY <1>2, <2>1, ClockFacts DEF ClockStep
  <2>3. QED BY <1>1, <2>2, IdleDeals
<1>5. CASE PlayedStep
  <2>1. PICK from, m, c, r, o :
           /\ PlayStep(game, c, r, o, from, m)
           /\ game' = o.game /\ last'.from = from
    BY <1>5 DEF PlayedStep
  <2>2. PlayStep(g, c, r, o, from, m)
    BY <1>1, <2>1
  <2>3. Sound(h) /\ Gains(g, h) /\ Grows(g, h) /\ Deals(g, h, from)
    BY <1>1, <1>2, <2>1, <2>2, PlayedDeals
  <2>4. last'.from = from
    BY <2>1
  <2>5. ProductNeverFalls
    <3>1. DOMAIN g.markets \subseteq DOMAIN h.markets
      BY <2>3 DEF Grows
    <3>2. \A p \in DOMAIN g.markets : Product(g, p) \in Nat /\ Product(h, p) \in Nat
      BY <1>2, <2>3, <3>1, BooksTypes DEF Sound
    <3>3. QED BY <1>1, <2>3, <3>2 DEF Gains, Product, ProductNeverFalls
  <2>6. PaidFor
    BY <1>1, <2>3, <2>4 DEF Deals, Sold, PaidFor, Listed
  <2>7. ListedByOwner /\ Delivered
    BY <1>1, <2>3, <2>4 DEF Deals, Handed, ListedByOwner, Delivered, Ended, Listed
  <2>8. QED BY <2>5, <2>6, <2>7
<1>6. CASE QueryStep
  <2>1. Opens(g, h)
    BY <1>1, <1>6 DEF QueryStep
  <2>2. Move(g, h, 0) /\ h.nfts = g.nfts /\ h.nft_sales = g.nft_sales
    BY <1>2, <2>1, OpensFacts DEF Builds
  <2>3. QED BY <1>1, <2>2, IdleDeals DEF Move
<1>7. QED BY <1>3, <1>4, <1>5, <1>6, StepFacts

\* No sequence of trades lowers the product of a market's reserves; an NFT
\* changes hands only for what its owner listed it for, which the owner then has;
\* and what ends a listing delivers, but for a lockup (token_swap.rs, nfts/sale.rs).
THEOREM DealsAreAlwaysFair == Spec => DealsAreFair
<1>1. QED BY Invariant, StepIsFair, PTL DEF Spec, DealsAreFair

-----------------------------------------------------------------------------
(* The end *)

\* Shares of B in proportion to f, rounded down, sum up to no more than B.
LEMMA SharesFit ==
    ASSUME NEW S, IsFiniteSet(S), NEW T \in Nat, NEW B \in Nat, NEW f, NEW r,
           \A i \in S : f[i] \in Nat /\ r[i] \in Nat /\ T * r[i] <= f[i] * B
    PROVE  T * Sum(r, S) <= Sum(f, S) * B
<1> DEFINE U == {s \in SUBSET S : T * Sum(r, s) <= Sum(f, s) * B}
<1>1. {} \in U
  BY SumEmpty
<1>2. ASSUME NEW s \in SUBSET S, s # {}, \A x \in s : s \ {x} \in U PROVE s \in U
  <2>1. PICK x \in s : TRUE
    BY <1>2
  <2>2. IsFiniteSet(s) /\ IsFiniteSet(s \ {x})
    BY FS_Subset
  <2>3. \A y \in s : f[y] \in Nat /\ r[y] \in Nat /\ f[y] \in Int /\ r[y] \in Int
    OBVIOUS
  <2>4. PICK a, b, c, d : a = r[x] /\ b = Sum(r, s \ {x}) /\ c = f[x] /\ d = Sum(f, s \ {x})
    OBVIOUS
  <2>5. a \in Nat /\ b \in Nat /\ c \in Nat /\ d \in Nat
    <3>1. Sum(r, s \ {x}) \in Nat /\ Sum(f, s \ {x}) \in Nat
      BY <2>2, <2>3, SumNat
    <3>2. QED BY <2>3, <2>4, <3>1
  <2>6. Sum(r, s) = a + b /\ Sum(f, s) = c + d
    BY <2>2, <2>3, <2>4, SumSplit
  <2>7. T * a <= c * B /\ T * b <= d * B
    <3>1. s \ {x} \in U
      BY <1>2
    <3>2. QED BY <2>4, <3>1
  <2>8. T * (a + b) <= (c + d) * B
    <3>1. /\ T * (a + b) = T * a + T * b /\ (c + d) * B = c * B + d * B
          /\ T * a \in Nat /\ T * b \in Nat /\ c * B \in Nat /\ d * B \in Nat
      BY <2>5
    <3>2. QED BY <2>7, <3>1
  <2>9. QED BY <2>6, <2>8
<1> HIDE DEF U
<1>3. SUBSET S \subseteq U
  BY <1>1, <1>2, FiniteInduction
<1>4. QED BY <1>3 DEF U

\* The sum of ones
LEMMA SumOfOnes ==
    ASSUME NEW S, IsFiniteSet(S), NEW f, \A i \in S : f[i] = 1
    PROVE  Sum(f, S) = Cardinality(S)
<1> DEFINE U == {s \in SUBSET S : Sum(f, s) = Cardinality(s)}
<1>1. {} \in U
  BY SumEmpty, FS_EmptySet
<1>2. ASSUME NEW s \in SUBSET S, s # {}, \A x \in s : s \ {x} \in U PROVE s \in U
  <2>1. PICK x \in s : TRUE
    BY <1>2
  <2>2. IsFiniteSet(s)
    BY FS_Subset
  <2>3. Cardinality(s \ {x}) = Cardinality(s) - 1 /\ Cardinality(s) \in Nat
    BY <2>2, FS_RemoveElement, FS_CardinalityType
  <2>4. Sum(f, s) = f[x] + Sum(f, s \ {x})
    <3>1. \A y \in s : f[y] \in Int
      OBVIOUS
    <3>2. QED BY <2>2, <3>1, SumSplit
  <2>5. f[x] = 1 /\ Sum(f, s \ {x}) = Cardinality(s \ {x})
    BY <1>2
  <2>6. QED BY <2>3, <2>4, <2>5
<1> HIDE DEF U
<1>3. SUBSET S \subseteq U
  BY <1>1, <1>2, FiniteInduction
<1>4. QED BY <1>3 DEF U

\* The bounty is paid out in whole, to whoever there is.
PaysOut(paid, bounty) ==
    /\ \A i \in DOMAIN paid : paid[i] \in Nat
    /\ paid # <<>> => Sum(paid, DOMAIN paid) = bounty

\* Rewards that fit in the bounty, and the excess to the first
LEMMA ExcessFits ==
    ASSUME NEW n \in Nat, NEW bounty \in Nat, NEW reward,
           \A i \in 1..n : reward[i] \in Nat, Sum(reward, 1..n) <= bounty
    PROVE  PaysOut([i \in 1..n |-> reward[i] + IF i = 1 THEN bounty - Sum(reward, 1..n)
                                               ELSE 0], bounty)
<1> DEFINE S == 1..n
           excess == bounty - Sum(reward, 1..n)
           paid == [i \in S |-> reward[i] + IF i = 1 THEN excess ELSE 0]
<1>1. IsFiniteSet(S)
  BY FS_Interval
<1>2. Sum(reward, S) \in Nat
  BY <1>1, SumNat
<1>3. excess \in Nat
  BY <1>2
<1> HIDE DEF excess
<1>4. \A i \in S : paid[i] \in Nat
  BY <1>3
<1>5. ASSUME paid # <<>> PROVE Sum(paid, S) = bounty
  <2>1. 1 \in S
    <3>1. CASE n = 0
      <4>1. S = {}
        BY <3>1
      <4>2. paid = <<>>
        BY <4>1
      <4>3. QED BY <1>5, <4>2
    <3>2. CASE n # 0
      BY <3>2
    <3>3. QED BY <3>1, <3>2
  <2>2. PICK R : R = S \ {1}
    OBVIOUS
  <2>3. IsFiniteSet(R) /\ R \subseteq S
    BY <1>1, <2>2, FS_Subset
  <2>4. \A i \in S : paid[i] \in Int /\ reward[i] \in Int
    BY <1>4
  <2>5. paid[1] = reward[1] + excess /\ \A i \in R : paid[i] = reward[i] /\ paid[i] \in Int
    BY <2>1, <2>2, <2>4
  <2> HIDE DEF paid, S
  <2>6. /\ Sum(paid, S) = paid[1] + Sum(paid, R)
        /\ Sum(reward, S) = reward[1] + Sum(reward, R)
        /\ Sum(reward, R) \in Int /\ Sum(paid, R) \in Int
    BY <1>1, <2>1, <2>2, <2>4, SumSplit
  <2>7. Sum(paid, R) = Sum(reward, R)
    BY <2>3, <2>5, SumSame
  <2>8. Sum(paid, S) = Sum(reward, S) + excess
    BY <1>3, <2>1, <2>4, <2>5, <2>6, <2>7
  <2>9. QED BY <1>2, <2>8 DEF excess, S
<1>6. DOMAIN paid = S
  OBVIOUS
<1> HIDE DEF paid
<1>7. PaysOut(paid, bounty)
  BY <1>4, <1>5, <1>6 DEF PaysOut
<1>8. QED BY <1>7 DEF paid, excess

\* get_close_distribution pays out every bounty, to the players and the host.
LEMMA DistributionFacts ==
    ASSUME NEW g, Sound(g), Started(g), NEW bounty \in Nat
    PROVE  PaysOut(get_close_distribution(g, bounty), bounty)
<1>1. CASE TimeExpired(g)
  <2> DEFINE n == Len(Players)
             balance == [i \in DOMAIN Players |-> balance_check(g, btc, g.users[Players[i]])]
             total == Sum(balance, DOMAIN Players)
             reward == [i \in DOMAIN Players |-> IF total = 0 THEN bounty \div Len(Players)
                                                 ELSE (balance[i] * bounty) \div total]
             paid == [i \in DOMAIN Players |->
                        reward[i] + IF i = 1 THEN bounty - Sum(reward, DOMAIN Players) ELSE 0]
  <2>1. n \in Nat /\ DOMAIN Players = 1..n
    BY BoardAssumption, LenProperties
  <2>2. get_close_distribution(g, bounty) = paid
    BY <1>1 DEF get_close_distribution
  <2>3. IsFiniteSet(1..n)
    BY <2>1, FS_Interval
  <2>4. \A i \in 1..n : balance[i] \in Nat
    <3>1. Wallets(g) /\ btc \in DOMAIN g.bal
      BY TotalsAreNat DEF Sound, Books
    <3>2. QED BY <2>1, <3>1, BalanceFacts
  <2> HIDE DEF balance
  <2>5. total \in Nat
    BY <2>1, <2>3, <2>4, SumNat
  <2>6. /\ \A i \in 1..n : reward[i] \in Nat
        /\ Sum(reward, 1..n) <= bounty
    <3>1. CASE total = 0
      <4> DEFINE q == bounty \div n
                 one == [i \in 1..n |-> 1]
      <4>1. \A i \in 1..n : reward[i] = q
        BY <2>1, <3>1
      <4>2. \A i \in 1..n : q \in Nat /\ n * q <= bounty
        <5>1. SUFFICES ASSUME NEW i \in 1..n PROVE q \in Nat /\ n * q <= bounty
          OBVIOUS
        <5>2. n \in Nat \ {0}
          BY <2>1
        <5>3. QED BY <5>2, Divide
      <4>3. \A i \in 1..n : one[i] = 1
        OBVIOUS
      <4>4. Sum(one, 1..n) = n
        <5>1. Cardinality(1..n) = n
          <6>1. n \in Nat
            BY <2>1
          <6> HIDE DEF n
          <6>2. n \in Int /\ 1 \in Int /\ n - 1 + 1 = n /\ (1 > n => n = 0)
            BY <6>1
          <6>3. Cardinality(1..n) = IF 1 > n THEN 0 ELSE n - 1 + 1
            BY <6>2, FS_Interval
          <6>4. QED BY <6>2, <6>3
        <5> HIDE DEF one
        <5>2. QED BY <2>3, <4>3, <5>1, SumOfOnes
      <4> HIDE DEF q, one, reward, n
      <4>5. \A i \in 1..n : one[i] \in Nat /\ reward[i] \in Nat /\ n * reward[i] <= one[i] * bounty
        BY <4>1, <4>2, <4>3
      <4>6. n * Sum(reward, 1..n) <= n * bounty
        <5>1. n * Sum(reward, 1..n) <= Sum(one, 1..n) * bounty
          BY <2>1, <2>3, <4>5, SharesFit
        <5>2. QED BY <4>4, <5>1
      <4>7. Sum(reward, 1..n) <= bounty
        <5>1. CASE n = 0
          <6>1. 1..n = {}
            BY <5>1
          <6>2. Sum(reward, {}) = 0
            BY SumEmpty
          <6>3. Sum(reward, 1..n) = 0
            BY <6>1, <6>2
          <6>4. QED BY <6>3
        <5>2. CASE n # 0
          <6>1. PICK s \in Nat : s = Sum(reward, 1..n)
            BY <2>3, <4>5, SumNat
          <6>2. bounty < s => n * (bounty + 1) <= n * s
            BY <2>1, Multiply
          <6>3. n * (bounty + 1) = n * bounty + n /\ n * bounty \in Nat /\ n * s \in Nat
            BY <2>1
          <6>4. n * s <= n * bounty /\ n \in Nat
            BY <2>1, <4>6, <6>1
          <6>5. s <= bounty
            BY <5>2, <6>1, <6>2, <6>3, <6>4
          <6>6. QED BY <6>1, <6>5
        <5>3. QED BY <5>1, <5>2
      <4>8. QED BY <4>5, <4>7
    <3>2. CASE total # 0
      <4>1. \A i \in 1..n : reward[i] = (balance[i] * bounty) \div total
        BY <2>1, <3>2
      <4>2. total \in Nat \ {0}
        BY <2>5, <3>2
      <4> HIDE DEF reward, n, total
      <4>3. ASSUME NEW i \in 1..n
            PROVE  reward[i] \in Nat /\ total * reward[i] <= balance[i] * bounty
        <5>1. PICK x \in Nat : x = balance[i] * bounty
          BY <2>4
        <5>2. reward[i] = x \div total
          BY <4>1, <5>1
        <5>3. QED BY <4>2, <5>1, <5>2, Divide
      <4>4. total * Sum(reward, 1..n) <= Sum(balance, 1..n) * bounty
        BY <2>3, <2>4, <2>5, <4>3, SharesFit
      <4>5. total * Sum(reward, 1..n) <= total * bounty
        BY <2>1, <4>4 DEF total
      <4>6. PICK s \in Nat : s = Sum(reward, 1..n)
        BY <2>3, <4>3, SumNat
      <4>7. bounty < s => total * (bounty + 1) <= total * s
        BY <2>5, Multiply
      <4>8. total * (bounty + 1) = total * bounty + total /\ total * bounty \in Nat
            /\ total * s \in Nat
        BY <2>5
      <4>9. QED BY <4>2, <4>3, <4>5, <4>6, <4>7, <4>8
    <3>3. QED BY <3>1, <3>2
  <2>7. paid = [i \in 1..n |-> reward[i] + IF i = 1 THEN bounty - Sum(reward, 1..n) ELSE 0]
    BY <2>1
  <2> HIDE DEF reward, n
  <2>8. PaysOut([i \in 1..n |-> reward[i] + IF i = 1 THEN bounty - Sum(reward, 1..n)
                                             ELSE 0], bounty)
    BY <2>1, <2>6, ExcessFits
  <2>9. QED BY <2>2, <2>7, <2>8
<1>2. CASE ~TimeExpired(g)
  <2> DEFINE q == bounty \div 4
             paid == <<bounty - q, q>>
  <2>1. get_close_distribution(g, bounty) = paid
    BY <1>2 DEF get_close_distribution
  <2>2. q \in Nat /\ q <= bounty
    <3>1. 4 \in Nat \ {0}
      OBVIOUS
    <3>2. q \in Nat /\ 4 * q <= bounty
      BY <3>1, Divide
    <3> HIDE DEF q
    <3>3. QED BY <3>2
  <2> HIDE DEF q
  <2>3. DOMAIN paid = {1, 2} /\ paid[1] = bounty - q /\ paid[2] = q
    OBVIOUS
  <2> HIDE DEF paid
  <2>4. \A i \in {1, 2} : paid[i] \in Nat /\ paid[i] \in Int
    BY <2>2, <2>3
  <2>5. Sum(paid, {1, 2}) = bounty
    <3>1. IsFiniteSet({1, 2}) /\ IsFiniteSet({1})
      <4>1. 1..2 = {1, 2} /\ 1..1 = {1}
        OBVIOUS
      <4>2. 1 \in Int /\ 2 \in Int
        OBVIOUS
      <4>3. IsFiniteSet(1..2)
        BY <4>2, FS_Interval
      <4>4. IsFiniteSet(1..1)
        BY <4>2, FS_Interval
      <4>5. QED BY <4>1, <4>3, <4>4
    <3>2. {1, 2} \ {2} = {1} /\ {1} \ {1} = {}
      OBVIOUS
    <3>3. Sum(paid, {1, 2}) = paid[2] + Sum(paid, {1, 2} \ {2})
      BY <2>4, <3>1, SumSplit
    <3>4. Sum(paid, {1}) = paid[1] + Sum(paid, {1} \ {1})
      BY <2>4, <3>1, SumSplit
    <3>5. Sum(paid, {1}) = paid[1]
      BY <2>2, <2>3, <3>2, <3>4, SumEmpty
    <3>6. Sum(paid, {1, 2}) = paid[2] + paid[1]
      BY <3>2, <3>3, <3>5
    <3>7. QED BY <2>2, <2>3, <3>6
  <2>6. QED BY <2>1, <2>3, <2>4, <2>5 DEF PaysOut
<1>3. QED BY <1>1, <1>2

\* A game that is finished is not touched any more.
LEMMA StepIsFinal == BoardInv /\ [Next]_vars => [Final]_vars
<1> SUFFICES ASSUME BoardInv, Next PROVE Final
  OBVIOUS
<1>1. PICK g, h : g = game /\ h = game'
  OBVIOUS
<1>2. Sound(g) /\ Started(g) /\ g.elapsed \in Nat
  BY <1>1 DEF BoardInv, Sound, Registry
<1>3. CASE IdleStep
  <2>1. h = g
    BY <1>1, <1>3 DEF IdleStep
  <2>2. \A bounty \in 0..10 : PaysOut(get_close_distribution(g, bounty), bounty)
    BY <1>2, DistributionFacts
  <2>3. game' = g /\ game = g
    BY <1>1, <2>1
  <2>4. \A bounty \in 0..10 :
           LET paid == get_close_distribution(g, bounty)
           IN /\ \A i \in DOMAIN paid : paid[i] >= 0
              /\ paid # <<>> => Sum(paid, DOMAIN paid) = bounty
    BY <2>2 DEF PaysOut
  <2>5. game'.elapsed >= game.elapsed /\ (game_is_finished(game) => game_is_finished(game'))
    BY <1>2, <2>3
  <2>6. QED BY <2>3, <2>4, <2>5 DEF Final
<1>4. CASE NumberStep
  <2>1. h.elapsed >= g.elapsed /\ ~game_is_finished(game)
    BY <1>1, <1>4 DEF NumberStep, ClockStep
  <2>2. QED BY <1>1, <2>1 DEF Final
<1>5. CASE PlayedStep
  <2>1. PICK from, m, c, r, o :
           PlayStep(game, c, r, o, from, m) /\ game' = o.game /\ ~game_is_finished(game)
    BY <1>5 DEF PlayedStep
  <2>2. ClockStep(g, c) /\ EventStep(c, r) /\ Result(r, o, from)
    BY <1>1, <2>1 DEF PlayStep
  <2>3. r.elapsed >= g.elapsed
    BY <1>2, <2>2, RipensFacts DEF Ripens
  <2>4. h.elapsed = r.elapsed
    BY <1>1, <2>1, <2>2 DEF Result, Move, SameClock
  <2>5. QED BY <1>1, <2>1, <2>3, <2>4 DEF Final
<1>6. CASE QueryStep
  <2>1. Opens(g, h)
    BY <1>1, <1>6 DEF QueryStep
  <2>2. Move(g, h, 0) /\ h.plants = g.plants /\ h.nfts = g.nfts
    BY <1>2, <2>1, OpensFacts
  <2>3. /\ Sound(h) /\ h.elapsed = g.elapsed /\ h.setup = g.setup /\ h.users = g.users
        /\ DOMAIN g.markets \subseteq DOMAIN h.markets
    BY <2>2 DEF Move, SameClock, Grows
  <2>4. Started(h)
    BY <1>2, <2>3, StartedStays
  <2>5. \A bounty \in 0..10 :
           LET paid == get_close_distribution(h, bounty)
           IN /\ \A i \in DOMAIN paid : paid[i] >= 0
              /\ paid # <<>> => Sum(paid, DOMAIN paid) = bounty
    BY <2>3, <2>4, DistributionFacts DEF PaysOut
  <2>6. Dominators(h) = Dominators(g)
    <3>1. asic \in DOMAIN g.bal
      BY <1>2 DEF Sound, Books, Wallets, BaseToken
    <3>2. \A p : compute_hashrate(h, p) = compute_hashrate(g, p)
      BY <1>2, <2>1, <2>2, <3>1, OpensFacts DEF compute_hashrate
    <3>3. PICK f : f = Hash(g)
      OBVIOUS
    <3>4. Hash(h) = f
      BY <2>2, <3>2, <3>3 DEF Hash
    <3>5. \A e : PlantsOf(h, e) = PlantsOf(g, e) /\ HashrateOf(h, e) = HashrateOf(g, e)
      BY <2>2, <3>3, <3>4 DEF PlantsOf, HashrateOf, Hash
    <3>6. TotalHashrate(h) = TotalHashrate(g) /\ PlantOwner(h) = PlantOwner(g)
      BY <2>2, <3>3, <3>4 DEF TotalHashrate, PlantOwner, Hash
    <3>7. QED BY <3>5, <3>6 DEF Dominators, get_user_hashrate_share
  <2>7. game_is_finished(g) => game_is_finished(h)
    BY <2>3, <2>6 DEF game_is_finished, TimeExpired
  <2>8. h.elapsed >= g.elapsed
    BY <1>2, <2>3
  <2>9. QED BY <1>1, <2>5, <2>7, <2>8 DEF Final
<1>7. QED BY <1>3, <1>4, <1>5, <1>6, StepFacts

\* The game's clock never goes back, a finished game stays finished, and its bounty is
\* paid out in whole (GameBoard::update_current_time, get_close_distribution).
THEOREM EndIsAlwaysFinal == Spec => EndIsFinal
<1>1. QED BY Invariant, StepIsFinal, PTL DEF Spec, EndIsFinal

-----------------------------------------------------------------------------
(* The places in the agenda *)

\* A place of a kind of event
LEMMA PlaceFacts ==
    ASSUME NEW c, NEW k
    PROVE  /\ \A t, i : <<t, i>> \in PlacesOf(k, c) <=>
                 t \in DOMAIN c /\ i \in DOMAIN c[t] /\ c[t][i].kind = k
           /\ \A p \in PlacesOf(k, c) : p = <<p[1], p[2]>>
<1>1. ASSUME NEW p PROVE p \in Places(c) <=> \E t \in DOMAIN c : p \in {t} \X DOMAIN c[t]
  BY DEF Places
<1>2. \A p \in Places(c) : p = <<p[1], p[2]>>
  BY <1>1
<1>3. \A t, i : <<t, i>> \in Places(c) <=> t \in DOMAIN c /\ i \in DOMAIN c[t]
  BY <1>1
<1>4. QED BY <1>2, <1>3 DEF PlacesOf

\* Two agendas have the same places of a kind.
LEMMA SamePlaces ==
    ASSUME NEW c, NEW d, NEW k,
           \A t, i : <<t, i>> \in PlacesOf(k, c) <=> <<t, i>> \in PlacesOf(k, d)
    PROVE  PlacesOf(k, c) = PlacesOf(k, d)
<1>1. \A p \in PlacesOf(k, c) : p \in PlacesOf(k, d)
  BY PlaceFacts
<1>2. \A p \in PlacesOf(k, d) : p \in PlacesOf(k, c)
  BY PlaceFacts
<1>3. QED BY <1>1, <1>2

\* The agenda d has what c has, and one place more for the kind of cb.
More(c, d, cb) ==
    /\ \A k : k # cb.kind => PlacesOf(k, d) = PlacesOf(k, c)
    /\ \E p : PlacesOf(cb.kind, d) = PlacesOf(cb.kind, c) \cup {p}

\* One more event takes one new place, of its own kind.
LEMMA AddedPlaces ==
    ASSUME NEW c, NEW d, NEW S, \A t \in DOMAIN c : c[t] \in Seq(S), NEW time,
           NEW cb \in S, Added(c, d, time, cb)
    PROVE  More(c, d, cb)
<1> DEFINE old == IF time \in DOMAIN c THEN c[time] ELSE <<>>
           n == Len(old) + 1
<1>1. old \in Seq(S) /\ Len(old) \in Nat /\ DOMAIN old = 1..Len(old)
  <2>1. old \in Seq(S)
    OBVIOUS
  <2>2. QED BY <2>1, LenProperties
<1>2. /\ DOMAIN d[time] = 1..n /\ d[time][n] = cb
      /\ \A i \in 1..Len(old) : d[time][i] = old[i]
  <2>1. d[time] = Append(old, cb)
    BY DEF Added
  <2> HIDE DEF old
  <2>2. QED BY <1>1, <2>1
<1>3. /\ DOMAIN d = DOMAIN c \cup {time} /\ \A t \in DOMAIN c : t # time => d[t] = c[t]
  BY DEF Added
<1>4. time \in DOMAIN c => old = c[time]
  OBVIOUS
<1>5. time \notin DOMAIN c => DOMAIN old = {}
  OBVIOUS
<1> HIDE DEF old
<1>6. n \notin DOMAIN old /\ DOMAIN d[time] = DOMAIN old \cup {n}
  BY <1>1, <1>2
<1>7. \A i \in DOMAIN old : d[time][i] = old[i]
  BY <1>1, <1>2
<1> HIDE DEF n
<1>8. ASSUME NEW k, NEW t, NEW i
      PROVE  <<t, i>> \in PlacesOf(k, d) <=>
                <<t, i>> \in PlacesOf(k, c) \/ (k = cb.kind /\ t = time /\ i = n)
  <2>1. CASE t # time
    BY <1>3, <2>1, PlaceFacts
  <2>2. CASE t = time /\ i = n
    <3>1. <<t, i>> \notin PlacesOf(k, c)
      BY <1>4, <1>6, <2>2, PlaceFacts
    <3>2. <<t, i>> \in PlacesOf(k, d) <=> cb.kind = k
      BY <1>2, <1>3, <1>6, <2>2, PlaceFacts
    <3>3. QED BY <2>2, <3>1, <3>2
  <2>3. CASE t = time /\ i # n
    <3>1. <<t, i>> \in PlacesOf(k, d) <=> i \in DOMAIN old /\ old[i].kind = k
      BY <1>3, <1>6, <1>7, <2>3, PlaceFacts
    <3>2. <<t, i>> \in PlacesOf(k, c) <=> i \in DOMAIN old /\ old[i].kind = k
      BY <1>4, <1>5, <2>3, PlaceFacts
    <3>3. QED BY <2>3, <3>1, <3>2
  <2>4. QED BY <2>1, <2>2, <2>3
<1>9. ASSUME NEW k, k # cb.kind PROVE PlacesOf(k, d) = PlacesOf(k, c)
  BY <1>8, <1>9, SamePlaces
<1>10. PlacesOf(cb.kind, d) = PlacesOf(cb.kind, c) \cup {<<time, n>>}
  <2>1. PICK k : k = cb.kind
    OBVIOUS
  <2>2. ASSUME NEW p \in PlacesOf(k, d) PROVE p \in PlacesOf(k, c) \cup {<<time, n>>}
    <3>1. p = <<p[1], p[2]>>
      BY PlaceFacts
    <3>2. QED BY <1>8, <3>1
  <2>3. ASSUME NEW p \in PlacesOf(k, c) PROVE p \in PlacesOf(k, d)
    <3>1. p = <<p[1], p[2]>>
      BY PlaceFacts
    <3>2. QED BY <1>8, <3>1
  <2>4. <<time, n>> \in PlacesOf(k, d)
    BY <1>8, <2>1
  <2>5. QED BY <2>1, <2>2, <2>3, <2>4
<1>11. QED BY <1>9, <1>10 DEF More

\* What is in an agenda
LEMMA ScheduledFacts ==
    ASSUME NEW g, NEW cb
    PROVE  cb \in Scheduled(g) <=>
               \E t \in DOMAIN g.callbacks : \E i \in DOMAIN g.callbacks[t] :
                   cb = g.callbacks[t][i]
<1>1. cb \in Scheduled(g) <=> \E t \in DOMAIN g.callbacks : cb \in ToSet(g.callbacks[t])
  BY DEF Scheduled
<1>2. QED BY <1>1 DEF ToSet

\* What is scheduled is an event of the board.
LEMMA ScheduledAreEvents ==
    ASSUME NEW g, Agenda(g)
    PROVE  Scheduled(g) \subseteq Event(g)
<1>1. SUFFICES ASSUME NEW cb \in Scheduled(g) PROVE cb \in Event(g)
  OBVIOUS
<1>2. PICK t \in DOMAIN g.callbacks : \E i \in DOMAIN g.callbacks[t] : cb = g.callbacks[t][i]
  BY ScheduledFacts
<1>3. PICK s : s = g.callbacks[t]
  OBVIOUS
<1>4. s \in Seq(Event(g)) /\ \E i \in DOMAIN s : cb = s[i]
  BY <1>2, <1>3 DEF Agenda
<1>5. QED BY <1>4, LenProperties, ElementOfSeq

\* One more event is all that is new in an agenda.
LEMMA AddedEvents ==
    ASSUME NEW g, Agenda(g), NEW h, NEW time, NEW cb,
           Added(g.callbacks, h.callbacks, time, cb)
    PROVE  \A e : e \in Scheduled(h) => e \in Scheduled(g) \/ e = cb
<1> DEFINE c == g.callbacks
           d == h.callbacks
           old == IF time \in DOMAIN c THEN c[time] ELSE <<>>
<1>1. SUFFICES ASSUME NEW e \in Scheduled(h) PROVE e \in Scheduled(g) \/ e = cb
  OBVIOUS
<1>2. PICK t \in DOMAIN d : \E i \in DOMAIN d[t] : e = d[t][i]
  BY ScheduledFacts
<1>3. CASE t # time
  <2>1. t \in DOMAIN c /\ d[t] = c[t]
    BY <1>3 DEF Added
  <2>2. PICK i \in DOMAIN d[t] : e = d[t][i]
    BY <1>2
  <2>3. t \in DOMAIN c /\ i \in DOMAIN c[t] /\ e = c[t][i]
    BY ONLY <2>1, <2>2
  <2>4. QED BY <2>3, ScheduledFacts
<1>4. CASE t = time
  <2>1. old \in Seq(Event(g)) /\ d[time] = Append(old, cb)
    BY DEF Agenda, Added
  <2>2. (\E i \in DOMAIN old : TRUE) => time \in DOMAIN c /\ old = c[time]
    OBVIOUS
  <2> HIDE DEF old
  <2>3. /\ Len(old) \in Nat /\ DOMAIN old = 1..Len(old)
        /\ DOMAIN d[time] = 1..(Len(old) + 1)
        /\ \A i \in 1..Len(old) : d[time][i] = old[i]
        /\ d[time][Len(old) + 1] = cb
    <3>1. Len(old) \in Nat /\ DOMAIN old = 1..Len(old)
      BY <2>1, LenProperties
    <3>2. QED BY <2>1, <3>1
  <2>4. PICK i \in DOMAIN d[time] : e = d[time][i]
    BY <1>2, <1>4
  <2>5. i = Len(old) + 1 \/ i \in DOMAIN old
    BY <2>3, <2>4
  <2>6. i \in DOMAIN old => e = c[time][i] /\ time \in DOMAIN c /\ i \in DOMAIN c[time]
    BY <2>2, <2>3, <2>4
  <2>7. CASE i = Len(old) + 1
    BY <2>3, <2>4, <2>7
  <2>8. CASE i \in DOMAIN old
    <3>1. \E u \in DOMAIN g.callbacks : \E j \in DOMAIN g.callbacks[u] :
             e = g.callbacks[u][j]
      BY ONLY <2>6, <2>8
    <3>2. QED BY <3>1, ScheduledFacts
  <2>9. QED BY <2>5, <2>7, <2>8
<1>5. QED BY <1>3, <1>4

-----------------------------------------------------------------------------
(* Events that recur *)

\* A producer that comes back has something to sell.
First(cb) == cb.kind \in ProducerKind /\ cb.first
Ready(g, cb) == cb.kind \in ProducerKind /\ ~cb.first => Stock(g, cb) > 0

\* While events are performed, what is ready stays so, and what is scheduled is ready
\* and for later.
Tended(g, h) ==
    /\ EventStep(g, h)
    /\ \A cb \in Event(g) : Ready(g, cb) => Ready(h, cb)
    /\ \A cb \in Scheduled(h) : cb \in Scheduled(g) \/ Ready(h, cb)
    /\ \A t \in DOMAIN h.callbacks : t \in DOMAIN g.callbacks \/ t > g.elapsed

\* K's event was performed once, or not at all; and, when no market was opened, there
\* was one payout, or none.
Tally(g, h, K, once, late) ==
    /\ Tended(g, h)
    /\ IF once
       THEN PlacesOf(K, g.callbacks) = {} => \E p : PlacesOf(K, h.callbacks) = {p}
       ELSE PlacesOf(K, h.callbacks) = PlacesOf(K, g.callbacks)
    /\ late /\ K = "payout" => IF once THEN Subsidized(g, h) ELSE Conserves(g, h)

\* What comes next after an event's turn
ComesAgain(g, h, cb) ==
    \/ cb.kind = "lockup" /\ h.callbacks = g.callbacks
    \/ \E time, nb :
          /\ time \in Nat /\ time > g.elapsed /\ nb \in Event(g) /\ nb.kind = cb.kind
          /\ Ready(h, nb) /\ Added(g.callbacks, h.callbacks, time, nb)

\* Recurring events come back after a time above zero.
LEMMA PeriodFacts ==
    ASSUME NEW k \in Recurring
    PROVE  Period[k] \in Nat /\ Period[k] > 0 /\ TotalUnits > 0
<1>1. Period[k] \in Nat \ {0} /\ TotalUnits > 0
  BY BoardAssumption DEF Recurring
<1>2. QED BY <1>1

\* A producer that has something left comes back, at a later time.
LEMMA RenewFacts ==
    ASSUME NEW g, Sound(g), NEW cb \in Event(g), Ready(g, cb), NEW h, Acts(g, h, cb)
    PROVE  ComesAgain(g, h, cb)
<1>1. cb.kind \in ProducerKind \cup {"payout", "lockup"} /\ g.elapsed \in Nat
  BY EventFacts DEF Sound, Registry
<1>2. CASE cb.kind = "lockup"
  BY <1>2 DEF Acts, ComesAgain
<1>3. CASE cb.kind = "payout"
  <2> DEFINE time == g.elapsed + Period.payout
  <2>1. time \in Nat /\ time > g.elapsed
    <3>1. "payout" \in Recurring
      BY DEF Recurring
    <3>2. Period.payout \in Nat /\ Period.payout > 0
      BY <3>1, PeriodFacts
    <3>3. QED BY <1>1, <3>2
  <2>2. Added(g.callbacks, h.callbacks, time, cb)
    BY <1>3 DEF Acts
  <2>3. Ready(h, cb)
    BY <1>3 DEF Ready, ProducerKind
  <2> HIDE DEF time
  <2>4. QED BY <2>1, <2>2, <2>3 DEF ComesAgain
<1>4. CASE cb.kind \in ProducerKind
  <2> DEFINE time == g.elapsed + Period[cb.kind]
  <2>1. time \in Nat /\ time > g.elapsed /\ TotalUnits > 0
    <3>1. PICK k : k = cb.kind
      OBVIOUS
    <3>2. k \in Recurring
      BY <1>4, <3>1 DEF Recurring, ProducerKind
    <3>3. Period[k] \in Nat /\ Period[k] > 0 /\ TotalUnits > 0
      BY <3>2, PeriodFacts
    <3>4. QED BY <1>1, <3>1, <3>3
  <2>2. IF cb.first THEN TotalUnits > 0 ELSE Stock(g, cb) > 0
    BY <1>4, <2>1 DEF Ready
  <2>3. Stock(h, cb) > 0 /\ Added(g.callbacks, h.callbacks, time, Again(cb))
    BY <1>4, <2>2 DEF Acts, Produced
  <2>4. PICK nb : nb = Again(cb)
    OBVIOUS
  <2>5. nb \in Event(g) /\ nb.kind = cb.kind /\ nb.id = cb.id /\ nb.asset = cb.asset
    BY <1>4, <2>4, EventFacts DEF Again
  <2>6. Ready(h, nb)
    BY <2>3, <2>5 DEF Ready, Stock
  <2> HIDE DEF time
  <2>7. QED BY <2>1, <2>3, <2>4, <2>5, <2>6 DEF ComesAgain
<1>5. QED BY <1>1, <1>2, <1>3, <1>4

\* No event sells another one out.
LEMMA ReadyStays ==
    ASSUME NEW g, Sound(g), NEW cb \in Event(g), Ready(g, cb), NEW h, Acts(g, h, cb),
           NEW e \in Event(g), Ready(g, e)
    PROVE  Ready(h, e)
<1> SUFFICES ASSUME e.kind \in ProducerKind, ~e.first PROVE Stock(h, e) > 0
  BY DEF Ready
<1>1. PICK u, x : u = e.asset /\ x = e.id
  OBVIOUS
<1>2. u \in DOMAIN g.bal /\ u # btc /\ x \in Holder(g) /\ x \notin DOMAIN g.nfts
  BY <1>1, EventFacts
<1>3. balance_check(g, u, x) > 0
  BY <1>1 DEF Ready, Stock
<1>4. balance_check(g, u, x) \in Nat /\ balance_check(h, u, x) \in Nat
  <2>1. Books(g) /\ Books(h) /\ u \in DOMAIN h.bal
    BY <1>2 DEF Acts, EventStep, Sound, Grows
  <2>2. QED BY <1>2, <2>1, BooksTypes
<1>5. ASSUME balance_check(g, u, x) <= balance_check(h, u, x)
      PROVE  Stock(h, e) > 0
  BY <1>1, <1>3, <1>4, <1>5 DEF Stock
<1>6. CASE cb.kind = "payout"
  BY <1>2, <1>5, <1>6 DEF Acts
<1>7. CASE cb.kind = "lockup"
  <2>1. x # cb.id
    <3>1. cb.id \in Lockup(g)
      BY <1>7, EventFacts
    <3>2. QED BY <1>2, <3>1 DEF Lockup
  <2>2. QED BY <1>2, <1>5, <1>7, <2>1 DEF Acts
<1>8. CASE cb.kind \in ProducerKind
  <2>1. CASE x = cb.id /\ u = cb.asset
    <3>1. TotalUnits > 0
      BY BoardAssumption
    <3>2. Stock(h, cb) > 0
      BY <1>8, <3>1 DEF Acts, Produced, Ready
    <3>3. QED BY <1>1, <2>1, <3>2 DEF Stock
  <2>2. CASE x # cb.id \/ u # cb.asset
    BY <1>2, <1>5, <1>8, <2>2 DEF Acts
  <2>3. QED BY <2>1, <2>2
<1>9. QED BY <1>6, <1>7, <1>8, EventFacts

\* The agenda after a turn
Later(g, h, K, cb) ==
    /\ \A e \in Scheduled(h) : e \in Scheduled(g) \/ Ready(h, e)
    /\ \A t \in DOMAIN h.callbacks : t \in DOMAIN g.callbacks \/ t > g.elapsed
    /\ IF cb.kind = K
       THEN \E p : PlacesOf(K, h.callbacks) = PlacesOf(K, g.callbacks) \cup {p}
       ELSE PlacesOf(K, h.callbacks) = PlacesOf(K, g.callbacks)

\* The turn of an event puts one of its kind back if it recurs, and no other.
LEMMA TurnFacts ==
    ASSUME NEW g, Sound(g), NEW cb \in Event(g), Ready(g, cb), NEW K \in Recurring,
           NEW late \in BOOLEAN, late => ~First(cb)
    PROVE  Tally(g, action(g, cb), K, cb.kind = K, late)
<1>1. PICK h : h = action(g, cb)
  OBVIOUS
<1>2. Acts(g, h, cb)
  BY <1>1, ActionFacts
<1>3. EventStep(g, h)
  BY <1>2 DEF Acts
<1>4. \A e \in Event(g) : Ready(g, e) => Ready(h, e)
  BY <1>2, ReadyStays
<1>5. ComesAgain(g, h, cb)
  BY <1>2, RenewFacts
<1>6. Later(g, h, K, cb)
  <2>1. CASE cb.kind = "lockup" /\ h.callbacks = g.callbacks
    <3>1. cb.kind # K
      BY <2>1 DEF Recurring
    <3>2. Scheduled(h) = Scheduled(g)
      BY <2>1 DEF Scheduled
    <3>3. QED BY <2>1, <3>1, <3>2 DEF Later
  <2>2. ASSUME NEW time, NEW nb, time \in Nat, time > g.elapsed, nb \in Event(g),
               nb.kind = cb.kind, Ready(h, nb),
               Added(g.callbacks, h.callbacks, time, nb)
        PROVE  Later(g, h, K, cb)
    <3>1. More(g.callbacks, h.callbacks, nb)
      <4>1. \A t \in DOMAIN g.callbacks : g.callbacks[t] \in Seq(Event(g))
        BY DEF Sound, Agenda
      <4>2. QED BY <2>2, <4>1, AddedPlaces
    <3>2. \A e \in Scheduled(h) : e \in Scheduled(g) \/ e = nb
      BY <2>2, AddedEvents DEF Sound
    <3>3. \A t \in DOMAIN h.callbacks : t \in DOMAIN g.callbacks \/ t = time
      BY <2>2 DEF Added
    <3>4. QED BY <2>2, <3>1, <3>2, <3>3 DEF More, Later
  <2>3. QED BY <1>5, <2>1, <2>2 DEF ComesAgain
<1>7. Tended(g, h)
  BY <1>3, <1>4, <1>6 DEF Tended, Later
<1>8. ASSUME late, K = "payout"
      PROVE  IF cb.kind = K THEN Subsidized(g, h) ELSE Conserves(g, h)
  <2>1. CASE cb.kind = "payout"
    BY <1>2, <1>8, <2>1 DEF Acts
  <2>2. CASE cb.kind = "lockup"
    BY <1>2, <1>8, <2>2 DEF Acts
  <2>3. CASE cb.kind \in ProducerKind
    <3>1. ~cb.first
      BY <1>8, <2>3 DEF First
    <3>2. Conserves(g, h) /\ cb.kind # K
      BY <1>2, <1>8, <2>3, <3>1 DEF Acts, Produced, ProducerKind
    <3>3. QED BY <3>2
  <2>4. QED BY <2>1, <2>2, <2>3, EventFacts
<1>9. IF cb.kind = K
      THEN PlacesOf(K, g.callbacks) = {} => \E p : PlacesOf(K, h.callbacks) = {p}
      ELSE PlacesOf(K, h.callbacks) = PlacesOf(K, g.callbacks)
  BY <1>6 DEF Later
<1>10. Tally(g, h, K, cb.kind = K, late)
  BY <1>7, <1>8, <1>9 DEF Tally
<1>11. QED BY <1>1, <1>10

\* Doing nothing leaves every event what it needs.
LEMMA TendedRefl ==
    ASSUME NEW g, Sound(g)
    PROVE  Tended(g, g)
BY EventStepRefl DEF Tended

\* Two changes that leave every event what it needs make one.
LEMMA TendedTrans ==
    ASSUME NEW g, Sound(g), NEW h, NEW k, Tended(g, h), Tended(h, k)
    PROVE  Tended(g, k)
<1>1. EventStep(g, h) /\ EventStep(h, k) /\ EventStep(g, k)
  BY EventStepTrans DEF Tended
<1>2. Event(g) \subseteq Event(h) /\ h.elapsed = g.elapsed
  BY <1>1, RegistryKept DEF EventStep, Sound, Kept
<1>3. Scheduled(h) \subseteq Event(h)
  BY <1>1, ScheduledAreEvents DEF EventStep, Sound
<1>4. \A cb \in Event(g) : Ready(g, cb) => Ready(k, cb)
  BY <1>2 DEF Tended
<1>5. \A cb \in Scheduled(k) : cb \in Scheduled(g) \/ Ready(k, cb)
  BY <1>3 DEF Tended
<1>6. \A t \in DOMAIN k.callbacks : t \in DOMAIN g.callbacks \/ t > g.elapsed
  BY <1>2 DEF Tended
<1>7. QED BY <1>1, <1>4, <1>5, <1>6 DEF Tended

\* No turn, no new event.
LEMMA TallyRefl ==
    ASSUME NEW g, Sound(g), NEW K, NEW late
    PROVE  Tally(g, g, K, FALSE, late)
BY TendedRefl DEF Tally, Conserves

\* The counts of two rows of turns add up, when at most one has an event of the
\* kind.
LEMMA TallyTrans ==
    ASSUME NEW g, Sound(g), NEW h, NEW k, NEW K, NEW a \in BOOLEAN, NEW b \in BOOLEAN,
           NEW late, ~(a /\ b), Tally(g, h, K, a, late), Tally(h, k, K, b, late)
    PROVE  Tally(g, k, K, a \/ b, late)
<1>1. Tended(g, k)
  BY TendedTrans DEF Tally
<1>2. IF a \/ b
      THEN PlacesOf(K, g.callbacks) = {} => \E p : PlacesOf(K, k.callbacks) = {p}
      ELSE PlacesOf(K, k.callbacks) = PlacesOf(K, g.callbacks)
  BY DEF Tally
<1>3. DOMAIN g.bal \subseteq DOMAIN h.bal /\ btc \in DOMAIN g.bal
  BY TotalsAreNat DEF Tally, Tended, EventStep, Grows
<1>4. ASSUME late, K = "payout"
      PROVE  IF a \/ b THEN Subsidized(g, k) ELSE Conserves(g, k)
  <2>1. CASE ~a /\ ~b
    BY <1>3, <1>4, <2>1 DEF Tally, Conserves
  <2>2. CASE a /\ ~b
    BY <1>3, <1>4, <2>2 DEF Tally, Conserves, Subsidized
  <2>3. CASE ~a /\ b
    BY <1>3, <1>4, <2>3 DEF Tally, Conserves, Subsidized
  <2>4. QED BY <2>1, <2>2, <2>3
<1>5. QED BY <1>1, <1>2, <1>4 DEF Tally

\* At most one of a row of events is of the kind K, and it has come by place n.
Single(cbs, K) ==
    \A i, j \in 1..Len(cbs) : cbs[i].kind = K /\ cbs[j].kind = K => i = j
Came(cbs, K, n) == \E i \in 1..n : cbs[i].kind = K

\* A row of turns with one event of a kind at most puts as many back
\* (callbacks.rs).
LEMMA PerformTallies ==
    ASSUME NEW g, Sound(g), NEW cbs \in Seq(Event(g)), NEW K \in Recurring,
           NEW late \in BOOLEAN, Single(cbs, K),
           \A i \in 1..Len(cbs) : Ready(g, cbs[i]) /\ (late => ~First(cbs[i]))
    PROVE  Tally(g, Perform(g, cbs), K, Came(cbs, K, Len(cbs)), late)
<1>1. Len(cbs) \in Nat /\ \A i \in 1..Len(cbs) : cbs[i] \in Event(g)
  BY LenProperties, ElementOfSeq
<1>2. PICK f : Performs(g, cbs, f)
  BY <1>1, PerformUnfolds
<1> DEFINE T == {i \in Nat : i <= Len(cbs) => Tally(g, f[i], K, Came(cbs, K, i), late)}
<1>3. 0 \in T
  <2>1. f[0] = g
    BY <1>2 DEF Performs
  <2>2. Came(cbs, K, 0) = FALSE
    BY DEF Came
  <2>3. QED BY <2>1, <2>2, TallyRefl
<1>4. ASSUME NEW n \in Nat, n \in T PROVE n + 1 \in T
  <2>1. SUFFICES ASSUME n + 1 <= Len(cbs)
                 PROVE  Tally(g, f[n + 1], K, Came(cbs, K, n + 1), late)
    OBVIOUS
  <2>2. n + 1 \in 1..Len(cbs) /\ (n + 1) - 1 = n /\ n <= Len(cbs) /\ n \in 0..Len(cbs)
    BY <1>1, <2>1
  <2>3. PICK x, cb, a, b : /\ x = f[n] /\ cb = cbs[n + 1] /\ a = Came(cbs, K, n)
                           /\ b = (cb.kind = K)
    OBVIOUS
  <2>4. Tally(g, x, K, a, late) /\ a \in BOOLEAN /\ b \in BOOLEAN
    BY <1>4, <2>2, <2>3 DEF Came
  <2>5. Sound(x) /\ cb \in Event(x) /\ Ready(x, cb) /\ (late => ~First(cb))
    <3>1. Tended(g, x) /\ Sound(x)
      BY <2>4 DEF Tally, Tended, EventStep
    <3>2. Event(g) \subseteq Event(x)
      BY <3>1, RegistryKept DEF Tended, EventStep, Sound
    <3>3. cb \in Event(g) /\ Ready(g, cb) /\ (late => ~First(cb))
      BY <1>1, <2>2, <2>3
    <3>4. QED BY <3>1, <3>2, <3>3 DEF Tended
  <2>6. Tally(x, action(x, cb), K, b, late)
    BY <2>3, <2>5, TurnFacts
  <2>7. f[n + 1] = action(x, cb)
    BY <1>2, <2>2, <2>3 DEF Performs
  <2>8. Tally(x, f[n + 1], K, b, late)
    BY <2>6, <2>7
  <2>9. Came(cbs, K, n + 1) = (a \/ b)
    <3>1. 1..(n + 1) = (1..n) \cup {n + 1}
      OBVIOUS
    <3>2. QED BY <2>3, <3>1 DEF Came
  <2>10. ~(a /\ b)
    <3>1. SUFFICES ASSUME NEW i \in 1..n, cbs[i].kind = K, cbs[n + 1].kind = K PROVE FALSE
      BY <2>3 DEF Came
    <3>2. i \in 1..Len(cbs) /\ i # n + 1
      BY <1>1, <2>2
    <3>3. QED BY <2>2, <3>1, <3>2 DEF Single
  <2>11. PICK y : y = f[n + 1]
    OBVIOUS
  <2>12. Tally(g, y, K, a \/ b, late)
    BY <2>4, <2>8, <2>10, <2>11, TallyTrans
  <2>13. QED BY <2>9, <2>11, <2>12
<1>5. Len(cbs) \in T
  <2> HIDE DEF T
  <2>1. QED BY <1>1, <1>3, <1>4, Induction
<1>6. Perform(g, cbs) = f[Len(cbs)]
  BY <1>2 DEF Performs
<1>7. QED BY <1>1, <1>5, <1>6

\* The times up to n have K's event.
Struck(g, K, n) == \E t \in Due(g) : t <= n /\ Came(g.callbacks[t], K, Len(g.callbacks[t]))

\* A run puts back one event of each kind that it took out (callbacks.rs, run).
LEMMA RunTallies ==
    ASSUME NEW g, Sound(g), NEW K \in Recurring, NEW late \in BOOLEAN,
           \A p, q \in PlacesOf(K, g.callbacks) : p = q,
           \A cb \in Scheduled(g) : Ready(g, cb) /\ (late => ~First(cb))
    PROVE  Tally(Undue(g), run(g), K, Struck(g, K, g.elapsed), late)
<1> DEFINE c == g.callbacks
           u == Undue(g)
<1>1. g.elapsed \in Nat /\ \A t \in DOMAIN c : t \in Nat /\ c[t] \in Seq(Event(g))
  BY DEF Sound, Registry, Agenda
<1>2. PICK f : Runs(g, f)
  BY <1>1, RunUnfolds
<1>3. EventStep(g, u) /\ Sound(u) /\ AgendaStep(g, u)
  BY UndueFacts DEF EventStep
<1>4. \A cb : Ready(g, cb) => Ready(u, cb)
  <2>1. \A t, x : balance_check(u, t, x) = balance_check(g, t, x)
    BY <1>3, AgendaStepFacts DEF Sound
  <2>2. QED BY <2>1 DEF Ready, Stock
<1>5. ASSUME NEW t \in DOMAIN c
      PROVE  /\ Len(c[t]) \in Nat /\ c[t] \in Seq(Event(g)) /\ DOMAIN c[t] = 1..Len(c[t])
             /\ \A i \in 1..Len(c[t]) : /\ c[t][i] \in Event(g) /\ Ready(u, c[t][i])
                                        /\ late => ~First(c[t][i])
  <2>1. PICK s : s = c[t]
    OBVIOUS
  <2>2. s \in Seq(Event(g)) /\ Len(s) \in Nat /\ DOMAIN s = 1..Len(s)
    BY <1>1, <1>5, <2>1, LenProperties
  <2>3. ASSUME NEW i \in 1..Len(s)
        PROVE  s[i] \in Event(g) /\ Ready(u, s[i]) /\ (late => ~First(s[i]))
    <3>1. s[i] \in Scheduled(g)
      BY <1>5, <2>1, <2>2, ScheduledFacts
    <3>2. s[i] \in Event(g)
      BY <2>2, ElementOfSeq
    <3>3. QED BY <1>4, <3>1, <3>2
  <2>4. QED BY <2>1, <2>2, <2>3
<1>6. ASSUME NEW t \in DOMAIN c, NEW v \in DOMAIN c, NEW i \in 1..Len(c[t]),
             NEW j \in 1..Len(c[v]), c[t][i].kind = K, c[v][j].kind = K
      PROVE  t = v /\ i = j
  <2>1. <<t, i>> \in PlacesOf(K, c) /\ <<v, j>> \in PlacesOf(K, c)
    BY <1>5, <1>6, PlaceFacts
  <2>2. <<t, i>> = <<v, j>>
    BY <2>1
  <2>3. QED BY <2>2
<1> DEFINE P(n) == Tally(u, f[n], K, Struck(g, K, n), late)
           T == {n \in Nat : n <= g.elapsed + 1 => P(n - 1)}
<1>7. 0 \in T
  <2>1. f[-1] = u /\ 0 - 1 = -1
    BY <1>2 DEF Runs
  <2>2. Struck(g, K, -1) = FALSE
    <3>1. \A t \in Due(g) : ~(t <= -1)
      BY <1>1 DEF Due
    <3>2. QED BY <3>1 DEF Struck
  <2> HIDE DEF u
  <2>3. QED BY <1>3, <2>1, <2>2, TallyRefl
<1> HIDE DEF u
<1>8. ASSUME NEW n \in Nat, n \in T PROVE n + 1 \in T
  <2>1. SUFFICES ASSUME n <= g.elapsed PROVE P(n)
    BY <1>1
  <2>2. n \in 0..g.elapsed /\ n <= g.elapsed + 1
    BY <1>1, <2>1
  <2>3. P(n - 1)
    BY <1>8, <2>2
  <2>4. PICK x, cbs : x = f[n - 1] /\ cbs = c[n]
    OBVIOUS
  <2>5. f[n] = IF n \in Due(g) THEN Perform(x, cbs) ELSE x
    BY <1>2, <2>2, <2>4 DEF Runs
  <2>6. PICK a, b : a = Struck(g, K, n - 1) /\ b = (n \in Due(g) /\ Came(cbs, K, Len(cbs)))
    OBVIOUS
  <2>7. a \in BOOLEAN /\ b \in BOOLEAN
    BY <2>6 DEF Struck
  <2>8. Struck(g, K, n) = (a \/ b)
    <3>1. \A t \in Due(g) : t <= n <=> t <= n - 1 \/ t = n
      BY <1>1 DEF Due
    <3>2. QED BY <2>4, <2>6, <3>1 DEF Struck
  <2>9. ~(a /\ b)
    <3>1. SUFFICES ASSUME NEW t \in Due(g), t <= n - 1, n \in Due(g),
                          NEW i \in 1..Len(c[t]), c[t][i].kind = K,
                          NEW j \in 1..Len(c[n]), c[n][j].kind = K
                   PROVE  FALSE
      BY <2>4, <2>6 DEF Struck, Came
    <3>2. t \in DOMAIN c /\ n \in DOMAIN c /\ t # n
      BY <1>1, <3>1 DEF Due
    <3>3. QED BY <1>6, <3>1, <3>2
  <2>10. Tally(u, x, K, a, late)
    BY <2>3, <2>4, <2>6
  <2>11. Sound(x) /\ Tended(u, x)
    BY <2>10 DEF Tally, Tended, EventStep
  <2>12. Tally(x, f[n], K, b, late)
    <3>1. CASE n \notin Due(g)
      <4>1. f[n] = x /\ b = FALSE
        BY <2>5, <2>6, <3>1
      <4>2. QED BY <2>11, <4>1, TallyRefl
    <3>2. CASE n \in Due(g)
      <4>1. n \in DOMAIN c
        BY <3>2 DEF Due
      <4>2. Event(g) \subseteq Event(u) /\ Event(u) \subseteq Event(x)
        BY <1>3, <2>11, RegistryKept DEF EventStep, Tended, Sound
      <4>3. cbs \in Seq(Event(x))
        BY <1>5, <2>4, <4>1, <4>2, SeqOfMore
      <4>4. \A i \in 1..Len(cbs) : Ready(x, cbs[i]) /\ (late => ~First(cbs[i]))
        BY <1>5, <2>4, <2>11, <4>1, <4>2 DEF Tended
      <4>5. Single(cbs, K)
        BY <1>6, <2>4, <4>1 DEF Single
      <4>6. Tally(x, Perform(x, cbs), K, Came(cbs, K, Len(cbs)), late)
        BY <2>11, <4>3, <4>4, <4>5, PerformTallies
      <4>7. b = Came(cbs, K, Len(cbs))
        BY <2>6, <3>2 DEF Came
      <4>8. QED BY <2>5, <3>2, <4>6, <4>7
    <3>3. QED BY <3>1, <3>2
  <2>13. PICK y : y = f[n]
    OBVIOUS
  <2>14. Tally(u, y, K, a \/ b, late)
    BY <1>3, <2>7, <2>9, <2>10, <2>12, <2>13, TallyTrans
  <2>15. QED BY <2>8, <2>13, <2>14
<1>9. P(g.elapsed)
  <2>1. g.elapsed + 1 \in T
    <3> HIDE DEF T
    <3>1. QED BY <1>1, <1>7, <1>8, Induction
  <2>2. (g.elapsed + 1) - 1 = g.elapsed
    BY <1>1
  <2> HIDE DEF P
  <2>3. QED BY <1>1, <2>1, <2>2
<1>10. run(g) = f[g.elapsed]
  BY <1>2 DEF Runs
<1>11. QED BY <1>9, <1>10 DEF u

\* Each recurring event has its place in the agenda, and can come again.
Course(g) ==
    /\ \A K \in Recurring : \E p : PlacesOf(K, g.callbacks) = {p}
    /\ \A cb \in Scheduled(g) : Ready(g, cb)

\* What has no event, or the same
LEMMA CourseKept ==
    ASSUME NEW g, Course(g), NEW h, h.callbacks = g.callbacks,
           \A cb \in Scheduled(g) : Ready(g, cb) => Ready(h, cb)
    PROVE  Course(h)
<1>1. Scheduled(h) = Scheduled(g)
  BY DEF Scheduled
<1>2. QED BY <1>1 DEF Course

\* The places that are left when the events due are taken out
LEMMA UnduePlaces ==
    ASSUME NEW g, Sound(g), NEW k, NEW p, PlacesOf(k, g.callbacks) = {p}
    PROVE  PlacesOf(k, Undue(g).callbacks) = IF p[1] \in Due(g) THEN {} ELSE {p}
<1> DEFINE c == g.callbacks
           d == Undue(g).callbacks
<1>1. /\ DOMAIN d = DOMAIN c \ Due(g)
      /\ \A t \in DOMAIN c \ Due(g) : d[t] = c[t]
  BY UndueFacts
<1> HIDE DEF d
<1>2. ASSUME NEW t, NEW i
      PROVE  <<t, i>> \in PlacesOf(k, d) <=> <<t, i>> \in PlacesOf(k, c) /\ t \notin Due(g)
  BY <1>1, PlaceFacts
<1>3. p = <<p[1], p[2]>>
  BY PlaceFacts
<1>4. p \in PlacesOf(k, d) <=> p[1] \notin Due(g)
  BY <1>2, <1>3
<1>5. \A q \in PlacesOf(k, d) : q = p
  <2>1. SUFFICES ASSUME NEW q \in PlacesOf(k, d) PROVE q = p
    OBVIOUS
  <2>2. q = <<q[1], q[2]>>
    BY PlaceFacts
  <2>3. <<q[1], q[2]>> \in PlacesOf(k, c)
    BY <1>2, <2>2
  <2>4. QED BY <2>2, <2>3
<1>6. QED BY <1>4, <1>5 DEF d

\* A run leaves nothing that is due, and each recurring event in its place.
LEMMA RunCourse ==
    ASSUME NEW g, Sound(g), Course(g), NEW r, r = run(g)
    PROVE  /\ Course(r) /\ \A t \in DOMAIN r.callbacks : t > g.elapsed
           /\ (\A cb \in Scheduled(g) : ~First(cb)) => Subsidized(g, r)
<1>1. PICK u : u = Undue(g)
  OBVIOUS
<1>2. /\ EventStep(g, u) /\ Sound(u) /\ AgendaStep(g, u)
      /\ DOMAIN u.callbacks = DOMAIN g.callbacks \ Due(g)
      /\ \A t \in DOMAIN g.callbacks \ Due(g) : u.callbacks[t] = g.callbacks[t]
  BY <1>1, UndueFacts DEF EventStep
<1>3. /\ u.total = g.total /\ DOMAIN u.bal = DOMAIN g.bal /\ u.elapsed = g.elapsed
      /\ \A t, x : balance_check(u, t, x) = balance_check(g, t, x)
  BY <1>2, AgendaStepFacts DEF Sound, Kept
<1>4. \A late \in BOOLEAN : \A K \in Recurring :
         (\A cb \in Scheduled(g) : late => ~First(cb)) =>
             Tally(u, r, K, Struck(g, K, g.elapsed), late)
  <2>1. SUFFICES ASSUME NEW late \in BOOLEAN, NEW K \in Recurring,
                        \A cb \in Scheduled(g) : late => ~First(cb)
                 PROVE  Tally(u, r, K, Struck(g, K, g.elapsed), late)
    OBVIOUS
  <2>2. \A cb \in Scheduled(g) : Ready(g, cb) /\ (late => ~First(cb))
    BY <2>1 DEF Course
  <2>3. \A p, q \in PlacesOf(K, g.callbacks) : p = q
    BY DEF Course
  <2>4. Tally(Undue(g), run(g), K, Struck(g, K, g.elapsed), late)
    BY <2>2, <2>3, RunTallies
  <2>5. QED BY <1>1, <2>4
<1>5. \A K \in Recurring : Tally(u, r, K, Struck(g, K, g.elapsed), FALSE)
  <2>1. FALSE \in BOOLEAN
    OBVIOUS
  <2>2. QED BY <1>4, <2>1
<1>6. Tended(u, r)
  <2>1. "payout" \in Recurring
    BY DEF Recurring
  <2>2. QED BY <1>5, <2>1 DEF Tally
<1>7. ASSUME NEW K \in Recurring PROVE \E p : PlacesOf(K, r.callbacks) = {p}
  <2>1. PICK p : PlacesOf(K, g.callbacks) = {p}
    BY DEF Course
  <2>2. PlacesOf(K, u.callbacks) = IF p[1] \in Due(g) THEN {} ELSE {p}
    BY <1>1, <2>1, UnduePlaces
  <2>3. PICK t, i : t = p[1] /\ i = p[2]
    OBVIOUS
  <2>4. p = <<t, i>> /\ t \in DOMAIN g.callbacks /\ i \in DOMAIN g.callbacks[t]
        /\ g.callbacks[t][i].kind = K
    <3>1. p = <<t, i>>
      BY <2>1, <2>3, PlaceFacts
    <3>2. QED BY <2>1, <3>1, PlaceFacts
  <2>5. CASE t \in Due(g)
    <3>1. i \in 1..Len(g.callbacks[t])
      <4>1. PICK s : s = g.callbacks[t]
        OBVIOUS
      <4>2. s \in Seq(Event(g))
        BY <2>4, <4>1 DEF Sound, Agenda
      <4>3. QED BY <2>4, <4>1, <4>2, LenProperties
    <3>2. t <= g.elapsed
      BY <2>5 DEF Due
    <3>3. Struck(g, K, g.elapsed)
      BY <2>4, <2>5, <3>1, <3>2 DEF Struck, Came
    <3>4. PlacesOf(K, u.callbacks) = {}
      BY <2>2, <2>3, <2>5
    <3>5. QED BY <1>5, <3>3, <3>4 DEF Tally
  <2>6. CASE t \notin Due(g)
    <3>1. ~Struck(g, K, g.elapsed)
      <4>1. SUFFICES ASSUME NEW v \in Due(g), NEW j \in 1..Len(g.callbacks[v]),
                            g.callbacks[v][j].kind = K
                     PROVE  FALSE
        BY DEF Struck, Came
      <4>2. PICK s : s = g.callbacks[v]
        OBVIOUS
      <4>3. v \in DOMAIN g.callbacks /\ s \in Seq(Event(g))
        BY <4>2 DEF Due, Sound, Agenda
      <4>4. j \in DOMAIN g.callbacks[v]
        BY <4>1, <4>2, <4>3, LenProperties
      <4>5. <<v, j>> \in PlacesOf(K, g.callbacks)
        BY <4>1, <4>3, <4>4, PlaceFacts
      <4>6. <<v, j>> = <<t, i>>
        BY <2>1, <2>4, <4>5
      <4>7. QED BY <2>6, <4>1, <4>6
    <3>2. PlacesOf(K, r.callbacks) = PlacesOf(K, u.callbacks)
      BY <1>5, <3>1 DEF Tally
    <3>3. QED BY <2>2, <2>3, <2>6, <3>2
  <2>7. QED BY <2>5, <2>6
<1>8. ASSUME NEW cb \in Scheduled(r) PROVE Ready(r, cb)
  <2>1. SUFFICES ASSUME cb \in Scheduled(u) PROVE Ready(r, cb)
    BY <1>6 DEF Tended
  <2>2. cb \in Scheduled(g)
    <3>1. PICK t \in DOMAIN u.callbacks : \E i \in DOMAIN u.callbacks[t] :
                                              cb = u.callbacks[t][i]
      BY <2>1, ScheduledFacts
    <3>2. t \in DOMAIN g.callbacks /\ u.callbacks[t] = g.callbacks[t]
      BY <1>2
    <3>3. QED BY <3>1, <3>2, ScheduledFacts
  <2>3. Ready(g, cb)
    BY <2>2 DEF Course
  <2>4. Ready(u, cb)
    BY <1>3, <2>3 DEF Ready, Stock
  <2>5. cb \in Event(u)
    BY <1>2, <2>1, ScheduledAreEvents DEF Sound
  <2>6. QED BY <1>6, <2>4, <2>5 DEF Tended
<1>9. ASSUME NEW t \in DOMAIN r.callbacks PROVE t > g.elapsed
  <2>1. t \in DOMAIN u.callbacks \/ t > u.elapsed
    BY <1>6 DEF Tended
  <2>2. CASE t \in DOMAIN u.callbacks
    <3>1. t \in DOMAIN g.callbacks /\ t \notin Due(g)
      BY <1>2, <2>2
    <3>2. t \in Nat /\ g.elapsed \in Nat
      BY <3>1 DEF Sound, Agenda, Registry
    <3>3. QED BY <3>1, <3>2 DEF Due
  <2>3. QED BY <1>3, <2>1, <2>2
<1>10. ASSUME \A cb \in Scheduled(g) : ~First(cb)
       PROVE  Subsidized(g, r)
  <2>1. "payout" \in Recurring /\ TRUE \in BOOLEAN
    BY DEF Recurring
  <2>2. Tally(u, r, "payout", Struck(g, "payout", g.elapsed), TRUE)
    BY <1>4, <1>10, <2>1
  <2>3. Subsidized(u, r) \/ Conserves(u, r)
    BY <2>2 DEF Tally
  <2>4. btc \in DOMAIN g.bal /\ g.total[btc] \in Nat /\ MiningSubsidy \in Nat
    BY TotalsAreNat, BoardAssumption
  <2>5. CASE Subsidized(u, r)
    BY <1>3, <2>5 DEF Subsidized
  <2>6. CASE Conserves(u, r)
    <3>1. \A t \in DOMAIN g.bal : r.total[t] = g.total[t]
      BY <1>3, <2>6 DEF Conserves
    <3>2. r.total[btc] - g.total[btc] = 0
      BY <2>4, <3>1
    <3>3. QED BY <2>4, <3>1, <3>2 DEF Subsidized
  <2>7. QED BY <2>3, <2>5, <2>6
<1>11. QED BY <1>7, <1>8, <1>9, <1>10 DEF Course

\* What is a producer's, no move takes.
LEMMA MoveReady ==
    ASSUME NEW g, Sound(g), NEW h, NEW from \in UserIds(g), Move(g, h, from),
           NEW cb \in Event(g), Ready(g, cb)
    PROVE  Ready(h, cb)
<1> SUFFICES ASSUME cb.kind \in ProducerKind, ~cb.first PROVE Stock(h, cb) > 0
  BY DEF Ready
<1>1. PICK u, x : u = cb.asset /\ x = cb.id
  OBVIOUS
<1>2. u \in DOMAIN g.bal /\ x \in Holder(g) \ (UserIds(g) \cup DOMAIN g.nfts)
  BY <1>1, EventFacts
<1>3. balance_check(g, u, x) > 0
  BY <1>1 DEF Ready, Stock
<1>4. balance_check(g, u, x) \in Nat /\ balance_check(h, u, x) \in Nat
  <2>1. Books(g) /\ Books(h) /\ u \in DOMAIN h.bal
    BY <1>2 DEF Move, Sound, Grows
  <2>2. QED BY <1>2, <2>1, BooksTypes
<1>5. x \notin Mine(g, from)
  BY <1>2 DEF Mine
<1>6. balance_check(g, u, x) <= balance_check(h, u, x)
  BY <1>2, <1>5 DEF Move, Takes
<1>7. QED BY <1>1, <1>3, <1>4, <1>6 DEF Stock

\* A move at most adds a lockup's release.
LEMMA MoveCourse ==
    ASSUME NEW g, Sound(g), Course(g), NEW h, NEW m, NEW from \in UserIds(g),
           Move(g, h, from), h.callbacks = g.callbacks \/ Locks(g, h, m)
    PROVE  Course(h)
<1>1. \A cb \in Scheduled(g) : Ready(h, cb)
  BY MoveReady, ScheduledAreEvents DEF Sound, Course
<1>2. CASE h.callbacks = g.callbacks
  BY <1>1, <1>2, CourseKept
<1>3. CASE Locks(g, h, m)
  <2>1. PICK id, cb : /\ cb = [kind |-> "lockup", id |-> id, asset |-> m.currency]
                      /\ Added(g.callbacks, h.callbacks, 1, cb)
    BY <1>3 DEF Locks
  <2>2. cb.kind = "lockup"
    BY <2>1
  <2>3. Ready(h, cb)
    BY <2>2 DEF Ready, ProducerKind
  <2>4. PICK S : S = Event(g) \cup {cb}
    OBVIOUS
  <2>5. \A t \in DOMAIN g.callbacks : g.callbacks[t] \in Seq(S)
    <3>1. Event(g) \subseteq S
      BY <2>4
    <3>2. QED BY <3>1, SeqOfMore DEF Sound, Agenda
  <2>6. More(g.callbacks, h.callbacks, cb)
    BY <2>1, <2>4, <2>5, AddedPlaces
  <2>7. \A K \in Recurring : PlacesOf(K, h.callbacks) = PlacesOf(K, g.callbacks)
    BY <2>2, <2>6 DEF More, Recurring
  <2>8. \A e \in Scheduled(h) : e \in Scheduled(g) \/ e = cb
    <3>1. Agenda(g) /\ Added(g.callbacks, h.callbacks, 1, cb)
      BY <2>1 DEF Sound
    <3>2. QED BY <3>1, AddedEvents, Zenon
  <2>9. QED BY <1>1, <2>3, <2>7, <2>8 DEF Course
<1>4. QED BY <1>2, <1>3

\* What is due after a move, is a lockup's release.
CaughtUp(g) == \A t \in Due(g) : \A cb \in ToSet(g.callbacks[t]) : cb.kind = "lockup"

\* A move leaves nothing due but a release (game/mod.rs, play).
LEMMA MoveSettled ==
    ASSUME NEW g, Sound(g), \A t \in DOMAIN g.callbacks : t > g.elapsed, NEW h, NEW m,
           h.elapsed = g.elapsed, h.callbacks = g.callbacks \/ Locks(g, h, m)
    PROVE  CaughtUp(h)
<1>1. g.elapsed \in Nat /\ \A t \in DOMAIN g.callbacks : t \in Nat
  BY DEF Sound, Registry, Agenda
<1>2. CASE h.callbacks = g.callbacks
  <2>1. Due(h) = {}
    BY <1>1, <1>2 DEF Due
  <2>2. QED BY <2>1 DEF CaughtUp
<1>3. CASE Locks(g, h, m)
  <2>1. PICK id, cb : /\ cb = [kind |-> "lockup", id |-> id, asset |-> m.currency]
                      /\ Added(g.callbacks, h.callbacks, 1, cb)
    BY <1>3 DEF Locks
  <2>2. SUFFICES ASSUME NEW t \in Due(h), NEW e \in ToSet(h.callbacks[t])
                 PROVE  e.kind = "lockup"
    BY DEF CaughtUp
  <2>3. t \in DOMAIN h.callbacks /\ t <= g.elapsed
    BY <2>2 DEF Due
  <2>4. t \notin DOMAIN g.callbacks
    BY <1>1, <2>3
  <2>5. t = 1
    BY <2>1, <2>3, <2>4 DEF Added
  <2>6. h.callbacks[t] = Append(<<>>, cb)
    BY <2>1, <2>4, <2>5 DEF Added
  <2>7. e = cb
    <3>1. Append(<<>>, cb) = <<cb>> /\ DOMAIN <<cb>> = {1} /\ <<cb>>[1] = cb
      OBVIOUS
    <3>2. PICK i \in DOMAIN <<cb>> : e = <<cb>>[i]
      BY <2>2, <2>6, <3>1 DEF ToSet
    <3>3. QED BY <3>1, <3>2
  <2>8. QED BY <2>1, <2>7
<1>4. QED BY <1>2, <1>3

\* The clock leaves the agenda.
LEMMA ClockCourse ==
    ASSUME NEW g, Sound(g), Course(g), NEW h, ClockStep(g, h)
    PROVE  Course(h)
<1>1. h.callbacks = g.callbacks /\ \A u, x : balance_check(h, u, x) = balance_check(g, u, x)
  BY ClockFacts DEF ClockStep, SameLedger
<1>2. \A cb : Ready(g, cb) => Ready(h, cb)
  BY <1>1 DEF Ready, Stock
<1>3. QED BY <1>1, <1>2, CourseKept

\* A move, from the clock on
LEMMA PlayedCourse ==
    ASSUME NEW g, Sound(g), Course(g), NEW c, NEW r, NEW o, NEW from, NEW m,
           PlayStep(g, c, r, o, from, m)
    PROVE  /\ Course(o.game) /\ CaughtUp(o.game)
           /\ (\A cb \in Scheduled(g) : ~First(cb)) =>
                 \A u \in DOMAIN g.bal :
                    IF u = btc THEN o.game.total[u] - g.total[u] \in 0..MiningSubsidy
                    ELSE o.game.total[u] = g.total[u]
<1>1. PICK h : h = o.game
  OBVIOUS
<1>2. /\ ClockStep(g, c) /\ Sound(c) /\ r = run(c) /\ EventStep(c, r)
      /\ from \in UserIds(g) /\ Move(r, h, from)
      /\ h.callbacks = r.callbacks \/ Locks(r, h, m)
  BY <1>1 DEF PlayStep, Result
<1>3. Course(c)
  BY <1>2, ClockCourse
<1>4. /\ Course(r) /\ \A t \in DOMAIN r.callbacks : t > c.elapsed
      /\ (\A cb \in Scheduled(c) : ~First(cb)) => Subsidized(c, r)
  BY <1>2, <1>3, RunCourse
<1>5. Sound(r) /\ r.elapsed = c.elapsed /\ from \in UserIds(r)
  <2>1. UserIds(c) = UserIds(g) /\ UserIds(r) = UserIds(c)
    BY <1>2, ClockFacts DEF EventStep, Kept, UserIds
  <2>2. QED BY <1>2, <2>1 DEF EventStep, Kept
<1>6. Course(h)
  BY <1>2, <1>4, <1>5, MoveCourse
<1>7. CaughtUp(h)
  <2>1. h.elapsed = r.elapsed
    BY <1>2 DEF Move, SameClock
  <2>2. \A t \in DOMAIN r.callbacks : t > r.elapsed
    BY <1>4, <1>5
  <2>3. QED BY <1>2, <1>5, <2>1, <2>2, MoveSettled
<1>8. ASSUME \A cb \in Scheduled(g) : ~First(cb), NEW u \in DOMAIN g.bal
      PROVE  IF u = btc THEN h.total[u] - g.total[u] \in 0..MiningSubsidy
             ELSE h.total[u] = g.total[u]
  <2>1. c.callbacks = g.callbacks /\ c.total = g.total /\ c.bal = g.bal
    BY <1>2 DEF ClockStep, SameLedger
  <2>2. Scheduled(c) = Scheduled(g)
    BY <2>1 DEF Scheduled
  <2>3. Subsidized(c, r)
    BY <1>4, <1>8, <2>2
  <2>4. u \in DOMAIN r.bal
    BY <1>2, <2>1 DEF EventStep, Grows
  <2>5. h.total[u] = r.total[u]
    BY <1>2, <2>4 DEF Move, Conserves
  <2>6. QED BY <2>1, <2>3, <2>5 DEF Subsidized
<1>9. QED BY <1>1, <1>6, <1>7, <1>8

\* What has not opened yet, or has
LEMMA OpenedFacts ==
    ASSUME NEW g, Sound(g), Opened(g)
    PROVE  \A cb \in Scheduled(g) : ~First(cb)
<1>1. SUFFICES ASSUME NEW cb \in Scheduled(g), cb.kind \in ProducerKind PROVE ~cb.first
  BY DEF First
<1>2. cb \in Event(g)
  BY ScheduledAreEvents DEF Sound
<1>3. cb \in [kind : ProducerKind, asset : BaseToken \ {btc},
              id : Holder(g) \ (UserIds(g) \cup DOMAIN g.nfts), first : BOOLEAN]
  BY <1>1, <1>2 DEF Event, ProducerKind
<1>4. "first" \in DOMAIN cb
  BY <1>3
<1>5. QED BY <1>4 DEF Opened

-----------------------------------------------------------------------------
(* The agenda of a new game *)

\* The agenda stays while users, markets and plants are made, and no NFT but a plant is.
Mute(g, h) ==
    DOMAIN h = Field /\ h.callbacks = g.callbacks /\ Lockup(h) \subseteq Lockup(g)

\* Setting a balance leaves the agenda and adds no lockup.
LEMMA PutBalIsMute ==
    ASSUME NEW g, DOMAIN g = Field, NEW t, NEW e, NEW n
    PROVE  Mute(g, SetBalance(g, t, e, n))
BY DEF Mute, SetBalance, Field, Lockup

\* Minting leaves the agenda and adds no lockup.
LEMMA MintIsMute ==
    ASSUME NEW g, DOMAIN g = Field, NEW t, NEW e, NEW n
    PROVE  Mute(g, mint(g, t, e, n))
<1>1. PICK k : k = SetBalance(g, t, e, balance_check(g, t, e) + n)
  OBVIOUS
<1>2. Mute(g, k)
  BY <1>1, PutBalIsMute
<1>3. mint(g, t, e, n) = [k EXCEPT !.total[t] = @ + n]
  BY <1>1 DEF mint
<1>4. QED BY <1>2, <1>3 DEF Mute, Field, Lockup

\* A new market leaves the agenda and adds no lockup.
LEMMA EnsureIsMute ==
    ASSUME NEW g, DOMAIN g = Field, NEW p
    PROVE  Mute(g, ensure(g, p))
<1>1. CASE has_market(g, p)
  BY <1>1 DEF ensure, Mute
<1>2. CASE ~has_market(g, p)
  <2>1. PICK k : k = new_token(g, g.alloc + 1)
    OBVIOUS
  <2>2. Mute(g, k)
    BY <2>1 DEF new_token, Mute, Field, Lockup
  <2>3. PICK mkt : ensure(g, p) =
            [k EXCEPT !.alloc = @ + 2, !.markets = Put(@, normalize(p), mkt)]
    BY <1>2, <2>1 DEF ensure
  <2>4. QED BY <2>2, <2>3 DEF Mute, Field, Lockup
<1>3. QED BY <1>1, <1>2

\* A new player leaves the agenda and adds no lockup.
LEMMA add_userIsMute ==
    ASSUME NEW g, DOMAIN g = Field, NEW key
    PROVE  Mute(g, add_user(g, key))
<1> DEFINE id == g.alloc + 1
           amount == Setup[g.setup].start_amount
<1>1. PICK i : i = [g EXCEPT !.alloc = id, !.users = Put(@, key, id)]
  OBVIOUS
<1>2. Mute(g, i)
  BY <1>1 DEF Mute, Field, Lockup
<1>3. PICK k : k = mint(i, real_sats, id, amount)
  OBVIOUS
<1>4. Mute(i, k)
  BY <1>2, <1>3, MintIsMute DEF Mute
<1>5. Mute(k, mint(k, btc, id, amount))
  BY <1>4, MintIsMute DEF Mute
<1>6. add_user(g, key) = mint(k, btc, id, amount)
  BY <1>1, <1>3 DEF add_user
<1>7. QED BY <1>2, <1>4, <1>5, <1>6 DEF Mute

\* A new plant leaves the agenda and is no lockup.
LEMMA add_start_plantIsMute ==
    ASSUME NEW g, DOMAIN g = Field, NEW i
    PROVE  Mute(g, add_start_plant(g, i))
<1>1. PICK owner, type : owner = g.users[Players[i]] /\ type = StartPlants[i]
  OBVIOUS
<1>2. PICK h : h = add_plant(g, owner, type, 1)
  OBVIOUS
<1>3. Mute(g, h)
  <2>1. PICK id : id = g.alloc + 1
    OBVIOUS
  <2>2. PICK nft, plant :
           h = [g EXCEPT !.alloc = id, !.nfts = Put(@, id, nft), !.plants = Put(@, id, plant)]
    BY <1>2, <2>1 DEF add_plant
  <2>3. /\ DOMAIN h = Field /\ h.callbacks = g.callbacks
        /\ h.nfts = Put(g.nfts, id, nft) /\ h.plants = Put(g.plants, id, plant)
    BY <2>2 DEF Field
  <2>4. Lockup(h) \subseteq Lockup(g)
    BY <2>3 DEF Put, Lockup
  <2>5. QED BY <2>3, <2>4 DEF Mute
<1>4. Mute(h, mint(h, asic, h.alloc, 1))
  BY <1>3, MintIsMute DEF Mute
<1>5. add_start_plant(g, i) = mint(h, asic, h.alloc, 1)
  BY <1>1, <1>2 DEF add_start_plant
<1>6. QED BY <1>3, <1>4, <1>5 DEF Mute

\* With its players made the board has an empty agenda and no lockup.
LEMMA WithUsersIsMute ==
    ASSUME NEW setup
    PROVE  LET g == WithUsers(setup)
           IN DOMAIN g = Field /\ g.callbacks = <<>> /\ Lockup(g) = {}
<1>1. PICK f : Joins(setup, f)
  BY WithUsersUnfolds
<1>2. Len(Players) \in Nat
  BY BoardAssumption, LenProperties
<1> DEFINE Good(i) == DOMAIN f[i] = Field /\ f[i].callbacks = <<>> /\ Lockup(f[i]) = {}
           T == {i \in Nat : i <= Len(Players) => Good(i)}
<1>3. 0 \in T
  <2>1. f[0] = no_game(setup)
    BY <1>1 DEF Joins
  <2>2. DOMAIN <<>> = {}
    OBVIOUS
  <2>3. QED BY <2>1, <2>2 DEF no_game, Field, Lockup
<1>4. ASSUME NEW i \in Nat, i \in T PROVE i + 1 \in T
  <2>1. SUFFICES ASSUME i + 1 <= Len(Players) PROVE Good(i + 1)
    OBVIOUS
  <2>2. Good(i) /\ i + 1 \in 1..Len(Players) /\ (i + 1) - 1 = i
    BY <1>2, <1>4, <2>1
  <2>3. PICK h : h = f[i]
    OBVIOUS
  <2>4. f[i + 1] = add_user(h, Players[i + 1])
    BY <1>1, <2>2, <2>3 DEF Joins
  <2>5. Mute(h, f[i + 1])
    BY <2>2, <2>3, <2>4, add_userIsMute
  <2>6. QED BY <2>2, <2>3, <2>5 DEF Mute
<1>5. Len(Players) \in T
  <2> HIDE DEF T
  <2>1. QED BY <1>2, <1>3, <1>4, Induction
<1>6. QED BY <1>1, <1>2, <1>5 DEF Joins

\* The players' first plants leave the agenda and add no lockup.
LEMMA WithPlantsIsMute ==
    ASSUME NEW g, DOMAIN g = Field
    PROVE  Mute(g, WithPlants(g))
<1>1. PICK f : PlantsBuilt(g, f)
  BY WithPlantsUnfolds
<1>2. Len(Players) \in Nat
  BY BoardAssumption, LenProperties
<1> DEFINE T == {i \in Nat : i <= Len(Players) => Mute(g, f[i])}
<1>3. 0 \in T
  BY <1>1 DEF PlantsBuilt, Mute
<1>4. ASSUME NEW i \in Nat, i \in T PROVE i + 1 \in T
  <2>1. SUFFICES ASSUME i + 1 <= Len(Players) PROVE Mute(g, f[i + 1])
    OBVIOUS
  <2>2. Mute(g, f[i]) /\ i + 1 \in 1..Len(Players) /\ (i + 1) - 1 = i
    BY <1>2, <1>4, <2>1
  <2>3. PICK h : h = f[i]
    OBVIOUS
  <2>4. f[i + 1] = add_start_plant(h, i + 1)
    BY <1>1, <2>2, <2>3 DEF PlantsBuilt
  <2>5. Mute(h, f[i + 1])
    BY <2>2, <2>3, <2>4, add_start_plantIsMute DEF Mute
  <2>6. QED BY <2>2, <2>3, <2>5 DEF Mute
<1>5. Len(Players) \in T
  <2> HIDE DEF T
  <2>1. QED BY <1>2, <1>3, <1>4, Induction
<1>6. QED BY <1>1, <1>2, <1>5 DEF PlantsBuilt

\* The first markets leave the agenda and add no lockup.
LEMMA WithMarketsIsMute ==
    ASSUME NEW g, DOMAIN g = Field
    PROVE  Mute(g, WithMarkets(g))
<1> DEFINE g1 == ensure(g, <<btc, steel>>)
           g2 == ensure(g1, <<btc, silicon>>)
           g3 == ensure(g2, <<btc, concrete>>)
           g4 == ensure(g3, <<btc, asic>>)
<1>1. WithMarkets(g) = g4
  BY DEF WithMarkets
<1>2. Mute(g, g1)
  BY EnsureIsMute
<1> HIDE DEF g1
<1>3. Mute(g1, g2)
  BY <1>2, EnsureIsMute DEF Mute
<1> HIDE DEF g2
<1>4. Mute(g2, g3)
  BY <1>3, EnsureIsMute DEF Mute
<1> HIDE DEF g3
<1>5. Mute(g3, g4)
  BY <1>4, EnsureIsMute DEF Mute
<1>6. QED BY <1>1, <1>2, <1>3, <1>4, <1>5 DEF Mute

\* The root's coins leave the agenda and add no lockup.
LEMMA WithRootIsMute ==
    ASSUME NEW g, DOMAIN g = Field
    PROVE  Mute(g, WithRoot(g))
<1>1. PICK k : k = mint(g, btc, root_user, RootSats)
  OBVIOUS
<1>2. Mute(g, k)
  BY <1>1, MintIsMute
<1>3. Mute(k, mint(k, real_sats, root_user, RootRealSats))
  BY <1>2, MintIsMute DEF Mute
<1>4. WithRoot(g) = mint(k, real_sats, root_user, RootRealSats)
  BY <1>1 DEF WithRoot
<1>5. QED BY <1>2, <1>3, <1>4 DEF Mute

\* Of the recurring events those of the kinds S are scheduled, each for the first time.
Begun(g, S) ==
    /\ \A K \in Recurring :
          IF K \in S THEN \E p : PlacesOf(K, g.callbacks) = {p}
          ELSE PlacesOf(K, g.callbacks) = {}
    /\ \A cb \in Scheduled(g) : cb.kind \in ProducerKind => cb.first

\* One more event is scheduled at the start.
LEMMA BegunMore ==
    ASSUME NEW g, Sound(g), NEW S, Begun(g, S), NEW h, NEW cb, cb.kind \in Recurring,
           cb.kind \notin S, cb.kind \in ProducerKind => cb.first,
           Added(g.callbacks, h.callbacks, 0, cb)
    PROVE  Begun(h, S \cup {cb.kind})
<1>1. PICK E : E = Event(g) \cup {cb}
  OBVIOUS
<1>2. \A t \in DOMAIN g.callbacks : g.callbacks[t] \in Seq(E)
  <2>1. Event(g) \subseteq E
    BY <1>1
  <2>2. QED BY <2>1, SeqOfMore DEF Sound, Agenda
<1>3. More(g.callbacks, h.callbacks, cb)
  BY <1>1, <1>2, AddedPlaces
<1>4. ASSUME NEW K \in Recurring
      PROVE  IF K \in S \cup {cb.kind} THEN \E p : PlacesOf(K, h.callbacks) = {p}
             ELSE PlacesOf(K, h.callbacks) = {}
  <2>1. CASE K = cb.kind
    <3>1. PlacesOf(K, g.callbacks) = {}
      BY <2>1 DEF Begun
    <3>2. QED BY <1>3, <2>1, <3>1 DEF More
  <2>2. CASE K # cb.kind
    <3>1. PlacesOf(K, h.callbacks) = PlacesOf(K, g.callbacks)
      BY <1>3, <2>2 DEF More
    <3>2. QED BY <2>2, <3>1 DEF Begun
  <2>3. QED BY <2>1, <2>2
<1>5. \A e : e \in Scheduled(h) => e \in Scheduled(g) \/ e = cb
  <2>1. Agenda(g) /\ Added(g.callbacks, h.callbacks, 0, cb)
    BY DEF Sound
  <2>2. QED BY <2>1, AddedEvents, Zenon
<1>6. QED BY <1>4, <1>5 DEF Begun

\* A new producer is one more event at the start.
LEMMA add_producerBegins ==
    ASSUME NEW g, Sound(g), NEW i \in 1..4
    PROVE  \E cb : /\ cb.kind = Producers[i].kind /\ cb.first
                   /\ Added(g.callbacks, add_producer(g, Producers[i]).callbacks, 0, cb)
<1> DEFINE cb == [kind |-> Producers[i].kind, asset |-> Producers[i].asset,
                  id |-> g.alloc + 1, first |-> TRUE]
           old == IF 0 \in DOMAIN g.callbacks THEN g.callbacks[0] ELSE <<>>
           put == Put(g.callbacks, 0, Append(old, cb))
<1>1. DOMAIN g = Field
  BY DEF Sound, Books, Wallets
<1>2. PICK h : h = [g EXCEPT !.alloc = @ + 1]
  OBVIOUS
<1>3. Mute(g, h)
  BY <1>1, <1>2 DEF Mute, Field, Lockup
<1>4. add_producer(g, Producers[i]) = schedule(h, 0, cb)
  BY <1>2 DEF add_producer
<1>5. schedule(h, 0, cb) = [h EXCEPT !.callbacks = put]
  BY <1>3 DEF schedule, Mute
<1>6. /\ DOMAIN put = DOMAIN g.callbacks \cup {0} /\ put[0] = Append(old, cb)
      /\ \A t \in DOMAIN g.callbacks : t # 0 => put[t] = g.callbacks[t]
  BY DEF Put
<1>7. cb.kind = Producers[i].kind /\ cb.first
  OBVIOUS
<1> HIDE DEF put, cb
<1>8. schedule(h, 0, cb).callbacks = put
  BY <1>3, <1>5 DEF Mute, Field
<1>9. Added(g.callbacks, put, 0, cb)
  BY <1>6 DEF Added
<1>10. QED BY <1>4, <1>7, <1>8, <1>9

\* The payout and the producers are scheduled.
LEMMA ProducersBegin ==
    ASSUME NEW g, Sound(g), g.callbacks = <<>>
    PROVE  Begun(WithProducers(g), Recurring)
<1> DEFINE cb == [kind |-> "payout"]
           g0 == schedule(g, 0, cb)
           g1 == add_producer(g0, Producers[1])
           g2 == add_producer(g1, Producers[2])
           g3 == add_producer(g2, Producers[3])
           g4 == add_producer(g3, Producers[4])
<1>1. WithProducers(g) = g4
  BY DEF WithProducers
<1>2. Begun(g, {})
  <2>1. DOMAIN g.callbacks = {}
    OBVIOUS
  <2>2. \A K : PlacesOf(K, g.callbacks) = {}
    BY <2>1 DEF PlacesOf, Places
  <2>3. Scheduled(g) = {}
    BY <2>1 DEF Scheduled
  <2>4. QED BY <2>2, <2>3 DEF Begun
<1>3. cb \in Event(g) /\ 0 \in Nat /\ cb.kind = "payout"
  BY DEF Event
<1> HIDE DEF cb
<1>4. EventStep(g, g0) /\ Added(g.callbacks, g0.callbacks, 0, cb)
  BY <1>3, ScheduleFacts
<1> HIDE DEF g0
<1>5. Sound(g0)
  BY <1>4 DEF EventStep
<1>6. Begun(g0, {"payout"})
  <2>1. cb.kind \in Recurring /\ cb.kind \notin {} /\ (cb.kind \in ProducerKind => cb.first)
    BY <1>3 DEF Recurring, ProducerKind
  <2>2. Begun(g0, {} \cup {cb.kind})
    BY <1>2, <1>4, <2>1, BegunMore
  <2>3. {} \cup {cb.kind} = {"payout"}
    BY <1>3
  <2>4. QED BY <2>2, <2>3
<1>7. ASSUME NEW h, Sound(h), NEW S, Begun(h, S), NEW i \in 1..4, NEW k,
             k = add_producer(h, Producers[i]), Producers[i].kind \in Recurring \ S
      PROVE  Sound(k) /\ Begun(k, S \cup {Producers[i].kind})
  <2>1. PICK nb : /\ nb.kind = Producers[i].kind /\ nb.first
                  /\ Added(h.callbacks, k.callbacks, 0, nb)
    BY <1>7, add_producerBegins
  <2>2. Begun(k, S \cup {nb.kind})
    BY <1>7, <2>1, BegunMore
  <2>3. Sound(k)
    BY <1>7, add_producerFacts DEF Made
  <2>4. QED BY <2>1, <2>2, <2>3
<1>8. /\ 1 \in 1..4 /\ 2 \in 1..4 /\ 3 \in 1..4 /\ 4 \in 1..4
      /\ Producers[1].kind = "asic" /\ Producers[2].kind = "steel"
      /\ Producers[3].kind = "silicon" /\ Producers[4].kind = "concrete"
  BY DEF Producers
<1>8a. /\ "asic" \in Recurring \ {"payout"} /\ "steel" \in Recurring \ {"payout", "asic"}
       /\ "silicon" \in Recurring \ {"payout", "asic", "steel"}
       /\ "concrete" \in Recurring \ {"payout", "asic", "steel", "silicon"}
  BY DEF Recurring
<1>8b. ASSUME NEW h, Sound(h), NEW S, Begun(h, S), NEW i \in 1..4, NEW kind,
              kind = Producers[i].kind, kind \in Recurring \ S
       PROVE  /\ Sound(add_producer(h, Producers[i]))
              /\ Begun(add_producer(h, Producers[i]), S \cup {kind})
  BY <1>7, <1>8b
<1>9. Sound(g1) /\ Begun(g1, {"payout"} \cup {"asic"})
  BY <1>5, <1>6, <1>8, <1>8a, <1>8b
<1> HIDE DEF g1
<1>10. Sound(g2) /\ Begun(g2, {"payout", "asic", "steel"})
  <2>1. Begun(g1, {"payout", "asic"})
    <3>1. {"payout"} \cup {"asic"} = {"payout", "asic"}
      OBVIOUS
    <3>2. QED BY <1>9, <3>1
  <2>2. Sound(g2) /\ Begun(g2, {"payout", "asic"} \cup {"steel"})
    BY <1>8, <1>8a, <1>8b, <1>9, <2>1
  <2>3. {"payout", "asic"} \cup {"steel"} = {"payout", "asic", "steel"}
    OBVIOUS
  <2>4. QED BY <2>2, <2>3
<1> HIDE DEF g2
<1>11. Sound(g3) /\ Begun(g3, {"payout", "asic", "steel", "silicon"})
  <2>1. Sound(g3) /\ Begun(g3, {"payout", "asic", "steel"} \cup {"silicon"})
    BY <1>8, <1>8a, <1>8b, <1>10
  <2>2. {"payout", "asic", "steel"} \cup {"silicon"} = {"payout", "asic", "steel", "silicon"}
    OBVIOUS
  <2>3. QED BY <2>1, <2>2
<1> HIDE DEF g3
<1>12. Begun(g4, Recurring)
  <2>1. Begun(g4, {"payout", "asic", "steel", "silicon"} \cup {"concrete"})
    BY <1>8, <1>8a, <1>8b, <1>11
  <2>2. {"payout", "asic", "steel", "silicon"} \cup {"concrete"} = Recurring
    BY DEF Recurring
  <2>3. QED BY <2>1, <2>2
<1>13. QED BY <1>1, <1>12

\* A game starts with its course set.
LEMMA new_gameCourse ==
    ASSUME NEW setup \in DOMAIN Setup
    PROVE  Course(new_game(setup))
<1>1. PICK g1 : g1 = WithUsers(setup)
  OBVIOUS
<1>2. PICK g2 : g2 = WithMarkets(g1)
  OBVIOUS
<1>3. PICK g3 : g3 = WithRoot(g2)
  OBVIOUS
<1>4. PICK g4 : g4 = WithProducers(g3)
  OBVIOUS
<1>5. new_game(setup) = WithPlants(g4)
  BY <1>1, <1>2, <1>3, <1>4 DEF new_game
<1>6. Sound(g1) /\ root_user \in Holder(g1) /\ DOMAIN g1 = Field /\ g1.callbacks = <<>>
  BY <1>1, WithUsersFacts, WithUsersIsMute
<1>7. Made(g1, g2) /\ Mute(g1, g2)
  BY <1>2, <1>6, WithMarketsFacts, WithMarketsIsMute
<1>8. Sound(g3) /\ Mute(g2, g3)
  <2>1. Sound(g2) /\ root_user \in Holder(g2) /\ DOMAIN g2 = Field
    BY <1>6, <1>7 DEF Made, Grows, Mute
  <2>2. QED BY <1>3, <2>1, WithRootFacts, WithRootIsMute DEF Made
<1>9. Begun(g4, Recurring) /\ Sound(g4)
  <2>1. g3.callbacks = <<>>
    BY <1>6, <1>7, <1>8 DEF Mute
  <2>2. QED BY <1>4, <1>8, <2>1, ProducersBegin, WithProducersFacts DEF Made
<1>10. Mute(g4, WithPlants(g4))
  BY <1>9, WithPlantsIsMute DEF Sound, Books, Wallets
<1>11. PICK h : h = new_game(setup)
  OBVIOUS
<1>12. h.callbacks = g4.callbacks
  BY <1>5, <1>10, <1>11 DEF Mute
<1>13. Scheduled(h) = Scheduled(g4)
  BY <1>12 DEF Scheduled
<1>14. Course(h)
  BY <1>9, <1>12, <1>13 DEF Begun, Course, Ready
<1>15. QED BY <1>11, <1>14

-----------------------------------------------------------------------------
(* Events and tokens, from step to step *)

\* The agenda's part of the invariant
CourseInv == Course(game) /\ NothingOverdue

\* The agenda's invariant holds at first.
LEMMA CourseHolds == Init => CourseInv
<1> SUFFICES ASSUME Init PROVE CourseInv
  OBVIOUS
<1>1. PICK setup \in DOMAIN Setup : game = new_game(setup)
  BY DEF Init
<1>2. Course(new_game(setup))
  BY new_gameCourse
<1>3. NothingOverdue
  BY DEF Init, NothingOverdue
<1>4. QED BY <1>1, <1>2, <1>3 DEF CourseInv

\* Every step keeps the agenda's invariant.
LEMMA CourseStays == BoardInv /\ CourseInv /\ [Next]_vars => CourseInv'
<1> SUFFICES ASSUME BoardInv, CourseInv, [Next]_vars PROVE CourseInv'
  OBVIOUS
<1>1. PICK g, h : g = game /\ h = game'
  OBVIOUS
<1>2. Sound(g) /\ Course(g)
  BY <1>1 DEF BoardInv, CourseInv
<1>3. CASE IdleStep
  <2>1. game' = game /\ last'.out # "ok"
    BY <1>3 DEF IdleStep
  <2>2. QED BY <2>1 DEF CourseInv, Course, NothingOverdue
<1>4. CASE NumberStep
  <2>1. ClockStep(g, h) /\ last'.out # "ok"
    BY <1>1, <1>4 DEF NumberStep
  <2>2. Course(h)
    BY <1>2, <2>1, ClockCourse
  <2>3. QED BY <1>1, <2>1, <2>2 DEF CourseInv, NothingOverdue
<1>5. CASE PlayedStep
  <2>1. PICK from, m, c, r, o : PlayStep(game, c, r, o, from, m) /\ game' = o.game
    BY <1>5 DEF PlayedStep
  <2>2. PlayStep(g, c, r, o, from, m)
    BY <1>1, <2>1
  <2>3. Course(h) /\ CaughtUp(h)
    BY <1>1, <1>2, <2>1, <2>2, PlayedCourse
  <2>4. QED BY <1>1, <2>3 DEF CourseInv, NothingOverdue, CaughtUp
<1>6. CASE UNCHANGED vars
  BY <1>6 DEF vars, CourseInv, Course, NothingOverdue
<1>7. CASE QueryStep
  <2>1. Opens(g, h) /\ last'.out # "ok"
    BY <1>1, <1>7 DEF QueryStep
  <2>2. /\ h.callbacks = g.callbacks
        /\ \A u \in DOMAIN g.bal : \A x : balance_check(h, u, x) = balance_check(g, u, x)
    BY <1>2, <2>1, OpensFacts
  <2>3. ASSUME NEW cb \in Scheduled(g), Ready(g, cb) PROVE Ready(h, cb)
    <3>1. cb \in Event(g)
      BY <1>2, ScheduledAreEvents DEF Sound
    <3>2. cb.kind \in ProducerKind => cb.asset \in DOMAIN g.bal
      BY <1>2, <3>1, EventFacts
    <3>3. cb.kind \in ProducerKind => Stock(h, cb) = Stock(g, cb)
      BY <2>2, <3>2 DEF Stock
    <3>4. QED BY <2>3, <3>3 DEF Ready
  <2>4. Course(h)
    BY <1>2, <2>2, <2>3, CourseKept
  <2>5. QED BY <1>1, <2>1, <2>4 DEF CourseInv, NothingOverdue
<1>8. QED BY <1>3, <1>4, <1>5, <1>6, <1>7, StepFacts

\* What the invariant says of the agenda
LEMMA CourseIsOnce == CourseInv => ScheduledOnce /\ NothingOverdue
<1> SUFFICES ASSUME CourseInv PROVE ScheduledOnce
  BY DEF CourseInv
<1>1. ASSUME NEW K \in Recurring PROVE Cardinality(PlacesOf(K, game.callbacks)) = 1
  <2>1. PICK p : PlacesOf(K, game.callbacks) = {p}
    BY DEF CourseInv, Course
  <2>2. QED BY <2>1, FS_Singleton
<1>2. QED BY <1>1 DEF ScheduledOnce

\* Each recurring event is scheduled exactly once, and no move leaves an event behind
\* that was due (callbacks.rs, run).
THEOREM EventsRecur == Spec => [](ScheduledOnce /\ NothingOverdue)
<1>1. Spec => []CourseInv
  BY Invariant, CourseHolds, CourseStays, PTL DEF Spec
<1>2. QED BY <1>1, CourseIsOnce, PTL

\* What a board keeps on a step of from
Saves(g, h, from) ==
    /\ Opened(g) => \A u \in DOMAIN g.bal :
           IF u = btc THEN h.total[u] - g.total[u] \in 0..MiningSubsidy
           ELSE h.total[u] = g.total[u]
    /\ \A u \in DOMAIN g.bal : \A x \in UserIds(g) \cup DOMAIN g.plants :
           \/ balance_check(g, u, x) <= balance_check(h, u, x)
           \/ x = from /\ x \in UserIds(g)
           \/ x \in DOMAIN g.plants /\ g.nfts[x].owner = from

\* A step that saves the tokens is what the property asks.
LEMMA SavesConserved ==
    ASSUME BoardInv, NEW g, g = game, NEW h, h = game', Sound(h), Grows(g, h),
           Saves(g, h, last'.from)
    PROVE  Conserved
<1>1. Sound(g) /\ DOMAIN g.total = DOMAIN g.bal /\ btc \in DOMAIN g.bal
  BY BaseTokens DEF BoardInv, Sound, Books, Wallets
<1>2. Opened(game) =>
          /\ \A t \in DOMAIN game.total \ {btc} : game'.total[t] = game.total[t]
          /\ game'.total[btc] - game.total[btc] \in 0..MiningSubsidy
  BY <1>1 DEF Saves
<1>3. ASSUME NEW u \in DOMAIN g.bal, NEW x,
             balance_check(h, u, x) < balance_check(g, u, x)
      PROVE  ~(balance_check(g, u, x) <= balance_check(h, u, x))
  <2>1. u \in DOMAIN h.bal
    BY DEF Grows
  <2>2. balance_check(g, u, x) \in Nat /\ balance_check(h, u, x) \in Nat
    BY <1>1, <2>1, BooksTypes DEF Sound
  <2>3. QED BY <1>3, <2>2
<1>4. ASSUME NEW u \in DOMAIN g.bal, NEW e \in UserIds(g),
             balance_check(h, u, e) < balance_check(g, u, e)
      PROVE  last'.from = e
  <2>1. e \notin DOMAIN g.plants
    BY <1>1, OwnedFacts DEF Sound, Registry
  <2>2. QED BY <1>3, <1>4, <2>1 DEF Saves
<1>5. ASSUME NEW u \in DOMAIN g.bal, NEW p \in DOMAIN g.plants,
             balance_check(h, u, p) < balance_check(g, u, p)
      PROVE  last'.from = g.nfts[p].owner
  <2>1. p \notin UserIds(g)
    BY <1>1, OwnedFacts DEF Sound, Registry
  <2>2. PICK from : from = last'.from
    OBVIOUS
  <2>3. g.nfts[p].owner = from
    BY <1>3, <1>5, <2>1, <2>2 DEF Saves
  <2>4. QED BY <2>2, <2>3
<1>6. QED BY <1>2, <1>4, <1>5 DEF Conserved

\* What moves nothing saves.
LEMMA StillSaves ==
    ASSUME NEW g, Sound(g), NEW h, NEW from,
           \A u \in DOMAIN g.bal : h.total[u] = g.total[u],
           \A u \in DOMAIN g.bal : \A x : balance_check(h, u, x) = balance_check(g, u, x)
    PROVE  Saves(g, h, from)
<1>1. \A u \in DOMAIN g.bal : g.total[u] \in Nat /\ \A x : balance_check(g, u, x) \in Nat
  BY TotalsAreNat, BooksTypes DEF Sound
<1>2. MiningSubsidy \in Nat
  BY BoardAssumption
<1>3. ASSUME NEW u \in DOMAIN g.bal
      PROVE  IF u = btc THEN h.total[u] - g.total[u] \in 0..MiningSubsidy
             ELSE h.total[u] = g.total[u]
  <2>1. h.total[u] = g.total[u] /\ g.total[u] \in Nat
    BY <1>1
  <2>2. h.total[u] - g.total[u] = 0
    BY <2>1
  <2>3. QED BY <1>2, <2>1, <2>2
<1>4. QED BY <1>1, <1>3 DEF Saves

\* A move saves the tokens of everybody but its player.
LEMMA PlayedSaves ==
    ASSUME NEW g, Sound(g), Course(g), NEW c, NEW r, NEW o, NEW from, NEW m,
           PlayStep(g, c, r, o, from, m)
    PROVE  Saves(g, o.game, from)
<1>1. PICK h : h = o.game
  OBVIOUS
<1>2. from \in UserIds(g) /\ Move(r, h, from)
  BY <1>1 DEF PlayStep, Result
<1>3. /\ Sound(r) /\ r.users = g.users /\ r.nfts = g.nfts /\ r.plants = g.plants
      /\ Grows(g, r) /\ Spares(g, r)
  BY PlayedDeals DEF Ripens
<1>4. ASSUME Opened(g), NEW u \in DOMAIN g.bal
      PROVE  IF u = btc THEN h.total[u] - g.total[u] \in 0..MiningSubsidy
             ELSE h.total[u] = g.total[u]
  <2>1. \A cb \in Scheduled(g) : ~First(cb)
    BY <1>4, OpenedFacts
  <2>2. QED BY <1>1, <1>4, <2>1, PlayedCourse
<1>5. ASSUME NEW u \in DOMAIN g.bal, NEW x \in UserIds(g) \cup DOMAIN g.plants,
             ~(x = from /\ x \in UserIds(g)),
             ~(x \in DOMAIN g.plants /\ g.nfts[x].owner = from)
      PROVE  balance_check(g, u, x) <= balance_check(h, u, x)
  <2>1. /\ UserIds(g) \subseteq Holder(g) /\ DOMAIN g.plants \subseteq DOMAIN g.nfts
        /\ DOMAIN g.nfts \subseteq Holder(g) \ UserIds(g)
    BY OwnedFacts DEF Sound, Registry
  <2>2. x \notin Mine(r, from)
    <3>1. x # from
      BY <1>2, <1>5
    <3>2. x \in DOMAIN g.nfts => g.nfts[x].owner # from
      BY <1>5, <2>1
    <3>3. QED BY <1>3, <3>1, <3>2 DEF Mine
  <2>3. u \in DOMAIN r.bal /\ u \in DOMAIN h.bal /\ x \in Holder(r)
    BY <1>2, <1>3, <1>5, <2>1 DEF Grows, Move
  <2>4. balance_check(r, u, x) <= balance_check(h, u, x)
    BY <1>2, <2>2, <2>3 DEF Move, Takes
  <2>5. balance_check(g, u, x) <= balance_check(r, u, x)
    BY <1>3, <1>5 DEF Spares, Owned
  <2>6. /\ balance_check(g, u, x) \in Nat /\ balance_check(r, u, x) \in Nat
        /\ balance_check(h, u, x) \in Nat
    BY <1>2, <1>3, <1>5, <2>3, BooksTypes DEF Sound, Move
  <2>7. QED BY <2>4, <2>5, <2>6
<1>6. QED BY <1>1, <1>4, <1>5 DEF Saves

\* No step makes tokens, but for a payout, or takes others'.
LEMMA StepConserves == BoardInv /\ CourseInv /\ [Next]_vars => [Conserved]_vars
<1> SUFFICES ASSUME BoardInv, CourseInv, Next PROVE Conserved
  OBVIOUS
<1>1. PICK g, h : g = game /\ h = game'
  OBVIOUS
<1>2. Sound(g) /\ Course(g)
  BY <1>1 DEF BoardInv, CourseInv
<1>3. PICK from : from = last'.from
  OBVIOUS
<1>4. CASE IdleStep
  <2>1. h = g
    BY <1>1, <1>4 DEF IdleStep
  <2>2. Grows(g, g)
    BY <1>2, IdleIsMove DEF Move
  <2>3. Saves(g, g, from)
    BY <1>2, StillSaves
  <2>4. QED BY <1>1, <1>2, <1>3, <2>1, <2>2, <2>3, SavesConserved
<1>5. CASE NumberStep
  <2>1. ClockStep(g, h)
    BY <1>1, <1>5 DEF NumberStep
  <2>2. /\ Sound(h) /\ Grows(g, h) /\ h.total = g.total
        /\ \A u, x : balance_check(h, u, x) = balance_check(g, u, x)
    BY <1>2, <2>1, ClockFacts DEF ClockStep, SameLedger
  <2>3. Saves(g, h, from)
    BY <1>2, <2>2, StillSaves
  <2>4. QED BY <1>1, <1>3, <2>2, <2>3, SavesConserved
<1>6. CASE PlayedStep
  <2>1. PICK who, m, c, r, o :
           /\ PlayStep(game, c, r, o, who, m)
           /\ game' = o.game /\ last'.from = who
    BY <1>6 DEF PlayedStep
  <2>2. PlayStep(g, c, r, o, who, m)
    BY <1>1, <2>1
  <2>3. Saves(g, h, who) /\ Sound(h) /\ Grows(g, h)
    BY <1>1, <1>2, <2>1, <2>2, PlayedSaves, PlayedDeals
  <2>4. last'.from = who
    BY <2>1
  <2>5. QED BY <1>1, <2>3, <2>4, SavesConserved
<1>7. CASE QueryStep
  <2>1. Opens(g, h)
    BY <1>1, <1>7 DEF QueryStep
  <2>2. /\ Move(g, h, 0)
        /\ \A u \in DOMAIN g.bal : h.total[u] = g.total[u]
        /\ \A u \in DOMAIN g.bal : \A x : balance_check(h, u, x) = balance_check(g, u, x)
    BY <1>2, <2>1, OpensFacts
  <2>3. Sound(h) /\ Grows(g, h)
    BY <2>2 DEF Move
  <2>4. Saves(g, h, from)
    BY <1>2, <2>2, StillSaves
  <2>5. QED BY <1>1, <1>3, <2>3, <2>4, SavesConserved
<1>8. QED BY <1>4, <1>5, <1>6, <1>7, StepFacts

\* Once the markets are open, coins are made by one payout at most, and no others; and
\* nobody loses any without a move of its own (powerplant/events.rs; callbacks.rs).
THEOREM TokensAreAlwaysConserved == Spec => TokensConserved
<1>1. Spec => []CourseInv
  BY Invariant, CourseHolds, CourseStays, PTL DEF Spec
<1>2. QED BY <1>1, Invariant, StepConserves, PTL DEF Spec, TokensConserved

-----------------------------------------------------------------------------
(* Accounts that are left alone *)

\* From g to h nothing but balances changes, and x has no part in it.
Pays(g, h, x) ==
    /\ DOMAIN h = Field /\ DOMAIN h.bal = DOMAIN g.bal
    /\ \A f \in Field \ {"bal", "total"} : h[f] = g[f]
    /\ \A u \in DOMAIN g.bal : balance_check(h, u, x) = balance_check(g, u, x)

\* Setting one account's balance leaves the others'.
LEMMA SetBalancePays ==
    ASSUME NEW g, DOMAIN g = Field, NEW t \in DOMAIN g.bal, NEW e, NEW n, NEW x, x # e
    PROVE  Pays(g, SetBalance(g, t, e, n), x)
<1> DEFINE put == Put(g.bal[t], e, n)
           h == [g EXCEPT !.bal[t] = put]
<1>1. SetBalance(g, t, e, n) = h
  BY DEF SetBalance
<1>2. x \in DOMAIN put <=> x \in DOMAIN g.bal[t]
  BY DEF Put
<1>3. x \in DOMAIN g.bal[t] => put[x] = g.bal[t][x]
  BY DEF Put
<1> HIDE DEF put
<1>4. /\ DOMAIN h = Field /\ DOMAIN h.bal = DOMAIN g.bal /\ h.bal[t] = put
      /\ \A u \in DOMAIN g.bal : u # t => h.bal[u] = g.bal[u]
      /\ \A f \in Field \ {"bal"} : h[f] = g[f]
  BY DEF Field
<1> HIDE DEF h
<1>5. \A u \in DOMAIN g.bal : balance_check(h, u, x) = balance_check(g, u, x)
  BY <1>2, <1>3, <1>4 DEF balance_check
<1>6. QED BY <1>1, <1>4, <1>5 DEF Pays

\* A token's total is nobody's balance.
LEMMA TotalPays ==
    ASSUME NEW g, NEW h, NEW x, Pays(g, h, x), NEW k, DOMAIN k = Field,
           \A f \in Field \ {"total"} : k[f] = h[f]
    PROVE  Pays(g, k, x)
<1>1. k.bal = h.bal /\ \A f \in Field \ {"bal", "total"} : k[f] = h[f]
  BY DEF Field
<1>2. QED BY <1>1 DEF Pays, balance_check

\* Minting to one account leaves the others.
LEMMA MintPays ==
    ASSUME NEW g, DOMAIN g = Field, NEW t \in DOMAIN g.bal, NEW e, NEW n, NEW x, x # e
    PROVE  Pays(g, mint(g, t, e, n), x)
<1>1. PICK k : k = SetBalance(g, t, e, balance_check(g, t, e) + n)
  OBVIOUS
<1>2. Pays(g, k, x)
  BY <1>1, SetBalancePays
<1>3. PICK h : h = [k EXCEPT !.total[t] = @ + n]
  OBVIOUS
<1>4. mint(g, t, e, n) = h
  BY <1>1, <1>3 DEF mint
<1>5. DOMAIN h = Field /\ \A f \in Field \ {"total"} : h[f] = k[f]
  BY <1>2, <1>3 DEF Pays, Field
<1>6. QED BY <1>2, <1>4, <1>5, TotalPays

\* Burning of one account leaves the others.
LEMMA BurnPays ==
    ASSUME NEW g, DOMAIN g = Field, NEW t \in DOMAIN g.bal, NEW e, NEW n, NEW x, x # e
    PROVE  Pays(g, burn(g, t, e, n), x)
<1>1. PICK k : k = SetBalance(g, t, e, balance_check(g, t, e) - n)
  OBVIOUS
<1>2. Pays(g, k, x)
  BY <1>1, SetBalancePays
<1>3. PICK h : h = [k EXCEPT !.total[t] = @ - n]
  OBVIOUS
<1>4. burn(g, t, e, n) = h
  BY <1>1, <1>3 DEF burn
<1>5. DOMAIN h = Field /\ \A f \in Field \ {"total"} : h[f] = k[f]
  BY <1>2, <1>3 DEF Pays, Field
<1>6. QED BY <1>2, <1>4, <1>5, TotalPays

\* Nothing paid leaves every account.
LEMMA PaysRefl ==
    ASSUME NEW g, DOMAIN g = Field, NEW x
    PROVE  Pays(g, g, x)
BY DEF Pays

\* Two payments past an account leave it.
LEMMA PaysTrans ==
    ASSUME NEW g, NEW h, NEW k, NEW x, Pays(g, h, x), Pays(h, k, x)
    PROVE  Pays(g, k, x)
BY DEF Pays

\* A transfer leaves the accounts that are neither its source nor its target.
LEMMA TransferPays ==
    ASSUME NEW g, DOMAIN g = Field, NEW t \in DOMAIN g.bal, NEW from, NEW to, NEW n,
           NEW x, x # from, x # to
    PROVE  Pays(g, transfer(g, t, from, to, n), x)
<1>1. CASE ~transfer_possible(g, t, from, n)
  <2>1. transfer(g, t, from, to, n) = g
    BY <1>1 DEF transfer
  <2>2. QED BY <2>1, PaysRefl
<1>2. CASE transfer_possible(g, t, from, n)
  <2>1. PICK b : b = burn(g, t, from, n)
    OBVIOUS
  <2>2. Pays(g, b, x)
    BY <2>1, BurnPays
  <2>3. Pays(b, mint(b, t, to, n), x)
    BY <2>2, MintPays DEF Pays
  <2>4. transfer(g, t, from, to, n) = mint(b, t, to, n)
    BY <1>2, <2>1 DEF transfer
  <2>5. QED BY <2>2, <2>3, <2>4, PaysTrans
<1>3. QED BY <1>1, <1>2

\* x has what it had, and of new tokens nothing.
Calm(g, h, x) ==
    /\ DOMAIN g.bal \subseteq DOMAIN h.bal
    /\ \A u \in DOMAIN h.bal :
          IF u \in DOMAIN g.bal THEN balance_check(h, u, x) = balance_check(g, u, x)
          ELSE balance_check(h, u, x) = 0

\* An unchanged board is calm for every account.
LEMMA CalmRefl ==
    ASSUME NEW g, NEW x
    PROVE  Calm(g, g, x)
BY DEF Calm

\* Two changes that leave an account make one that does.
LEMMA CalmTrans ==
    ASSUME NEW g, NEW h, NEW k, NEW x, Calm(g, h, x), Calm(h, k, x)
    PROVE  Calm(g, k, x)
BY DEF Calm

\* With the same balances every account is left.
LEMMA SameIsCalm ==
    ASSUME NEW g, NEW h, NEW x, h.bal = g.bal
    PROVE  Calm(g, h, x)
BY DEF Calm, balance_check

\* An account that no payment reaches is left.
LEMMA PaysIsCalm ==
    ASSUME NEW g, NEW h, NEW x, Pays(g, h, x)
    PROVE  Calm(g, h, x)
BY DEF Pays, Calm

\* A new market leaves every account.
LEMMA EnsureIsCalm ==
    ASSUME NEW g, Books(g), NEW pair \in (DOMAIN g.bal) \X (DOMAIN g.bal), NEW x
    PROVE  Calm(g, ensure(g, pair), x)
<1>1. CASE has_market(g, pair)
  <2>1. ensure(g, pair) = g
    BY <1>1 DEF ensure
  <2>2. QED BY <2>1, CalmRefl
<1>2. CASE ~has_market(g, pair)
  <2>1. PICK lp, n : lp = g.alloc + 1 /\ n = new_token(g, lp)
    OBVIOUS
  <2>2. DOMAIN g = Field /\ lp \notin DOMAIN g.bal
    BY <2>1 DEF Books, Wallets
  <2>3. /\ DOMAIN n.bal = DOMAIN g.bal \cup {lp} /\ DOMAIN n = Field
        /\ n.bal[lp] = <<>> /\ \A u \in DOMAIN g.bal : n.bal[u] = g.bal[u]
    <3>1. DOMAIN n = Field /\ n.bal = Put(g.bal, lp, <<>>)
      BY <2>1, <2>2 DEF new_token, Field
    <3>2. QED BY <2>2, <3>1 DEF Put
  <2>4. PICK h, mkt : /\ h = ensure(g, pair)
                      /\ h = [n EXCEPT !.alloc = @ + 2, !.markets = Put(@, normalize(pair), mkt)]
    BY <1>2, <2>1 DEF ensure
  <2>5. h.bal = n.bal
    BY <2>3, <2>4 DEF Field
  <2>6. \A u \in DOMAIN n.bal :
           IF u \in DOMAIN g.bal THEN balance_check(n, u, x) = balance_check(g, u, x)
           ELSE balance_check(n, u, x) = 0
    BY <2>3 DEF balance_check
  <2>7. QED BY <2>3, <2>4, <2>5, <2>6 DEF Calm, balance_check
<1>3. QED BY <1>1, <1>2

\* A trade moves coins of its sender and its market, and of nobody else.
SwapCalm(g, s, x) == Calm(g, s.game, x) /\ (s.out # "ok" => s.game = g)

\* A swap leaves the accounts of others (token_swap.rs, raw_swap).
LEMMA SwapIsCalm ==
    ASSUME NEW g, DOMAIN g = Field, NEW p, NEW buying \in DOMAIN g.bal, NEW n, NEW sender,
           NEW x, x # sender, x # g.markets[p].id
    PROVE  SwapCalm(g, raw_swap(g, p, buying, n, sender), x)
<1> DEFINE id == g.markets[p].id
<1>1. PICK paid : paid = IF n = 0 THEN g ELSE transfer(g, buying, id, sender, n)
  OBVIOUS
<1>2. Pays(g, paid, x)
  BY <1>1, PaysRefl, TransferPays
<1>3. PICK a, b : a = Holding(paid, p, p[1]) /\ b = Holding(paid, p, p[2])
  OBVIOUS
<1>4. PICK k : k = [paid EXCEPT !.markets[p].a = a, !.markets[p].b = b]
  OBVIOUS
<1>5. Calm(g, k, x)
  <2>1. k.bal = paid.bal
    BY <1>2, <1>4 DEF Pays, Field
  <2>2. Calm(g, paid, x) /\ Calm(paid, k, x)
    BY <1>2, <2>1, PaysIsCalm, SameIsCalm
  <2>3. QED BY <2>2, CalmTrans
<1>6. PICK s : s = raw_swap(g, p, buying, n, sender)
  OBVIOUS
<1>7. \/ s.game = g
      \/ s.out = "ok" /\ s.game = k
  <2>1. CASE ~transfer_possible(g, buying, id, n)
    <3>1. s = [out |-> "insufficient", game |-> g]
      BY <1>6, <2>1 DEF raw_swap
    <3>2. QED BY <3>1
  <2>2. CASE transfer_possible(g, buying, id, n)
    <3>1. s = Reserve(g, paid, p)
      BY <1>1, <1>6, <2>2 DEF raw_swap
    <3>2. s = [out |-> "invalid", game |-> g] \/ s = [out |-> "ok", game |-> k]
      BY <1>3, <1>4, <3>1 DEF Reserve
    <3>3. QED BY <3>2
  <2>3. QED BY <2>1, <2>2
<1>8. QED BY <1>5, <1>6, <1>7, CalmRefl DEF SwapCalm

\* A settled trade leaves the accounts of others.
LEMMA SettleIsCalm ==
    ASSUME NEW g, Books(g), NEW p \in DOMAIN g.markets,
           NEW selling \in {p[1], p[2]}, NEW buying \in {p[1], p[2]},
           NEW sold, NEW bought, NEW simulate \in BOOLEAN, NEW sender,
           NEW x \in Holder(g), x # sender
    PROVE  Calm(g, Settle(g, p, selling, buying, sold, bought, simulate, sender).game, x)
<1> DEFINE id == g.markets[p].id
<1>1. PICK o : o = Settle(g, p, selling, buying, sold, bought, simulate, sender)
  OBVIOUS
<1>2. /\ DOMAIN g = Field /\ selling \in DOMAIN g.bal /\ buying \in DOMAIN g.bal
      /\ x # id
  <2>1. MarketSound(g, p) /\ id \in MarketIds(g)
    BY DEF Books, Markets, MarketIds
  <2>2. QED BY <2>1 DEF Books, Wallets, MarketSound, Holder
<1>3. PICK g1 : g1 = transfer(g, selling, sender, id, sold)
  OBVIOUS
<1>4. Pays(g, g1, x)
  BY <1>2, <1>3, TransferPays
<1>5. g1.markets = g.markets /\ DOMAIN g1 = Field /\ DOMAIN g1.bal = DOMAIN g.bal
  BY <1>4 DEF Pays, Field
<1>6. PICK s : s = raw_swap(g1, p, buying, bought, sender)
  OBVIOUS
<1>7. Calm(g1, s.game, x) /\ (s.out # "ok" => s.game = g1)
  <2>1. DOMAIN g1 = Field /\ buying \in DOMAIN g1.bal /\ x # sender /\ x # g1.markets[p].id
    BY <1>2, <1>5
  <2>2. SwapCalm(g1, s, x)
    BY <1>6, <2>1, SwapIsCalm
  <2>3. QED BY <2>2 DEF SwapCalm
<1>8. Calm(g, s.game, x)
  BY <1>4, <1>7, PaysIsCalm, CalmTrans
<1>9. \/ o.game = g \/ o.game = s.game
      \/ s.out # "ok" /\ o.game = transfer(s.game, selling, s.game.markets[p].id, sender, sold)
  <2>1. \/ o = Refused(g, "insufficient") \/ o = Outcome(g, "ok", sold, bought)
        \/ o = Refund(s, p, selling, sold, bought, sender)
    BY <1>1, <1>3, <1>6 DEF Settle
  <2>2. CASE o = Refused(g, "insufficient") \/ o = Outcome(g, "ok", sold, bought)
    BY <2>2 DEF Refused, Outcome
  <2>3. CASE o = Refund(s, p, selling, sold, bought, sender)
    <3>1. CASE s.out = "ok"
      BY <2>3, <3>1 DEF Refund, Outcome
    <3>2. CASE s.out # "ok"
      BY <2>3, <3>2 DEF Refund, Refused, Outcome
    <3>3. QED BY <3>1, <3>2
  <2>4. QED BY <2>1, <2>2, <2>3
<1>10. CASE s.out # "ok" /\ o.game = transfer(s.game, selling, s.game.markets[p].id, sender, sold)
  <2>1. o.game = transfer(g1, selling, id, sender, sold)
    BY <1>5, <1>7, <1>10
  <2>2. Pays(g1, o.game, x)
    BY <1>2, <1>5, <2>1, TransferPays
  <2>3. QED BY <1>1, <1>4, <2>2, PaysIsCalm, CalmTrans
<1>11. QED BY <1>1, <1>8, <1>9, <1>10, CalmRefl

\* A trade leaves the accounts of others, be they somebody's or a lockup.
LEMMA TradeIsCalm ==
    ASSUME NEW g, Books(g), NEW pair \in (DOMAIN g.bal) \X (DOMAIN g.bal),
           NEW a, NEW b, NEW sell \in BOOLEAN, NEW cap,
           NEW simulate \in BOOLEAN, NEW sender, NEW x \in Holder(g), x # sender
    PROVE  Calm(g, DoTrade(g, pair, a, b, sell, cap, simulate, sender).game, x)
<1>1. PICK h : h = ensure(g, pair)
  OBVIOUS
<1>2. PICK p : p = normalize(pair)
  OBVIOUS
<1>3. LedgerStep(g, h, {}) /\ p \in DOMAIN h.markets /\ Calm(g, h, x)
  BY <1>1, <1>2, EnsureStep, EnsureIsCalm
<1>4. Books(h) /\ x \in Holder(h)
  BY <1>3 DEF LedgerStep, Grows
<1>5. PICK given, other : /\ other = (IF a = 0 THEN pair[1] ELSE pair[2])
                          /\ given = (IF a = 0 THEN pair[2] ELSE pair[1])
  OBVIOUS
<1>6. other \in {p[1], p[2]} /\ given \in {p[1], p[2]}
  <2>1. {p[1], p[2]} = {pair[1], pair[2]}
    BY <1>2, Normalized
  <2>2. QED BY <1>5, <2>1
<1>7. PICK o, n : o = DoTrade(g, pair, a, b, sell, cap, simulate, sender) /\ n = a + b
  OBVIOUS
<1>8. \/ o = Refused(h, "invalid")
      \/ o = SellFixed(h, p, given, other, n, cap, simulate, sender)
      \/ o = BuyFixed(h, p, other, given, n, cap, simulate, sender)
  BY <1>1, <1>2, <1>5, <1>7 DEF DoTrade
<1>9. \/ \E out : o = Refused(h, out)
      \/ \E sold, bought : o = Settle(h, p, given, other, sold, bought, simulate, sender)
      \/ \E sold, bought : o = Settle(h, p, other, given, sold, bought, simulate, sender)
  <2>1. CASE o = SellFixed(h, p, given, other, n, cap, simulate, sender)
    BY <2>1 DEF SellFixed
  <2>2. CASE o = BuyFixed(h, p, other, given, n, cap, simulate, sender)
    BY <2>2 DEF BuyFixed
  <2>3. QED BY <1>8, <2>1, <2>2
<1>10. Calm(h, o.game, x)
  <2>1. CASE \E out : o = Refused(h, out)
    <3>1. o.game = h
      BY <2>1 DEF Refused, Outcome
    <3>2. QED BY <3>1, CalmRefl
  <2>2. CASE \E sold, bought : o = Settle(h, p, given, other, sold, bought, simulate, sender)
    BY <1>3, <1>4, <1>6, <2>2, SettleIsCalm
  <2>3. CASE \E sold, bought : o = Settle(h, p, other, given, sold, bought, simulate, sender)
    BY <1>3, <1>4, <1>6, <2>3, SettleIsCalm
  <2>4. QED BY <1>9, <2>1, <2>2, <2>3
<1>11. QED BY <1>3, <1>7, <1>10, CalmTrans

\* A deposit leaves the accounts of others.
LEMMA DepositIsCalm ==
    ASSUME NEW g, Books(g), NEW pair \in (DOMAIN g.bal) \X (DOMAIN g.bal),
           NEW a, NEW b, NEW from, NEW x \in Holder(g), x # from
    PROVE  Calm(g, deposit(g, pair, a, b, from), x)
<1>1. PICK e, p : e = ensure(g, pair) /\ p = normalize(pair)
  OBVIOUS
<1>2. LedgerStep(g, e, {}) /\ p \in DOMAIN e.markets /\ Calm(g, e, x)
  BY <1>1, EnsureStep, EnsureIsCalm
<1>3. Books(e) /\ x \in Holder(e)
  BY <1>2 DEF LedgerStep, Grows
<1>4. PICK id, lp : id = e.markets[p].id /\ lp = e.markets[p].lp
  OBVIOUS
<1>5. /\ DOMAIN e = Field /\ p[1] \in DOMAIN e.bal /\ p[2] \in DOMAIN e.bal
      /\ lp \in DOMAIN e.bal /\ x # id
  <2>1. MarketSound(e, p) /\ id \in MarketIds(e)
    BY <1>2, <1>3, <1>4 DEF Books, Markets, MarketIds
  <2>2. QED BY <1>3, <1>4, <2>1 DEF Books, Wallets, MarketSound, Holder
<1>6. ASSUME NEW m, NEW n PROVE Calm(e, DepositInto(e, p, m, n, from), x)
  <2>1. PICK m1 : m1 = transfer(e, p[1], from, id, m)
    OBVIOUS
  <2>2. Pays(e, m1, x)
    BY <1>5, <2>1, TransferPays
  <2>3. PICK m2 : m2 = transfer(m1, p[2], from, id, n)
    OBVIOUS
  <2>4. Pays(m1, m2, x)
    BY <1>5, <2>2, <2>3, TransferPays DEF Pays
  <2>5. Pays(e, m2, x)
    BY <2>2, <2>4, PaysTrans
  <2>6. DOMAIN m2 = Field /\ lp \in DOMAIN m2.bal /\ m2.markets = e.markets
    BY <1>5, <2>5 DEF Pays, Field
  <2>7. PICK k, amount : /\ k = mint(m2, lp, from, amount)
                         /\ amount = (m2.total[lp] * m) \div Holding(m2, p, p[1])
    OBVIOUS
  <2>8. Pays(m2, k, x)
    BY <2>6, <2>7, MintPays
  <2>9. PICK h : h = [k EXCEPT !.markets[p].a = @ + m, !.markets[p].b = @ + n]
    OBVIOUS
  <2>10. h.bal = k.bal
    BY <2>8, <2>9 DEF Pays, Field
  <2>11. MintShares(m2, p, m, n, from) = h
    BY <1>4, <2>6, <2>7, <2>9 DEF MintShares
  <2>12. Calm(e, h, x)
    <3>1. Pays(e, k, x)
      BY <2>5, <2>8, PaysTrans
    <3>2. QED BY <2>10, <3>1, PaysIsCalm, SameIsCalm, CalmTrans
  <2>13. DepositInto(e, p, m, n, from) \in {e, h}
    BY <1>4, <2>1, <2>3, <2>11 DEF DepositInto
  <2>14. QED BY <2>12, <2>13, CalmRefl
<1>7. PICK h : h = deposit(g, pair, a, b, from)
  OBVIOUS
<1>8. h = g \/ \E m, n : h = DepositInto(e, p, m, n, from)
  BY <1>1, <1>7 DEF deposit
<1>9. QED BY <1>2, <1>6, <1>7, <1>8, CalmRefl, CalmTrans

-----------------------------------------------------------------------------
(* Events and lockups *)

\* One more event leaves those scheduled in place, and is scheduled.
LEMMA AddedKeeps ==
    ASSUME NEW g, Agenda(g), NEW h, NEW time, NEW cb,
           Added(g.callbacks, h.callbacks, time, cb)
    PROVE  Scheduled(g) \subseteq Scheduled(h) /\ cb \in Scheduled(h)
<1> DEFINE c == g.callbacks
           d == h.callbacks
           old == IF time \in DOMAIN c THEN c[time] ELSE <<>>
<1>1. old \in Seq(Event(g)) /\ d[time] = Append(old, cb)
  BY DEF Agenda, Added
<1>2. time \in DOMAIN c => old = c[time]
  OBVIOUS
<1> HIDE DEF old
<1>3. /\ Len(old) \in Nat /\ DOMAIN old = 1..Len(old)
      /\ DOMAIN d[time] = 1..(Len(old) + 1)
      /\ \A i \in 1..Len(old) : d[time][i] = old[i]
      /\ d[time][Len(old) + 1] = cb
  <2>1. Len(old) \in Nat /\ DOMAIN old = 1..Len(old)
    BY <1>1, LenProperties
  <2>2. QED BY <1>1, <2>1
<1>4. time \in DOMAIN d /\ Len(old) + 1 \in DOMAIN d[time]
  BY <1>3 DEF Added
<1>5. cb \in Scheduled(h)
  <2>1. \E t \in DOMAIN h.callbacks : \E i \in DOMAIN h.callbacks[t] : cb = h.callbacks[t][i]
    BY ONLY <1>3, <1>4
  <2>2. QED BY <2>1, ScheduledFacts
<1>6. ASSUME NEW e \in Scheduled(g) PROVE e \in Scheduled(h)
  <2>1. PICK t \in DOMAIN c : \E i \in DOMAIN c[t] : e = c[t][i]
    BY <1>6, ScheduledFacts
  <2>2. PICK i \in DOMAIN c[t] : e = c[t][i]
    BY <2>1
  <2>3. t \in DOMAIN d /\ i \in DOMAIN d[t] /\ d[t][i] = c[t][i]
    <3>1. CASE t = time
      <4>1. old = c[time]
        BY <1>2, <2>1, <3>1
      <4>2. i \in 1..Len(old)
        BY <1>3, <2>2, <3>1, <4>1
      <4>3. i \in 1..(Len(old) + 1) /\ d[time][i] = old[i]
        BY <1>3, <4>2
      <4>4. QED BY <1>3, <1>4, <3>1, <4>1, <4>3
    <3>2. CASE t # time
      BY <2>1, <2>2, <3>2 DEF Added
    <3>3. QED BY <3>1, <3>2
  <2>4. \E v \in DOMAIN h.callbacks : \E j \in DOMAIN h.callbacks[v] : e = h.callbacks[v][j]
    BY ONLY <2>2, <2>3
  <2>5. QED BY <2>4, ScheduledFacts
<1>7. QED BY <1>5, <1>6

\* No lockup of g gets coins it had none of.
Dry(g, h) ==
    \A x \in Lockup(g) : \A u \in DOMAIN h.bal :
        balance_check(h, u, x) > 0 => u \in DOMAIN g.bal /\ balance_check(g, u, x) > 0

\* What leaves every lockup's account gives none coins.
LEMMA CalmIsDry ==
    ASSUME NEW g, NEW h, \A x \in Lockup(g) : Calm(g, h, x)
    PROVE  Dry(g, h)
BY DEF Dry, Calm

\* Scheduling an event leaves every account.
LEMMA ScheduleIsCalm ==
    ASSUME NEW g, DOMAIN g = Field, NEW time, NEW cb, NEW x
    PROVE  Calm(g, schedule(g, time, cb), x)
<1>1. PICK put : schedule(g, time, cb) = [g EXCEPT !.callbacks = put]
  BY DEF schedule
<1>2. PICK h : h = schedule(g, time, cb)
  OBVIOUS
<1>3. h.bal = g.bal
  BY <1>1, <1>2 DEF Field
<1>4. QED BY <1>2, <1>3, SameIsCalm

\* A lockup is an NFT, has an account, and is no player.
LEMMA LockupFacts ==
    ASSUME NEW g, Sound(g), NEW x \in Lockup(g)
    PROVE  x \in Holder(g) /\ x \notin UserIds(g) /\ x \in DOMAIN g.nfts
BY DEF Lockup, Sound, Registry

\* The payout leaves the lockups' accounts.
LEMMA PowerPlantIsCalm ==
    ASSUME NEW g, Sound(g), NEW cb, NEW x \in Lockup(g)
    PROVE  Calm(g, PowerPlantEvent(g, cb), x)
<1>1. DOMAIN g = Field /\ g.alloc \in Nat /\ btc \in DOMAIN g.bal
  BY TotalsAreNat DEF Sound, Books, Wallets
<1>2. Pays(g, PayOwners(g), x)
  <2>1. PICK f : /\ f[0] = g /\ PayOwners(g) = f[g.alloc]
                 /\ \A e \in 1..g.alloc :
                       f[e] = IF e \in PlantOwner(g)
                              THEN mint(f[e - 1], btc, e, payout(g, e)) ELSE f[e - 1]
    BY <1>1, PayOwnersUnfolds
  <2>2. \A e \in PlantOwner(g) : x # e
    <3>1. \A p \in DOMAIN g.plants : g.nfts[p].owner \in UserIds(g)
      BY DEF Sound, Registry
    <3>2. QED BY <3>1, LockupFacts DEF PlantOwner
  <2> DEFINE T == {n \in Nat : n <= g.alloc => Pays(g, f[n], x)}
  <2>3. 0 \in T
    BY <1>1, <2>1, PaysRefl
  <2>4. ASSUME NEW n \in Nat, n \in T PROVE n + 1 \in T
    <3>1. SUFFICES ASSUME n + 1 <= g.alloc PROVE Pays(g, f[n + 1], x)
      OBVIOUS
    <3>2. PICK k, e : k = f[n] /\ e = n + 1
      OBVIOUS
    <3>3. Pays(g, k, x) /\ e \in 1..g.alloc /\ e - 1 = n
      BY <1>1, <2>4, <3>1, <3>2
    <3>4. f[e] = IF e \in PlantOwner(g) THEN mint(k, btc, e, payout(g, e)) ELSE k
      BY <2>1, <3>2, <3>3
    <3>5. CASE e \in PlantOwner(g)
      <4>1. DOMAIN k = Field /\ btc \in DOMAIN k.bal /\ x # e
        BY <1>1, <2>2, <3>3, <3>5 DEF Pays
      <4>2. Pays(k, mint(k, btc, e, payout(g, e)), x)
        BY <4>1, MintPays
      <4>3. QED BY <3>2, <3>3, <3>4, <3>5, <4>2, PaysTrans
    <3>6. CASE e \notin PlantOwner(g)
      BY <3>2, <3>3, <3>4, <3>6
    <3>7. QED BY <3>5, <3>6
  <2>5. g.alloc \in T
    <3> HIDE DEF T
    <3>1. QED BY <1>1, <2>3, <2>4, Induction
  <2>6. QED BY <1>1, <2>1, <2>5
<1>3. PICK k : k = IF TotalHashrate(g) = 0 THEN g ELSE PayOwners(g)
  OBVIOUS
<1>4. Pays(g, k, x)
  BY <1>1, <1>2, <1>3, PaysRefl
<1>5. Calm(k, schedule(k, g.elapsed + Period.payout, cb), x)
  BY <1>4, ScheduleIsCalm DEF Pays
<1>6. PowerPlantEvent(g, cb) = schedule(k, g.elapsed + Period.payout, cb)
  BY <1>3 DEF PowerPlantEvent
<1>7. QED BY <1>4, <1>5, <1>6, PaysIsCalm, CalmTrans

\* A producer that opens its market leaves the lockups' accounts.
LEMMA OpenMarketIsCalm ==
    ASSUME NEW g, Sound(g), NEW cb \in Event(g), cb.kind \in ProducerKind, NEW x \in Lockup(g)
    PROVE  Calm(g, open_market(g, cb), x)
<1>1. PICK id, t : id = cb.id /\ t = cb.asset
  OBVIOUS
<1>2. /\ id \in Holder(g) /\ t \in DOMAIN g.bal /\ id # x /\ x \in Holder(g)
      /\ btc \in DOMAIN g.bal /\ DOMAIN g = Field
  <2>1. id \in Holder(g) \ (UserIds(g) \cup DOMAIN g.nfts) /\ t \in DOMAIN g.bal
    BY <1>1, EventFacts
  <2>2. QED BY <2>1, LockupFacts, TotalsAreNat DEF Sound, Books, Wallets
<1>3. PICK start, base : start = TotalUnits \div 10 /\ base = BasePrice * start
  OBVIOUS
<1>4. TotalUnits \in Nat /\ base \in Nat
  <2>1. TotalUnits \in Nat /\ BasePrice \in Nat
    BY BoardAssumption
  <2>2. start \in Nat
    BY <1>3, <2>1
  <2>3. QED BY <1>3, <2>1, <2>2
<1>5. PICK m1 : m1 = mint(g, t, id, TotalUnits)
  OBVIOUS
<1>6. LedgerStep(g, m1, {}) /\ Pays(g, m1, x)
  BY <1>2, <1>4, <1>5, MintStep, MintPays DEF Sound
<1>7. Books(m1) /\ id \in Holder(m1) /\ btc \in DOMAIN m1.bal
  BY <1>2, <1>6 DEF LedgerStep, Grows
<1>8. PICK m2 : m2 = mint(m1, btc, id, base)
  OBVIOUS
<1>9. LedgerStep(m1, m2, {}) /\ Pays(m1, m2, x)
  <2>1. LedgerStep(m1, m2, {})
    BY <1>4, <1>7, <1>8, MintStep
  <2>2. DOMAIN m1 = Field /\ x # id
    BY <1>2, <1>6 DEF Pays
  <2>3. Pays(m1, m2, x)
    BY <1>7, <1>8, <2>2, MintPays
  <2>4. QED BY <2>1, <2>3
<1>10. /\ Books(m2) /\ x \in Holder(m2) /\ <<t, btc>> \in (DOMAIN m2.bal) \X (DOMAIN m2.bal)
  BY <1>2, <1>6, <1>9 DEF LedgerStep, Grows
<1>11. Calm(m2, deposit(m2, <<t, btc>>, start, base, id), x)
  BY <1>2, <1>10, DepositIsCalm
<1>12. open_market(g, cb) = deposit(m2, <<t, btc>>, start, base, id)
  BY <1>1, <1>3, <1>5, <1>8 DEF open_market
<1>13. QED BY <1>6, <1>9, <1>11, <1>12, PaysIsCalm, CalmTrans

\* A producer's turn leaves the lockups' accounts.
LEMMA ProducerIsCalm ==
    ASSUME NEW g, Sound(g), NEW cb \in Event(g), cb.kind \in ProducerKind, NEW x \in Lockup(g)
    PROVE  Calm(g, Producer(g, cb), x)
<1>1. PICK o : o = IF cb.first THEN open_market(g, cb) ELSE g
  OBVIOUS
<1>2. Works(g, o, cb) /\ Calm(g, o, x)
  <2>1. CASE cb.first
    BY <1>1, <2>1, OpenMarketFacts, OpenMarketIsCalm
  <2>2. CASE ~cb.first
    BY <1>1, <2>2, WorksRefl, CalmRefl
  <2>3. QED BY <2>1, <2>2
<1>3. Sound(o) /\ cb \in Event(o) /\ x \in Lockup(o)
  <2>1. Sound(o) /\ Registry(g) /\ Kept(g, o) /\ Grows(g, o)
    BY <1>2 DEF Works, EventStep, Sound
  <2>2. QED BY <2>1, RegistryKept DEF Kept, Lockup
<1>4. PICK s : s = SellHundredth(o, cb)
  OBVIOUS
<1>5. Calm(o, s, x)
  <2>1. PICK id, t, n : id = cb.id /\ t = cb.asset /\ n = balance_check(o, t, id) \div 100
    OBVIOUS
  <2>2. /\ <<t, btc>> \in (DOMAIN o.bal) \X (DOMAIN o.bal) /\ Books(o)
        /\ x \in Holder(o) /\ x # id
    <3>1. id \in Holder(o) \ (UserIds(o) \cup DOMAIN o.nfts) /\ t \in DOMAIN o.bal
      BY <1>2, <1>3, <2>1, EventFacts
    <3>2. btc \in DOMAIN o.bal
      BY <1>3, TotalsAreNat
    <3>3. QED BY <1>3, <3>1, <3>2, LockupFacts DEF Sound
  <2>3. s = DoTrade(o, <<t, btc>>, n, 0, TRUE, NoCap, FALSE, id).game
    BY <1>4, <2>1 DEF SellHundredth, do_sell_trade
  <2>4. TRUE \in BOOLEAN /\ FALSE \in BOOLEAN
    OBVIOUS
  <2>5. QED BY <2>2, <2>3, <2>4, TradeIsCalm
<1>6. DOMAIN s = Field
  BY <1>3, <1>4, SellHundredthFacts DEF Works, EventStep, Sound, Books, Wallets
<1>7. Calm(s, Renew(s, cb), x)
  <2>1. Renew(s, cb) = s \/ \E time, nb : Renew(s, cb) = schedule(s, time, nb)
    BY DEF Renew
  <2>2. QED BY <1>6, <2>1, CalmRefl, ScheduleIsCalm
<1>8. Producer(g, cb) = Renew(s, cb)
  BY <1>1, <1>4 DEF Producer
<1>9. QED BY <1>2, <1>5, <1>7, <1>8, CalmTrans

\* A lockup that is released has nothing left of what it held.
LEMMA ReleaseEmpties ==
    ASSUME NEW g, Sound(g), NEW cb \in Event(g), cb.kind = "lockup"
    PROVE  LET h == release_lockup(g, cb) IN
           Dry(g, h) /\ ~(balance_check(h, cb.asset, cb.id) > 0)
<1>1. PICK to, id, t : to = g.nfts[cb.id].owner /\ id = cb.id /\ t = cb.asset
  OBVIOUS
<1>2. PICK n : n = balance_check(g, t, id)
  OBVIOUS
<1>3. PICK h : h = transfer(g, t, id, to, n)
  OBVIOUS
<1>4. release_lockup(g, cb) = h
  BY <1>1, <1>2, <1>3 DEF release_lockup
<1>5. id \in Lockup(g) /\ t \in DOMAIN g.bal /\ to \in UserIds(g)
  <2>1. id \in Lockup(g) /\ t \in DOMAIN g.bal
    BY <1>1, EventFacts
  <2>2. QED BY <1>1, <2>1 DEF Lockup, Sound, Registry
<1>6. /\ DOMAIN g = Field /\ Wallets(g) /\ id \in 1..g.alloc /\ to \in 1..g.alloc
      /\ n \in Nat /\ id # to
      /\ \A u \in DOMAIN g.bal : \A x : balance_check(g, u, x) \in Nat
  <2>1. Books(g) /\ to \in Holder(g) /\ id \in Holder(g) /\ id # to
    BY <1>5, LockupFacts, OwnedFacts DEF Sound
  <2>2. QED BY <1>2, <1>5, <2>1, BooksTypes DEF Books, Wallets, Holder
<1>7. /\ SameBut(g, h)
      /\ \A u \in DOMAIN g.bal : \A x :
            balance_check(h, u, x) = balance_check(g, u, x) + Moved(g, t, id, to, n, u, x)
  BY <1>3, <1>5, <1>6, TransferFacts
<1>8. DOMAIN h.bal = DOMAIN g.bal
  BY <1>7, SameButFacts
<1>9. transfer_possible(g, t, id, n)
  BY <1>2, <1>6 DEF transfer_possible
<1>10. balance_check(h, t, id) = 0
  <2>1. Moved(g, t, id, to, n, t, id) = 0 - n
    BY <1>6, <1>9 DEF Moved
  <2>2. QED BY <1>2, <1>5, <1>6, <1>7, <2>1
<1>11. ASSUME NEW x \in Lockup(g), NEW u \in DOMAIN g.bal, balance_check(h, u, x) > 0
       PROVE  balance_check(g, u, x) > 0
  <2>1. x # to
    BY <1>5, LockupFacts
  <2>2. CASE x = id /\ u = t
    BY <1>10, <1>11, <2>2
  <2>3. CASE ~(x = id /\ u = t)
    <3>1. Moved(g, t, id, to, n, u, x) = 0
      BY <2>1, <2>3 DEF Moved
    <3>2. balance_check(h, u, x) = balance_check(g, u, x)
      BY <1>6, <1>7, <3>1
    <3>3. QED BY <1>11, <3>2
  <2>4. QED BY <2>2, <2>3
<1>12. Dry(g, h)
  BY <1>8, <1>11 DEF Dry
<1>13. QED BY <1>1, <1>4, <1>10, <1>12

\* A turn, or a row of them, gives no lockup coins, keeps the agenda and, when it
\* includes a lockup's release e, leaves it without what it held.
Unlocks(g, h, e, done) ==
    /\ EventStep(g, h) /\ Dry(g, h) /\ Scheduled(g) \subseteq Scheduled(h)
    /\ done /\ e.kind = "lockup" => ~(balance_check(h, e.asset, e.id) > 0)

\* No turn releases nothing.
LEMMA UnlocksRefl ==
    ASSUME NEW g, Sound(g), NEW e
    PROVE  Unlocks(g, g, e, FALSE)
BY EventStepRefl DEF Unlocks, Dry

\* Two rows of turns release what either does.
LEMMA UnlocksTrans ==
    ASSUME NEW g, Sound(g), NEW e \in Event(g), NEW h, NEW k, NEW a \in BOOLEAN,
           NEW b \in BOOLEAN, Unlocks(g, h, e, a), Unlocks(h, k, e, b)
    PROVE  Unlocks(g, k, e, a \/ b)
<1>1. EventStep(g, h) /\ EventStep(h, k) /\ EventStep(g, k)
  BY EventStepTrans DEF Unlocks
<1>2. Lockup(h) = Lockup(g)
  BY <1>1 DEF EventStep, Kept, Lockup
<1>3. Dry(g, k)
  BY <1>2 DEF Unlocks, Dry
<1>4. Scheduled(g) \subseteq Scheduled(k)
  BY DEF Unlocks
<1>5. ASSUME e.kind = "lockup", a \/ b PROVE ~(balance_check(k, e.asset, e.id) > 0)
  <2>1. e.id \in Lockup(h) /\ e.asset \in DOMAIN g.bal
    BY <1>2, <1>5, EventFacts
  <2>2. e.asset \in DOMAIN k.bal
    BY <1>1, <2>1 DEF EventStep, Grows
  <2>3. CASE a
    <3>1. ~(balance_check(h, e.asset, e.id) > 0)
      BY <1>5, <2>3 DEF Unlocks
    <3>2. QED BY <2>1, <2>2, <3>1 DEF Unlocks, Dry
  <2>4. CASE b
    BY <1>5, <2>4 DEF Unlocks
  <2>5. QED BY <1>5, <2>3, <2>4
<1>6. QED BY <1>1, <1>3, <1>4, <1>5 DEF Unlocks

\* An event's turn releases its lockup if it has one, and fills none.
LEMMA TurnUnlocks ==
    ASSUME NEW g, Sound(g), NEW cb \in Event(g), NEW e \in Event(g)
    PROVE  Unlocks(g, action(g, cb), e, cb = e)
<1>1. PICK h : h = action(g, cb)
  OBVIOUS
<1>2. Acts(g, h, cb) /\ cb.kind \in ProducerKind \cup {"payout", "lockup"}
  BY <1>1, ActionFacts, EventFacts
<1>3. EventStep(g, h)
  BY <1>2 DEF Acts
<1>4. Scheduled(g) \subseteq Scheduled(h)
  <2>1. h.callbacks = g.callbacks \/ \E time, nb : Added(g.callbacks, h.callbacks, time, nb)
    BY <1>2 DEF Acts, Produced
  <2>2. CASE h.callbacks = g.callbacks
    BY <2>2 DEF Scheduled
  <2>3. CASE \E time, nb : Added(g.callbacks, h.callbacks, time, nb)
    BY <2>3, AddedKeeps DEF Sound
  <2>4. QED BY <2>1, <2>2, <2>3
<1>5. CASE cb.kind = "lockup"
  <2>1. h = release_lockup(g, cb)
    BY <1>1, <1>5 DEF action
  <2>2. Dry(g, h) /\ ~(balance_check(h, cb.asset, cb.id) > 0)
    BY <1>5, <2>1, ReleaseEmpties
  <2>3. QED BY <1>1, <1>3, <1>4, <2>2 DEF Unlocks
<1>6. CASE cb.kind = "payout"
  <2>1. h = PowerPlantEvent(g, cb)
    BY <1>1, <1>6 DEF action
  <2>2. Dry(g, h)
    BY <2>1, PowerPlantIsCalm, CalmIsDry
  <2>3. QED BY <1>1, <1>3, <1>4, <1>6, <2>2 DEF Unlocks
<1>7. CASE cb.kind \in ProducerKind
  <2>1. h = Producer(g, cb) /\ cb.kind # "lockup"
    BY <1>1, <1>7 DEF action, ProducerKind, ASICProducer, SteelSmelter, SiliconRefinery,
                      ConcreteMiller
  <2>2. \A x \in Lockup(g) : Calm(g, h, x)
    BY <1>7, <2>1, ProducerIsCalm
  <2>3. Dry(g, h)
    BY <2>2, CalmIsDry
  <2>4. QED BY <1>1, <1>3, <1>4, <2>1, <2>3 DEF Unlocks
<1>8. QED BY <1>2, <1>5, <1>6, <1>7

Among(cbs, e, n) == \E i \in 1..n : cbs[i] = e

\* A row of turns releases the lockups whose releases are in it.
LEMMA PerformUnlocks ==
    ASSUME NEW g, Sound(g), NEW cbs \in Seq(Event(g)), NEW e \in Event(g)
    PROVE  Unlocks(g, Perform(g, cbs), e, Among(cbs, e, Len(cbs)))
<1>1. Len(cbs) \in Nat /\ \A i \in 1..Len(cbs) : cbs[i] \in Event(g)
  BY LenProperties, ElementOfSeq
<1>2. PICK f : Performs(g, cbs, f)
  BY <1>1, PerformUnfolds
<1> DEFINE T == {i \in Nat : i <= Len(cbs) => Unlocks(g, f[i], e, Among(cbs, e, i))}
<1>3. 0 \in T
  <2>1. f[0] = g
    BY <1>2 DEF Performs
  <2>2. Among(cbs, e, 0) = FALSE
    BY DEF Among
  <2>3. QED BY <2>1, <2>2, UnlocksRefl
<1>4. ASSUME NEW n \in Nat, n \in T PROVE n + 1 \in T
  <2>1. SUFFICES ASSUME n + 1 <= Len(cbs)
                 PROVE  Unlocks(g, f[n + 1], e, Among(cbs, e, n + 1))
    OBVIOUS
  <2>2. n + 1 \in 1..Len(cbs) /\ (n + 1) - 1 = n /\ n <= Len(cbs)
    BY <1>1, <2>1
  <2>3. PICK x, cb, a, b : /\ x = f[n] /\ cb = cbs[n + 1] /\ a = Among(cbs, e, n)
                           /\ b = (cb = e)
    OBVIOUS
  <2>4. Unlocks(g, x, e, a) /\ a \in BOOLEAN /\ b \in BOOLEAN
    BY <1>4, <2>2, <2>3 DEF Among
  <2>5. Sound(x) /\ cb \in Event(x) /\ e \in Event(x)
    <3>1. EventStep(g, x) /\ Sound(x)
      BY <2>4 DEF Unlocks, EventStep
    <3>2. Event(g) \subseteq Event(x)
      BY <3>1, RegistryKept DEF EventStep, Sound
    <3>3. QED BY <1>1, <2>2, <2>3, <3>1, <3>2
  <2>6. PICK y : y = f[n + 1]
    OBVIOUS
  <2>7. y = action(x, cb)
    BY <1>2, <2>2, <2>3, <2>6 DEF Performs
  <2>8. Unlocks(x, y, e, b)
    <3>1. Unlocks(x, action(x, cb), e, cb = e)
      BY <2>5, TurnUnlocks
    <3>2. QED BY ONLY <3>1, <2>3, <2>7
  <2>9. Among(cbs, e, n + 1) = (a \/ b)
    <3>1. 1..(n + 1) = (1..n) \cup {n + 1}
      OBVIOUS
    <3>2. QED BY <2>3, <3>1 DEF Among
  <2>10. Unlocks(g, y, e, a \/ b)
    BY <2>4, <2>8, UnlocksTrans
  <2>11. QED BY <2>6, <2>9, <2>10
<1>5. Len(cbs) \in T
  <2> HIDE DEF T
  <2>1. QED BY <1>1, <1>3, <1>4, Induction
<1>6. Perform(g, cbs) = f[Len(cbs)]
  BY <1>2 DEF Performs
<1>7. QED BY <1>1, <1>5, <1>6

\* The event e was due by the time n.
Fired(g, e, n) == \E t \in Due(g) : t <= n /\ Among(g.callbacks[t], e, Len(g.callbacks[t]))

\* A run releases the lockups whose releases were due (callbacks.rs, run).
LEMMA RunUnlocks ==
    ASSUME NEW g, Sound(g), NEW e \in Event(g)
    PROVE  Unlocks(Undue(g), run(g), e, Fired(g, e, g.elapsed))
<1> DEFINE c == g.callbacks
           u == Undue(g)
<1>1. g.elapsed \in Nat /\ \A t \in DOMAIN c : t \in Nat /\ c[t] \in Seq(Event(g))
  BY DEF Sound, Registry, Agenda
<1>2. PICK f : Runs(g, f)
  BY <1>1, RunUnfolds
<1>3. EventStep(g, u) /\ Sound(u)
  BY UndueFacts DEF EventStep
<1> DEFINE P(n) == Unlocks(u, f[n], e, Fired(g, e, n))
           T == {n \in Nat : n <= g.elapsed + 1 => P(n - 1)}
<1>4. 0 \in T
  <2>1. f[-1] = u /\ 0 - 1 = -1
    BY <1>2 DEF Runs
  <2>2. Fired(g, e, -1) = FALSE
    <3>1. \A t \in Due(g) : ~(t <= -1)
      BY <1>1 DEF Due
    <3>2. QED BY <3>1 DEF Fired
  <2> HIDE DEF u
  <2>3. QED BY <1>3, <2>1, <2>2, UnlocksRefl
<1> HIDE DEF u
<1>5. Event(g) \subseteq Event(u)
  BY <1>3, RegistryKept DEF EventStep, Sound
<1>6. ASSUME NEW n \in Nat, n \in T PROVE n + 1 \in T
  <2>1. SUFFICES ASSUME n <= g.elapsed PROVE P(n)
    BY <1>1
  <2>2. n \in 0..g.elapsed /\ n <= g.elapsed + 1
    BY <1>1, <2>1
  <2>3. P(n - 1)
    BY <1>6, <2>2
  <2>4. PICK x, cbs : x = f[n - 1] /\ cbs = c[n]
    OBVIOUS
  <2>5. f[n] = IF n \in Due(g) THEN Perform(x, cbs) ELSE x
    BY <1>2, <2>2, <2>4 DEF Runs
  <2>6. PICK a, b : a = Fired(g, e, n - 1) /\ b = (n \in Due(g) /\ Among(cbs, e, Len(cbs)))
    OBVIOUS
  <2>7. a \in BOOLEAN /\ b \in BOOLEAN
    BY <2>6 DEF Fired
  <2>8. Fired(g, e, n) = (a \/ b)
    <3>1. \A t \in Due(g) : t <= n <=> t <= n - 1 \/ t = n
      BY <1>1 DEF Due
    <3>2. QED BY <2>4, <2>6, <3>1 DEF Fired
  <2>9. Unlocks(u, x, e, a)
    BY <2>3, <2>4, <2>6
  <2>10. Sound(x) /\ Event(u) \subseteq Event(x)
    BY <1>3, <2>9, RegistryKept DEF Unlocks, EventStep, Sound
  <2>11. PICK y : y = f[n]
    OBVIOUS
  <2>12. Unlocks(x, y, e, b)
    <3>1. CASE n \notin Due(g)
      <4>1. y = x /\ b = FALSE
        BY <2>5, <2>6, <2>11, <3>1
      <4>2. QED BY <2>10, <4>1, UnlocksRefl
    <3>2. CASE n \in Due(g)
      <4>1. n \in DOMAIN c
        BY <3>2 DEF Due
      <4>2. cbs \in Seq(Event(g)) /\ Event(g) \subseteq Event(x) /\ e \in Event(x)
        BY <1>1, <1>5, <2>4, <2>10, <4>1
      <4>3. cbs \in Seq(Event(x))
        BY <4>2, SeqOfMore
      <4>4. Unlocks(x, Perform(x, cbs), e, Among(cbs, e, Len(cbs)))
        BY <2>10, <4>2, <4>3, PerformUnlocks
      <4>5. b = Among(cbs, e, Len(cbs))
        BY <2>6, <3>2 DEF Among
      <4>6. QED BY <2>5, <2>11, <3>2, <4>4, <4>5
    <3>3. QED BY <3>1, <3>2
  <2>13. Unlocks(u, y, e, a \/ b)
    BY <1>3, <1>5, <2>7, <2>9, <2>12, UnlocksTrans
  <2>14. QED BY <2>8, <2>11, <2>13
<1>7. P(g.elapsed)
  <2>1. g.elapsed + 1 \in T
    <3> HIDE DEF T
    <3>1. QED BY <1>1, <1>4, <1>6, Induction
  <2>2. (g.elapsed + 1) - 1 = g.elapsed
    BY <1>1
  <2>3. QED BY <1>1, <2>1, <2>2
<1>8. run(g) = f[g.elapsed]
  BY <1>2 DEF Runs
<1>9. QED BY <1>7, <1>8 DEF u

-----------------------------------------------------------------------------
(* Coins in lockups *)

\* The release of the coins t from the lockup x
Release(x, t) == [kind |-> "lockup", id |-> x, asset |-> t]

\* Players of the setup s send coins to x.
Target(s, x) == \E m \in Setup[s].moves : m.kind = "send" /\ m.to = x

\* A lockup's coins have their release scheduled.
Guarded(g) ==
    \A x \in Lockup(g) : \A t \in DOMAIN g.bal :
        balance_check(g, t, x) > 0 => Release(x, t) \in Scheduled(g) \/ Target(g.setup, x)

\* The release of a lockup's coins is an event of the board.
LEMMA ReleaseIsEvent ==
    ASSUME NEW g, NEW x \in Lockup(g), NEW t \in DOMAIN g.bal
    PROVE  /\ Release(x, t) \in Event(g) /\ Release(x, t).kind = "lockup"
           /\ Release(x, t).id = x /\ Release(x, t).asset = t
<1>1. Release(x, t) \in [kind : {"lockup"}, id : Lockup(g), asset : DOMAIN g.bal]
  BY DEF Release
<1>2. QED BY <1>1 DEF Event, Release

\* The clock leaves the lockups and their releases.
LEMMA ClockGuarded ==
    ASSUME NEW g, Sound(g), Guarded(g), NEW h, ClockStep(g, h)
    PROVE  Guarded(h)
<1>1. /\ h.callbacks = g.callbacks /\ h.setup = g.setup /\ h.bal = g.bal
      /\ h.nfts = g.nfts /\ h.plants = g.plants
      /\ \A u, x : balance_check(h, u, x) = balance_check(g, u, x)
  BY ClockFacts, SameLedgerFacts DEF ClockStep, Sound
<1>2. Scheduled(h) = Scheduled(g) /\ Lockup(h) = Lockup(g)
  BY <1>1 DEF Scheduled, Lockup
<1>3. QED BY <1>1, <1>2 DEF Guarded

\* An event that is not run is still scheduled; one that is, has been.
LEMMA UndueKeeps ==
    ASSUME NEW g, Sound(g), NEW e \in Scheduled(g)
    PROVE  e \in Scheduled(Undue(g)) \/ Fired(g, e, g.elapsed)
<1>1. PICK t \in DOMAIN g.callbacks : \E i \in DOMAIN g.callbacks[t] : e = g.callbacks[t][i]
  BY ScheduledFacts
<1>2. PICK i \in DOMAIN g.callbacks[t] : e = g.callbacks[t][i]
  BY <1>1
<1>3. CASE t \in Due(g)
  <2>1. PICK s : s = g.callbacks[t]
    OBVIOUS
  <2>2. s \in Seq(Event(g))
    BY <2>1 DEF Sound, Agenda
  <2>3. i \in 1..Len(s) /\ s[i] = e
    BY <1>2, <2>1, <2>2, LenProperties
  <2>4. Among(s, e, Len(s))
    BY <2>3 DEF Among
  <2>5. t <= g.elapsed
    BY <1>3 DEF Due
  <2>6. QED BY <1>3, <2>1, <2>4, <2>5 DEF Fired
<1>4. CASE t \notin Due(g)
  <2>1. PICK u : u = Undue(g)
    OBVIOUS
  <2>2. t \in DOMAIN u.callbacks /\ u.callbacks[t] = g.callbacks[t]
    BY <1>4, <2>1, UndueFacts
  <2>3. \E v \in DOMAIN u.callbacks : \E j \in DOMAIN u.callbacks[v] : e = u.callbacks[v][j]
    BY ONLY <1>2, <2>2
  <2>4. e \in Scheduled(u)
    BY <2>3, ScheduledFacts
  <2>5. QED BY <2>1, <2>4
<1>5. QED BY <1>3, <1>4

\* After a run, coins in a lockup still have a release scheduled.
LEMMA RunGuarded ==
    ASSUME NEW g, Sound(g), Guarded(g)
    PROVE  Guarded(run(g))
<1>1. PICK u, r : u = Undue(g) /\ r = run(g)
  OBVIOUS
<1>2. EventStep(g, u) /\ Sound(u) /\ AgendaStep(g, u)
  BY <1>1, UndueFacts DEF EventStep
<1>3. /\ DOMAIN u.bal = DOMAIN g.bal /\ u.setup = g.setup /\ Lockup(u) = Lockup(g)
      /\ \A t, x : balance_check(u, t, x) = balance_check(g, t, x)
  BY <1>2, AgendaStepFacts DEF Sound, Kept, Lockup
<1>4. \A e \in Event(g) : Unlocks(u, r, e, Fired(g, e, g.elapsed))
  BY <1>1, RunUnlocks
<1>5. EventStep(u, r) /\ Dry(u, r) /\ Scheduled(u) \subseteq Scheduled(r)
  <2>1. [kind |-> "payout"] \in Event(g)
    BY DEF Event
  <2>2. QED BY <1>4, <2>1 DEF Unlocks
<1>6. Lockup(r) = Lockup(g) /\ r.setup = g.setup
  BY <1>3, <1>5 DEF EventStep, Kept, Lockup
<1>7. ASSUME NEW x \in Lockup(g), NEW t \in DOMAIN r.bal, balance_check(r, t, x) > 0
      PROVE  Release(x, t) \in Scheduled(r) \/ Target(g.setup, x)
  <2>1. t \in DOMAIN g.bal /\ balance_check(g, t, x) > 0
    BY <1>3, <1>5, <1>7 DEF Dry
  <2>2. SUFFICES ASSUME Release(x, t) \in Scheduled(g) PROVE Release(x, t) \in Scheduled(r)
    BY <2>1 DEF Guarded
  <2>3. PICK e : e = Release(x, t)
    OBVIOUS
  <2>4. e \in Event(g) /\ e.kind = "lockup" /\ e.id = x /\ e.asset = t
    BY <2>1, <2>3, ReleaseIsEvent
  <2>5. ~Fired(g, e, g.elapsed)
    <3>1. Unlocks(u, r, e, Fired(g, e, g.elapsed))
      BY <1>4, <2>4
    <3>2. QED BY <1>7, <2>4, <3>1 DEF Unlocks
  <2>6. e \in Scheduled(u)
    BY <1>1, <2>2, <2>3, <2>5, UndueKeeps
  <2>7. QED BY <1>5, <2>3, <2>6
<1>8. Guarded(r)
  BY <1>6, <1>7 DEF Guarded
<1>9. QED BY <1>1, <1>8

\* The producers have no NFTs.
LEMMA ScheduleBuildsNothing ==
    ASSUME NEW g, DOMAIN g = Field, NEW time, NEW cb
    PROVE  /\ DOMAIN schedule(g, time, cb) = Field
           /\ Lockup(schedule(g, time, cb)) = Lockup(g)
<1>1. PICK put : schedule(g, time, cb) = [g EXCEPT !.callbacks = put]
  BY DEF schedule
<1>2. PICK h : h = schedule(g, time, cb)
  OBVIOUS
<1>3. DOMAIN h = Field /\ h.nfts = g.nfts /\ h.plants = g.plants
  BY <1>1, <1>2 DEF Field
<1>4. QED BY <1>2, <1>3 DEF Lockup

\* A new producer has no NFT.
LEMMA add_producerBuildsNothing ==
    ASSUME NEW g, DOMAIN g = Field, NEW p
    PROVE  DOMAIN add_producer(g, p) = Field /\ Lockup(add_producer(g, p)) = Lockup(g)
<1>1. PICK h : h = [g EXCEPT !.alloc = @ + 1]
  OBVIOUS
<1>2. DOMAIN h = Field /\ Lockup(h) = Lockup(g)
  BY <1>1 DEF Field, Lockup
<1>3. PICK cb : add_producer(g, p) = schedule(h, 0, cb)
  BY <1>1 DEF add_producer
<1>4. QED BY <1>2, <1>3, ScheduleBuildsNothing

\* The producers have no NFTs together.
LEMMA WithProducersBuildsNothing ==
    ASSUME NEW g, DOMAIN g = Field
    PROVE  Lockup(WithProducers(g)) = Lockup(g)
<1>1. PICK g0 : g0 = schedule(g, 0, [kind |-> "payout"])
  OBVIOUS
<1>2. PICK g1 : g1 = add_producer(g0, Producers[1])
  OBVIOUS
<1>3. PICK g2 : g2 = add_producer(g1, Producers[2])
  OBVIOUS
<1>4. PICK g3 : g3 = add_producer(g2, Producers[3])
  OBVIOUS
<1>5. WithProducers(g) = add_producer(g3, Producers[4])
  BY <1>1, <1>2, <1>3, <1>4 DEF WithProducers
<1>6. DOMAIN g0 = Field /\ Lockup(g0) = Lockup(g)
  BY <1>1, ScheduleBuildsNothing
<1>7. DOMAIN g1 = Field /\ Lockup(g1) = Lockup(g)
  BY <1>2, <1>6, add_producerBuildsNothing
<1>8. DOMAIN g2 = Field /\ Lockup(g2) = Lockup(g)
  BY <1>3, <1>7, add_producerBuildsNothing
<1>9. DOMAIN g3 = Field /\ Lockup(g3) = Lockup(g)
  BY <1>4, <1>8, add_producerBuildsNothing
<1>10. QED BY <1>5, <1>9, add_producerBuildsNothing

\* A new game has no lockup.
LEMMA new_gameGuarded ==
    ASSUME NEW setup \in DOMAIN Setup
    PROVE  Guarded(new_game(setup))
<1>1. PICK g1 : g1 = WithUsers(setup)
  OBVIOUS
<1>2. PICK g2 : g2 = WithMarkets(g1)
  OBVIOUS
<1>3. PICK g3 : g3 = WithRoot(g2)
  OBVIOUS
<1>4. PICK g4 : g4 = WithProducers(g3)
  OBVIOUS
<1>5. PICK h : h = new_game(setup)
  OBVIOUS
<1>6. h = WithPlants(g4)
  BY <1>1, <1>2, <1>3, <1>4, <1>5 DEF new_game
<1>7. Sound(g1) /\ root_user \in Holder(g1) /\ DOMAIN g1 = Field /\ Lockup(g1) = {}
  BY <1>1, WithUsersFacts, WithUsersIsMute
<1>8. Made(g1, g2) /\ Mute(g1, g2)
  BY <1>2, <1>7, WithMarketsFacts, WithMarketsIsMute
<1>9. Sound(g3) /\ Mute(g2, g3)
  <2>1. Sound(g2) /\ root_user \in Holder(g2) /\ DOMAIN g2 = Field
    BY <1>7, <1>8 DEF Made, Grows, Mute
  <2>2. QED BY <1>3, <2>1, WithRootFacts, WithRootIsMute DEF Made
<1>10. Sound(g4) /\ Lockup(g4) = Lockup(g3)
  BY <1>4, <1>9, WithProducersFacts, WithProducersBuildsNothing DEF Made, Mute
<1>11. Mute(g4, h)
  BY <1>6, <1>10, WithPlantsIsMute DEF Sound, Books, Wallets
<1>12. Lockup(h) = {}
  BY <1>7, <1>8, <1>9, <1>10, <1>11 DEF Mute
<1>13. QED BY <1>5, <1>12 DEF Guarded

\* A move that keeps the agenda and has no part in a lockup
Shuns(g, h) ==
    /\ h.callbacks = g.callbacks /\ Lockup(h) = Lockup(g)
    /\ \A x \in Lockup(g) : Calm(g, h, x)

\* Doing nothing has no part in a lockup.
LEMMA ShunsRefl ==
    ASSUME NEW g
    PROVE  Shuns(g, g)
BY CalmRefl DEF Shuns

\* Two changes that have no part in a lockup make one.
LEMMA ShunsTrans ==
    ASSUME NEW g, NEW h, NEW k, Shuns(g, h), Shuns(h, k)
    PROVE  Shuns(g, k)
BY CalmTrans DEF Shuns

\* A trade has no part in a lockup.
LEMMA TradeShuns ==
    ASSUME NEW g, Sound(g), NEW pair \in (DOMAIN g.bal) \X (DOMAIN g.bal),
           NEW a \in Nat, NEW b \in Nat, NEW sell \in BOOLEAN, NEW cap,
           NEW from \in UserIds(g)
    PROVE  Shuns(g, DoTrade(g, pair, a, b, sell, cap, FALSE, from).game)
<1>1. PICK o : o = DoTrade(g, pair, a, b, sell, cap, FALSE, from)
  OBVIOUS
<1>2. Books(g) /\ from \in Holder(g) /\ {from} \subseteq Mine(g, from) /\ FALSE \in BOOLEAN
  BY OwnedFacts DEF Sound, Mine
<1>3. Dealt(g, o, from)
  BY <1>1, <1>2, TradeFacts
<1>4. LedgerStep(g, o.game, {from}) /\ Conserves(g, o.game)
  BY <1>3 DEF Dealt, Conserves
<1>5. /\ o.game.callbacks = g.callbacks /\ o.game.nfts = g.nfts
      /\ o.game.plants = g.plants
  BY <1>2, <1>4, LedgerIsMove
<1>6. ASSUME NEW x \in Lockup(g) PROVE Calm(g, o.game, x)
  <2>1. x \in Holder(g) /\ x # from
    BY LockupFacts
  <2>2. QED BY <1>1, <1>2, <2>1, TradeIsCalm
<1>7. QED BY <1>1, <1>5, <1>6 DEF Shuns, Lockup

\* A transfer between accounts that are no lockups'
LEMMA TransferShuns ==
    ASSUME NEW g, Sound(g), NEW t \in DOMAIN g.bal, NEW from, NEW to, NEW n,
           from \notin Lockup(g), to \notin Lockup(g)
    PROVE  Shuns(g, transfer(g, t, from, to, n))
<1>1. PICK h : h = transfer(g, t, from, to, n)
  OBVIOUS
<1>2. DOMAIN g = Field
  BY DEF Sound, Books, Wallets
<1>3. \A x : x # from /\ x # to => Pays(g, h, x)
  BY <1>1, <1>2, TransferPays
<1>4. \A x \in Lockup(g) : Calm(g, h, x)
  BY <1>3, PaysIsCalm
<1>5. \E x \in {0, 1, 2} : x # from /\ x # to
  BY 0 # 1, 0 # 2, 1 # 2
<1>6. /\ h.callbacks = g.callbacks /\ h.nfts = g.nfts /\ h.plants = g.plants
  <2>1. PICK x : Pays(g, h, x)
    BY <1>3, <1>5
  <2>2. QED BY <2>1 DEF Pays, Field
<1>7. QED BY <1>1, <1>4, <1>6 DEF Shuns, Lockup

\* A new plant is no lockup.
LEMMA add_plantShuns ==
    ASSUME NEW g, Sound(g), NEW owner \in UserIds(g), NEW type, NEW scale
    PROVE  LET h == add_plant(g, owner, type, scale)
           IN Shuns(g, h) /\ h.alloc \in DOMAIN h.plants
<1>1. PICK id : id = g.alloc + 1
  OBVIOUS
<1>2. PICK h : h = add_plant(g, owner, type, scale)
  OBVIOUS
<1>3. PICK nft, plant :
          h = [g EXCEPT !.alloc = id, !.nfts = Put(@, id, nft), !.plants = Put(@, id, plant)]
  BY <1>1, <1>2 DEF add_plant
<1>4. DOMAIN g = Field
  BY DEF Sound, Books, Wallets
<1>5. /\ h.alloc = id /\ h.bal = g.bal /\ h.callbacks = g.callbacks
      /\ h.nfts = Put(g.nfts, id, nft) /\ h.plants = Put(g.plants, id, plant)
  BY <1>3, <1>4 DEF Field
<1>6. DOMAIN h.nfts = DOMAIN g.nfts \cup {id} /\ DOMAIN h.plants = DOMAIN g.plants \cup {id}
  BY <1>5 DEF Put
<1>7. id \notin DOMAIN g.nfts
  <2>1. \A n \in DOMAIN g.nfts : n \in 1..g.alloc
    BY DEF Sound, Registry, Holder
  <2>2. g.alloc \in Nat
    BY DEF Sound, Books, Wallets
  <2>3. id \notin 1..g.alloc
    BY <1>1, <2>2
  <2>4. QED BY <2>1, <2>3
<1>8. Lockup(h) = Lockup(g)
  BY <1>6, <1>7 DEF Lockup
<1>9. \A x : Calm(g, h, x)
  BY <1>5, SameIsCalm
<1>10. QED BY <1>2, <1>5, <1>6, <1>8, <1>9 DEF Shuns

\* A plant is paid for to the plant itself.
LEMMA pay_billShuns ==
    ASSUME NEW g, Sound(g), NEW owner \in UserIds(g), NEW type \in PlantType,
           NEW scale \in Nat
    PROVE  Shuns(g, pay_bill(g, owner, type, scale))
<1> DEFINE Pay(h, i) == transfer(h, Material(type, i), owner, h.alloc,
                                 Quantity(type, scale, i))
           Good(h) == /\ Build(g, h, owner) /\ Shuns(g, h) /\ h.alloc \in Holder(h)
                      /\ h.alloc \in DOMAIN h.plants
<1>1. PICK p : p = add_plant(g, owner, type, scale)
  OBVIOUS
<1>2. Good(p)
  BY <1>1, add_plantFacts, add_plantShuns
<1>3. ASSUME NEW h, Good(h), NEW i \in Bill PROVE Good(Pay(h, i))
  <2>1. Sound(h) /\ owner \in UserIds(h)
    BY <1>3, BuildFacts
  <2>2. PICK t, n, to, k : /\ t = Material(type, i) /\ n = Quantity(type, scale, i)
                           /\ to = h.alloc /\ k = Pay(h, i)
    OBVIOUS
  <2>3. Build(h, k, owner) /\ k.alloc \in Holder(k)
    BY <1>3, <2>1, <2>2, PayFacts
  <2>4. t \in DOMAIN h.bal /\ owner \notin Lockup(h) /\ to \notin Lockup(h) /\ n \in Nat
    <3>1. t \in DOMAIN h.bal /\ n \in Nat
      BY <2>1, <2>2, MaterialsExist, BillFacts
    <3>2. owner \notin Lockup(h)
      BY <2>1, LockupFacts
    <3>3. to \notin Lockup(h)
      BY <1>3, <2>2 DEF Lockup
    <3>4. QED BY <3>1, <3>2, <3>3
  <2>5. k = transfer(h, t, owner, to, n)
    BY <2>2
  <2>6. Shuns(h, k)
    BY <2>1, <2>4, <2>5, TransferShuns
  <2>7. k.alloc = h.alloc /\ DOMAIN h.plants \subseteq DOMAIN k.plants
    <3>1. owner \in Holder(h) /\ owner \in Mine(h, owner) /\ to \in Holder(h)
      BY <1>3, <2>1, <2>2, OwnedFacts DEF Sound, Mine
    <3>2. k.alloc = h.alloc
      BY <2>1, <2>4, <2>5, <3>1, TransferIsMove
    <3>3. QED BY <2>3, <3>2 DEF Build, Move
  <2>8. Build(g, k, owner)
    BY <1>3, <2>3, BuildTrans
  <2>9. Shuns(g, k)
    BY <1>3, <2>6, ShunsTrans
  <2>10. QED BY <1>3, <2>2, <2>3, <2>7, <2>8, <2>9
<1> HIDE DEF Good, Pay
<1>4. 1 \in Bill /\ 2 \in Bill /\ 3 \in Bill
  BY DEF Bill
<1>5. PICK p1 : p1 = Pay(p, 1) /\ Good(p1)
  BY <1>2, <1>3, <1>4
<1>6. PICK p2 : p2 = Pay(p1, 2) /\ Good(p2)
  BY <1>3, <1>4, <1>5
<1>7. PICK p3 : p3 = Pay(p2, 3) /\ Good(p3)
  BY <1>3, <1>4, <1>6
<1>8. pay_bill(g, owner, type, scale) = p3
  BY <1>1, <1>5, <1>6, <1>7 DEF pay_bill, OverBill, Pay
<1>9. QED BY <1>7, <1>8 DEF Good

\* Building a plant has no part in a lockup.
LEMMA mint_power_plantShuns ==
    ASSUME NEW g, Sound(g), NEW owner \in UserIds(g), NEW m,
           m.plant_type \in PlantType, m.scale \in Nat
    PROVE  Shuns(g, mint_power_plant(g, m, owner).game)
<1>1. PICK h : h = pay_bill(g, owner, m.plant_type, m.scale)
  OBVIOUS
<1>2. Shuns(g, h)
  BY <1>1, pay_billShuns
<1>3. \/ mint_power_plant(g, m, owner) = Done(h)
      \/ mint_power_plant(g, m, owner) = Refused(g, "insufficient")
  BY <1>1 DEF mint_power_plant
<1>4. mint_power_plant(g, m, owner).game \in {g, h}
  BY <1>3, DoneFacts
<1>5. QED BY <1>2, <1>4, ShunsRefl

\* The purchases of a SuperMint have no part in a lockup.
LEMMA BuyMaterialsShuns ==
    ASSUME NEW g, Sound(g), NEW m, m.plant_type \in PlantType, m.scale \in Nat,
           NEW from \in UserIds(g)
    PROVE  Shuns(g, BuyMaterials(g, m, from).game)
<1> DEFINE Buy(o, i) ==
               IF o.out # "ok" THEN o
               ELSE do_buy_trade(o.game, <<Material(m.plant_type, i), btc>>,
                        Quantity(m.plant_type, m.scale, i), 0, NoCap, FALSE, from)
           Good(o) == Played(g, o, from) /\ Shuns(g, o.game)
<1>1. PICK o0 : o0 = Done(g)
  OBVIOUS
<1>2. Good(o0)
  <2>1. o0.game = g /\ o0.out = "ok"
    BY <1>1, DoneFacts
  <2>2. QED BY <2>1, IdleIsBuild, ShunsRefl DEF Played, MoveOut
<1>3. ASSUME NEW o, Good(o), NEW i \in Bill PROVE Good(Buy(o, i))
  <2>1. CASE o.out # "ok"
    BY <1>3, <2>1
  <2>2. CASE o.out = "ok"
    <3>1. PICK h, t, n : /\ h = o.game /\ t = Material(m.plant_type, i)
                         /\ n = Quantity(m.plant_type, m.scale, i)
      OBVIOUS
    <3>2. Build(g, h, from)
      BY <1>3, <3>1 DEF Played
    <3>3. Sound(h) /\ from \in UserIds(h)
      BY <3>2, BuildFacts
    <3>4. n \in Nat /\ 0 \in Nat
      BY <3>1, BillFacts
    <3>5. t \in DOMAIN h.bal /\ btc \in DOMAIN h.bal
      BY <3>1, <3>3, MaterialsExist
    <3>6. PICK pair : pair = <<t, btc>>
      OBVIOUS
    <3>7. pair \in (DOMAIN h.bal) \X (DOMAIN h.bal)
      BY <3>5, <3>6
    <3>8. PICK b : b = Buy(o, i)
      OBVIOUS
    <3>9. b = DoTrade(h, pair, n, 0, FALSE, NoCap, FALSE, from)
      BY <2>2, <3>1, <3>6, <3>8 DEF do_buy_trade
    <3>10. FALSE \in BOOLEAN
      OBVIOUS
    <3>11. Played(h, DoTrade(h, pair, n, 0, FALSE, NoCap, FALSE, from), from)
      BY <3>3, <3>4, <3>7, <3>10, TradeIsPlayed
    <3>12. Shuns(h, DoTrade(h, pair, n, 0, FALSE, NoCap, FALSE, from).game)
      BY <3>3, <3>4, <3>7, <3>10, TradeShuns
    <3>13. Played(h, b, from) /\ Shuns(h, b.game)
      BY ONLY <3>9, <3>11, <3>12
    <3>14. Shuns(g, b.game)
      BY <1>3, <3>1, <3>13, ShunsTrans
    <3>15. Played(g, b, from)
      BY <3>2, <3>13, BuildTrans DEF Played
    <3>16. QED BY <3>8, <3>14, <3>15
  <2>3. QED BY <2>1, <2>2
<1> HIDE DEF Buy, Good
<1>4. 1 \in Bill /\ 2 \in Bill /\ 3 \in Bill
  BY DEF Bill
<1>5. PICK o1 : o1 = Buy(o0, 1) /\ Good(o1)
  BY <1>2, <1>3, <1>4
<1>6. PICK o2 : o2 = Buy(o1, 2) /\ Good(o2)
  BY <1>3, <1>4, <1>5
<1>7. PICK o3 : o3 = Buy(o2, 3) /\ Good(o3)
  BY <1>3, <1>4, <1>6
<1>8. BuyMaterials(g, m, from) = o3
  BY <1>1, <1>5, <1>6, <1>7 DEF BuyMaterials, OverBill, Buy
<1>9. QED BY <1>7, <1>8 DEF Good

\* A SuperMint has no part in a lockup.
LEMMA super_mintShuns ==
    ASSUME NEW g, Sound(g), NEW m, m.plant_type \in PlantType, m.scale \in Nat,
           NEW from \in UserIds(g)
    PROVE  Shuns(g, super_mint(g, m, from).game)
<1>1. PICK bought, estimate, o : /\ bought = BuyMaterials(g, m, from)
                                 /\ estimate = estimate_materials_cost(g, m, from)
                                 /\ o = super_mint(g, m, from)
  OBVIOUS
<1>2. PICK h : h = bought.game
  OBVIOUS
<1>3. Played(g, bought, from) /\ estimate.game = g
  BY <1>1, BuyMaterialsFacts, EstimateFacts
<1>4. Shuns(g, h)
  BY <1>1, <1>2, BuyMaterialsShuns
<1>5. Sound(h) /\ from \in UserIds(h)
  BY <1>2, <1>3, BuildFacts DEF Played
<1>6. Shuns(h, mint_power_plant(h, m, from).game)
  BY <1>5, mint_power_plantShuns
<1>7. \/ o = estimate
      \/ o = Refused(g, "insufficient")
      \/ o = Refused(h, "expect")
      \/ o = mint_power_plant(h, m, from)
  BY <1>1, <1>2 DEF super_mint
<1>8. o.game = g \/ o.game = h \/ o.game = mint_power_plant(h, m, from).game
  BY <1>3, <1>7, DoneFacts
<1>9. QED BY <1>1, <1>4, <1>6, <1>8, ShunsRefl, ShunsTrans

\* What has no part in a lockup leaves its coins with their release.
LEMMA ShunsGuarded ==
    ASSUME NEW g, Guarded(g), NEW h, Shuns(g, h), h.setup = g.setup
    PROVE  Guarded(h)
<1>1. Scheduled(h) = Scheduled(g) /\ Lockup(h) = Lockup(g)
  BY DEF Shuns, Scheduled
<1>2. ASSUME NEW x \in Lockup(g), NEW t \in DOMAIN h.bal, balance_check(h, t, x) > 0
      PROVE  Release(x, t) \in Scheduled(g) \/ Target(g.setup, x)
  <2>1. Calm(g, h, x)
    BY DEF Shuns
  <2>2. t \in DOMAIN g.bal /\ balance_check(g, t, x) > 0
    BY <1>2, <2>1 DEF Calm
  <2>3. QED BY <2>2 DEF Guarded
<1>3. QED BY <1>1, <1>2 DEF Guarded

\* An NFT that is sold remains the lockup or the plant that it was.
LEMMA purchaseShuns ==
    ASSUME NEW g, Sound(g), NEW from \in UserIds(g), NEW m, m.nft \in DOMAIN g.nfts
    PROVE  Shuns(g, purchase(g, m, from))
<1> DEFINE sale == g.nft_sales[m.nft]
<1>1. PICK n, seller, t, k : /\ n = m.nft /\ seller = g.nfts[n].owner
                             /\ t = sale.currency /\ k = sale.price
  OBVIOUS
<1>2. PICK paid : paid = transfer(g, t, from, seller, k)
  OBVIOUS
<1>3. PICK given : given = nft_transfer(paid, n, from)
  OBVIOUS
<1>4. PICK h : h = [given EXCEPT !.nft_sales = Restrict(@, DOMAIN @ \ {n})]
  OBVIOUS
<1>5. \/ purchase(g, m, from) = g
      \/ Acceptable(g, m) /\ purchase(g, m, from) = h
  BY <1>1, <1>2, <1>3, <1>4 DEF purchase
<1>6. CASE Acceptable(g, m) /\ purchase(g, m, from) = h
  <2>1. n \in DOMAIN g.nft_sales
    BY <1>1, <1>6 DEF Acceptable
  <2>2. t \in DOMAIN g.bal /\ k \in Nat
    BY <1>1, <2>1 DEF Sound, Registry
  <2>3. seller \in UserIds(g)
    BY <1>1 DEF Sound, Registry
  <2>4. from \notin Lockup(g) /\ seller \notin Lockup(g)
    BY <2>3, LockupFacts
  <2>5. Shuns(g, paid)
    BY <1>2, <2>2, <2>4, TransferShuns
  <2>6. DOMAIN paid = Field
    <3>1. seller \in Holder(g) /\ from \in Holder(g) /\ from \in Mine(g, from)
      BY <2>3, OwnedFacts DEF Sound, Registry, Mine
    <3>2. Move(g, paid, from)
      BY <1>2, <2>2, <3>1, TransferIsMove
    <3>3. QED BY <3>2 DEF Move, Sound, Books, Wallets
  <2>7. /\ given.bal = paid.bal /\ given.callbacks = paid.callbacks
        /\ given.plants = paid.plants /\ DOMAIN given = Field
        /\ DOMAIN given.nfts = DOMAIN paid.nfts
    BY <1>3, <2>6 DEF nft_transfer, Field
  <2>8. /\ h.bal = given.bal /\ h.callbacks = given.callbacks
        /\ h.plants = given.plants /\ h.nfts = given.nfts
    BY <1>4, <2>7 DEF Field
  <2>9. h.bal = paid.bal /\ h.callbacks = paid.callbacks /\ Lockup(h) = Lockup(paid)
    BY <2>7, <2>8 DEF Lockup
  <2>10. \A x : Calm(paid, h, x)
    BY <2>9, SameIsCalm
  <2>11. Shuns(paid, h)
    BY <2>9, <2>10 DEF Shuns
  <2>12. QED BY <1>6, <2>5, <2>11, ShunsTrans
<1>7. QED BY <1>5, <1>6, ShunsRefl

\* A listing has no part in a lockup, also when it is the lockup's.
LEMMA list_nftShuns ==
    ASSUME NEW g, Sound(g), NEW from, NEW m
    PROVE  Shuns(g, list_nft(g, m, from))
<1>1. PICK h : h = list_nft(g, m, from)
  OBVIOUS
<1>2. h.bal = g.bal /\ h.callbacks = g.callbacks /\ h.nfts = g.nfts /\ h.plants = g.plants
  <2>1. h = g \/ \E s : h = [g EXCEPT !.nft_sales = s]
    BY <1>1 DEF list_nft
  <2>2. DOMAIN g = Field
    BY DEF Sound, Books, Wallets
  <2>3. QED BY <2>1, <2>2 DEF Field
<1>3. \A x : Calm(g, h, x)
  BY <1>2, SameIsCalm
<1>4. QED BY <1>1, <1>2, <1>3 DEF Shuns, Lockup

\* Coins that are sent to a lockup, are sent there by a player of the setup.
LEMMA SendGuarded ==
    ASSUME NEW g, Sound(g), Guarded(g), NEW t \in DOMAIN g.bal, NEW from \in UserIds(g),
           NEW to, NEW n, to \in Lockup(g) => Target(g.setup, to)
    PROVE  Guarded(transfer(g, t, from, to, n))
<1>1. PICK h : h = transfer(g, t, from, to, n)
  OBVIOUS
<1>2. DOMAIN g = Field
  BY DEF Sound, Books, Wallets
<1>3. \A x : x # from /\ x # to => Pays(g, h, x)
  BY <1>1, <1>2, TransferPays
<1>4. \E x \in {0, 1, 2} : x # from /\ x # to
  BY 0 # 1, 0 # 2, 1 # 2
<1>5. /\ h.callbacks = g.callbacks /\ h.nfts = g.nfts /\ h.plants = g.plants
      /\ h.setup = g.setup /\ DOMAIN h.bal = DOMAIN g.bal
  <2>1. PICK x : Pays(g, h, x)
    BY <1>3, <1>4
  <2>2. QED BY <2>1 DEF Pays, Field
<1>6. Scheduled(h) = Scheduled(g) /\ Lockup(h) = Lockup(g)
  BY <1>5 DEF Scheduled, Lockup
<1>7. ASSUME NEW x \in Lockup(g), NEW u \in DOMAIN g.bal, balance_check(h, u, x) > 0
      PROVE  Release(x, u) \in Scheduled(g) \/ Target(g.setup, x)
  <2>1. CASE x = to
    BY <2>1
  <2>2. CASE x # to
    <3>1. x # from
      BY LockupFacts
    <3>2. balance_check(h, u, x) = balance_check(g, u, x)
      BY <1>3, <2>2, <3>1 DEF Pays
    <3>3. QED BY <1>7, <3>2 DEF Guarded
  <2>3. QED BY <2>1, <2>2
<1>8. Guarded(h)
  BY <1>5, <1>6, <1>7 DEF Guarded
<1>9. QED BY <1>1, <1>8

\* The coins locked up are those whose release is scheduled.
LEMMA lockupGuarded ==
    ASSUME NEW g, Sound(g), Guarded(g), NEW m, m.nft \in DOMAIN g.plants,
           m.currency \in DOMAIN g.bal, m.amount \in Nat, NEW from \in UserIds(g)
    PROVE  Guarded(lockup(g, m.nft, from, m))
<1>1. PICK id, nft, t, k, plant : /\ id = g.alloc + 1 /\ t = m.currency /\ k = m.amount
                /\ plant = m.nft /\ nft = [owner |-> from, transfer_count |-> NonTransferrable]
  OBVIOUS
<1>2. PICK made : made = [g EXCEPT !.alloc = id, !.nfts = Put(@, id, nft)]
  OBVIOUS
<1>3. PICK s : s = schedule(made, 1, Release(id, t))
  OBVIOUS
<1>4. PICK h : h = transfer(s, t, plant, id, k)
  OBVIOUS
<1>5. lockup(g, m.nft, from, m) = h
  BY <1>1, <1>2, <1>3, <1>4 DEF lockup, Release
<1>6. DOMAIN g = Field /\ g.alloc \in Nat
  BY DEF Sound, Books, Wallets
<1>7. /\ DOMAIN made = Field /\ made.bal = g.bal /\ made.callbacks = g.callbacks
      /\ made.setup = g.setup /\ made.plants = g.plants /\ made.nfts = Put(g.nfts, id, nft)
      /\ made.alloc = id
      /\ \A x \in {"total", "markets", "users", "nft_sales", "seq", "ticks", "elapsed"} :
            made[x] = g[x]
  BY <1>2, <1>6 DEF Field
<1>8. id \notin Holder(g)
  BY <1>1, <1>6 DEF Holder
<1>9. /\ DOMAIN made.nfts = DOMAIN g.nfts \cup {id}
      /\ \A x \in DOMAIN g.nfts : x # id => made.nfts[x] = g.nfts[x]
      /\ made.nfts[id].owner = from
  BY <1>1, <1>7 DEF Put
<1>10. Sound(made) /\ id \in Lockup(made)
  <2>1. NewNft(g, made, from)
    BY <1>1, <1>7, <1>9 DEF NewNft, NewId
  <2>2. QED BY <1>7, <2>1, NewNftFacts DEF Move
<1>11. Lockup(made) = Lockup(g) \cup {id} /\ plant \notin Lockup(made)
  <2>1. id \notin DOMAIN g.plants
    BY <1>8 DEF Sound, Registry
  <2>2. QED BY <1>1, <1>7, <1>9, <2>1 DEF Lockup
<1>12. Release(id, t) \in Event(made)
  BY <1>1, <1>7, <1>10, ReleaseIsEvent
<1>13. /\ EventStep(made, s) /\ AgendaStep(made, s)
       /\ Added(made.callbacks, s.callbacks, 1, Release(id, t))
  BY <1>3, <1>10, <1>12, 1 \in Nat, ScheduleFacts
<1>14. Scheduled(g) \subseteq Scheduled(s) /\ Release(id, t) \in Scheduled(s)
  <2>1. Agenda(made)
    BY <1>10 DEF Sound
  <2>2. Scheduled(made) \subseteq Scheduled(s) /\ Release(id, t) \in Scheduled(s)
    BY <1>13, <2>1, AddedKeeps
  <2>3. QED BY <1>7, <2>2 DEF Scheduled
<1>15. s.bal = made.bal /\ Kept(made, s) /\ Sound(s)
  BY <1>10, <1>13, AgendaStepFacts DEF Sound, EventStep
<1>16. DOMAIN s = Field /\ t \in DOMAIN s.bal
  BY <1>1, <1>7, <1>15 DEF Sound, Books, Wallets
<1>17. \A x : x # plant /\ x # id => Pays(s, h, x)
  BY <1>4, <1>16, TransferPays
<1>18. \E x \in {0, 1, 2} : x # plant /\ x # id
  BY 0 # 1, 0 # 2, 1 # 2
<1>19. /\ h.callbacks = s.callbacks /\ h.nfts = s.nfts /\ h.plants = s.plants
       /\ h.setup = s.setup /\ DOMAIN h.bal = DOMAIN s.bal
  <2>1. PICK x : Pays(s, h, x)
    BY <1>17, <1>18
  <2>2. QED BY <2>1 DEF Pays, Field
<1>20. /\ Scheduled(h) = Scheduled(s) /\ Lockup(h) = Lockup(g) \cup {id}
       /\ h.setup = g.setup /\ DOMAIN h.bal = DOMAIN g.bal
  BY <1>7, <1>11, <1>15, <1>19 DEF Scheduled, Lockup, Kept
<1>21. ASSUME NEW x \in Lockup(g), NEW u \in DOMAIN g.bal, balance_check(h, u, x) > 0
       PROVE  Release(x, u) \in Scheduled(s) \/ Target(g.setup, x)
  <2>1. x # id /\ x # plant
    <3>1. x \in Holder(g)
      BY LockupFacts
    <3>2. QED BY <1>1, <1>8, <3>1 DEF Lockup
  <2>2. balance_check(h, u, x) = balance_check(s, u, x)
    BY <1>7, <1>15, <1>17, <2>1 DEF Pays
  <2>3. balance_check(s, u, x) = balance_check(g, u, x)
    BY <1>7, <1>15 DEF balance_check
  <2>4. QED BY <1>14, <1>21, <2>2, <2>3 DEF Guarded
<1>22. ASSUME NEW u \in DOMAIN g.bal, balance_check(h, u, id) > 0
       PROVE  Release(id, u) \in Scheduled(s)
  <2>1. CASE u = t
    BY <1>14, <2>1
  <2>2. CASE u # t
    <3>1. balance_check(h, u, id) = balance_check(s, u, id)
      <4>1. Wallets(s) /\ k \in Nat /\ u \in DOMAIN s.bal
        BY <1>1, <1>7, <1>15 DEF Sound, Books
      <4>2. plant \in 1..s.alloc /\ id \in 1..s.alloc
        <5>1. s.alloc = id
          BY <1>7, <1>10, <1>13, AgendaStepFacts DEF Sound
        <5>2. plant \in 1..g.alloc
          BY <1>1 DEF Sound, Registry, Holder
        <5>3. QED BY <1>1, <1>6, <5>1, <5>2
      <4>3. balance_check(h, u, id) =
                balance_check(s, u, id) + Moved(s, t, plant, id, k, u, id)
        BY <1>4, <1>16, <4>1, <4>2, TransferFacts
      <4>4. Moved(s, t, plant, id, k, u, id) = 0
        BY <2>2 DEF Moved
      <4>5. balance_check(s, u, id) \in Nat
        BY <4>1, BalanceFacts
      <4>6. QED BY <4>3, <4>4, <4>5
    <3>2. balance_check(s, u, id) = 0
      <4>1. id \notin DOMAIN g.bal[u]
        <5>1. Wallets(g)
          BY DEF Sound, Books
        <5>2. PICK accounts : accounts = DOMAIN g.bal[u]
          OBVIOUS
        <5>3. accounts \subseteq 1..g.alloc
          BY <5>1, <5>2 DEF Wallets
        <5>4. QED BY <1>1, <1>6, <5>2, <5>3
      <4>2. QED BY <1>7, <1>15, <4>1 DEF balance_check
    <3>3. QED BY <1>22, <3>1, <3>2
  <2>3. QED BY <2>1, <2>2
<1>23. Guarded(h)
  BY <1>20, <1>21, <1>22 DEF Guarded
<1>24. QED BY <1>5, <1>23

\* The setup of a game stays.
LEMMA MoveKeepsSetup ==
    ASSUME NEW g, NEW h, NEW from, Move(g, h, from)
    PROVE  h.setup = g.setup
BY DEF Move, SameClock

\* Whatever the move, coins in a lockup have a release scheduled after it.
LEMMA PlayInnerGuarded ==
    ASSUME NEW g, Sound(g), Guarded(g), NEW m \in Variant, sanitize(g, m),
           NEW from \in UserIds(g), m.kind = "send" => m \in Setup[g.setup].moves
    PROVE  Guarded(play_inner(g, m, from).game)
<1>1. PICK o : o = play_inner(g, m, from)
  OBVIOUS
<1>2. o.game.setup = g.setup
  <2>1. Result(g, o, from)
    BY <1>1, PlayInnerFacts
  <2>2. QED BY <2>1, MoveKeepsSetup DEF Result
<1>3. ASSUME Shuns(g, o.game) PROVE Guarded(o.game)
  BY <1>2, <1>3, ShunsGuarded
<1>4. CASE m.kind \in {"heartbeat", "chat"}
  <2>1. o = Done(g)
    BY <1>1, <1>4 DEF play_inner
  <2>2. o.game = g
    BY <2>1, DoneFacts
  <2>3. QED BY <1>1, <2>2
<1>5. CASE m.kind = "trade"
  <2>1. o = DoTrade(g, m.pair, m.amount_a, m.amount_b, m.sell, m.cap, FALSE, from)
    BY <1>1, <1>5 DEF play_inner
  <2>2. PICK pair, a, b, sell, cap : /\ pair = m.pair /\ a = m.amount_a /\ b = m.amount_b
                                     /\ sell = m.sell /\ cap = m.cap
    OBVIOUS
  <2>3. {pair[1], pair[2]} \subseteq DOMAIN g.bal
    BY <1>5, <2>2 DEF sanitize
  <2>4. pair \in Nat \X Nat /\ a \in Nat /\ b \in Nat /\ sell \in BOOLEAN
    BY <1>5, <2>2, VariantFacts
  <2>5. pair \in (DOMAIN g.bal) \X (DOMAIN g.bal)
    BY <2>3, <2>4
  <2>6. Shuns(g, DoTrade(g, pair, a, b, sell, cap, FALSE, from).game)
    BY <2>4, <2>5, TradeShuns
  <2>7. QED BY <1>1, <1>3, <2>1, <2>2, <2>6
<1>6. CASE m.kind = "mint"
  <2>1. o = mint_power_plant(g, m, from)
    BY <1>1, <1>6 DEF play_inner
  <2>2. QED BY <1>1, <1>3, <1>6, <2>1, VariantFacts, mint_power_plantShuns
<1>7. CASE m.kind = "super_mint"
  <2>1. o = super_mint(g, m, from)
    BY <1>1, <1>7 DEF play_inner
  <2>2. QED BY <1>1, <1>3, <1>7, <2>1, VariantFacts, super_mintShuns
<1>8. CASE m.kind = "purchase"
  <2>1. PICK h : h = purchase(g, m, from)
    OBVIOUS
  <2>2. o = Done(h)
    BY <1>1, <1>8, <2>1 DEF play_inner
  <2>3. m.nft \in DOMAIN g.nfts
    BY <1>8 DEF sanitize
  <2>4. Shuns(g, h) /\ o.game = h
    BY <2>1, <2>2, <2>3, DoneFacts, purchaseShuns
  <2>5. QED BY <1>1, <1>3, <2>4
<1>9. CASE m.kind = "list"
  <2>1. PICK h : h = list_nft(g, m, from)
    OBVIOUS
  <2>2. o = Done(h)
    BY <1>1, <1>9, <2>1 DEF play_inner
  <2>3. Shuns(g, h) /\ o.game = h
    BY <2>1, <2>2, DoneFacts, list_nftShuns
  <2>4. QED BY <1>1, <1>3, <2>3
<1>10. CASE m.kind = "send"
  <2>1. PICK t, to, k, h : /\ t = m.currency /\ to = m.to /\ k = m.amount
                           /\ h = transfer(g, t, from, to, k)
    OBVIOUS
  <2>2. o = Done(h)
    BY <1>1, <1>10, <2>1 DEF play_inner
  <2>3. t \in DOMAIN g.bal
    BY <1>10, <2>1 DEF sanitize
  <2>4. Target(g.setup, to)
    BY <1>10, <2>1 DEF Target
  <2>5. Guarded(h)
    BY <2>1, <2>3, <2>4, SendGuarded
  <2>6. o.game = h
    BY <2>2, DoneFacts
  <2>7. QED BY <1>1, <2>5, <2>6
<1>11. CASE m.kind = "remove"
  <2>1. o = remove_tokens(g, m, from)
    BY <1>1, <1>11 DEF play_inner
  <2>2. m.nft \in DOMAIN g.nfts /\ m.currency \in DOMAIN g.bal /\ m.amount \in Nat
    BY <1>11, VariantFacts DEF sanitize
  <2>3. PICK h : h = lockup(g, m.nft, from, m)
    OBVIOUS
  <2>4. \/ o = Done(g) \/ o = Refused(g, "panic")
        \/ m.nft \in DOMAIN g.plants /\ o = Done(h)
    BY <2>1, <2>3 DEF remove_tokens
  <2>5. o.game = g \/ (m.nft \in DOMAIN g.plants /\ o.game = h)
    BY <2>4, DoneFacts
  <2>6. CASE m.nft \in DOMAIN g.plants /\ o.game = h
    BY <1>1, <2>2, <2>3, <2>6, lockupGuarded
  <2>7. QED BY <1>1, <2>5, <2>6
<1>12. QED BY <1>4, <1>5, <1>6, <1>7, <1>8, <1>9, <1>10, <1>11, VariantFacts

\* So they have after the clock, the events due and the move (game/mod.rs, play).
LEMMA PlayGuarded ==
    ASSUME NEW g, Sound(g), Guarded(g), NEW from \in UserIds(g), NEW sequence,
           NEW time \in Nat, NEW m \in Variant, sanitize(g, m),
           m.kind = "send" => m \in Setup[g.setup].moves
    PROVE  Guarded(play_inner(process_ticks(SetSequence(g, from, sequence), from, time),
                              m, from).game)
<1>1. PICK c, r : c = Before(g, from, sequence, time) /\ r = run(c)
  OBVIOUS
<1>2. process_ticks(SetSequence(g, from, sequence), from, time) = r
  BY <1>1 DEF process_ticks, Before
<1>3. ClockStep(g, c) /\ Sound(c) /\ EventStep(c, r)
  BY <1>1, BeforeFacts DEF Before
<1>4. Guarded(r)
  <2>1. Guarded(c)
    BY <1>3, ClockGuarded
  <2>2. QED BY <1>1, <1>3, <2>1, RunGuarded
<1>5. /\ UserIds(c) = UserIds(g) /\ c.nfts = g.nfts /\ DOMAIN g.bal \subseteq DOMAIN c.bal
      /\ c.setup = g.setup
  BY <1>3, ClockFacts, SameLedgerFacts DEF ClockStep, Grows, Sound
<1>6. /\ UserIds(r) = UserIds(c) /\ r.nfts = c.nfts /\ DOMAIN c.bal \subseteq DOMAIN r.bal
      /\ r.setup = c.setup /\ Sound(r)
  BY <1>3 DEF EventStep, Kept, Grows, UserIds
<1>7. sanitize(r, m) /\ from \in UserIds(r) /\ r.setup = g.setup
  BY <1>5, <1>6, StillSane
<1>8. Guarded(play_inner(r, m, from).game)
  BY <1>4, <1>6, <1>7, PlayInnerGuarded
<1>9. QED BY <1>2, <1>8

-----------------------------------------------------------------------------
(* The lockups' invariant *)

\* The coins' part of the invariant
LockInv == Guarded(game)

\* No coins are locked up at first.
LEMMA LockHolds == Init => LockInv
<1> SUFFICES ASSUME Init PROVE LockInv
  OBVIOUS
<1>1. PICK setup \in DOMAIN Setup : game = new_game(setup)
  BY DEF Init
<1>2. Guarded(new_game(setup))
  BY new_gameGuarded
<1>3. QED BY <1>1, <1>2 DEF LockInv

\* Every step keeps the lockups' invariant.
LEMMA LockStays == BoardInv /\ LockInv /\ [Next]_vars => LockInv'
<1> SUFFICES ASSUME BoardInv, LockInv, [Next]_vars PROVE LockInv'
  OBVIOUS
<1>1. PICK g, h : g = game /\ h = game'
  OBVIOUS
<1>2. Sound(g) /\ Guarded(g)
  BY <1>1 DEF BoardInv, LockInv
<1>3. SUFFICES Guarded(h)
  BY <1>1 DEF LockInv
<1>4. CASE UNCHANGED vars
  BY <1>1, <1>2, <1>4 DEF vars
<1>5. CASE IdleStep
  BY <1>1, <1>2, <1>5 DEF IdleStep
<1>6. CASE NumberStep
  <2>1. ClockStep(g, h)
    BY <1>1, <1>6 DEF NumberStep
  <2>2. QED BY <1>2, <2>1, ClockGuarded
<1>7. CASE PlaysMove
  <2>0. PICK from \in UserIds(game) : \E n : \E m \in MovesAt(from, n) :
                \E time \in Nat : play(from, n, time, m)
    BY <1>7 DEF PlaysMove
  <2>1. PICK n : \E m \in MovesAt(from, n) : \E time \in Nat : play(from, n, time, m)
    BY <2>0
  <2>2. PICK m \in MovesAt(from, n), time \in Nat : play(from, n, time, m)
    BY <2>1
  <2>3. m \in Variant
    BY <1>1, <1>2, MovesAreVariants
  <2>4. m.kind = "send" => m \in Setup[g.setup].moves
    BY <1>1 DEF MovesAt
  <2>5. /\ sanitize(g, m) /\ from \in UserIds(g)
        /\ h = play_inner(process_ticks(SetSequence(g, from, n), from, time), m, from).game
    BY <1>1, <2>2 DEF play
  <2>6. Guarded(play_inner(process_ticks(SetSequence(g, from, n), from, time),
                           m, from).game)
    BY <1>2, <2>3, <2>4, <2>5, PlayGuarded
  <2>7. QED BY <2>5, <2>6
<1>8. CASE QueryStep
  <2>1. PICK pair \in (DOMAIN g.bal) \X (DOMAIN g.bal) : h = ensure(g, pair)
    BY <1>1, <1>8 DEF QueryStep, Opens
  <2>2. /\ Move(g, h, 0) /\ h.callbacks = g.callbacks /\ h.nfts = g.nfts
        /\ h.plants = g.plants
    BY <1>2, <2>1, OpensFacts DEF Opens
  <2>3. \A x : Calm(g, h, x)
    BY <1>2, <2>1, EnsureIsCalm DEF Sound
  <2>4. Shuns(g, h) /\ h.setup = g.setup
    BY <2>2, <2>3 DEF Shuns, Lockup, Move, SameClock
  <2>5. QED BY <1>2, <2>4, ShunsGuarded
<1>9. QED BY <1>4, <1>5, <1>6, <1>7, <1>8, StepKinds

\* The invariant is what the property asks of the lockups.
LEMMA LockReleases == LockInv => LocksAreReleased
<1> SUFFICES ASSUME LockInv PROVE LocksAreReleased
  OBVIOUS
<1>1. ASSUME NEW n \in DOMAIN game.nfts \ DOMAIN game.plants, NEW t \in DOMAIN game.bal,
             balance_check(game, t, n) > 0
      PROVE  \/ [kind |-> "lockup", id |-> n, asset |-> t] \in Scheduled(game)
             \/ Sends(n)
  <2>1. n \in Lockup(game)
    BY DEF Lockup
  <2>2. Release(n, t) \in Scheduled(game) \/ Target(game.setup, n)
    BY <1>1, <2>1 DEF LockInv, Guarded
  <2>3. QED BY <2>2 DEF Release, Target, Sends
<1>2. QED BY <1>1 DEF LocksAreReleased

\* Events are neither lost nor doubled when they reschedule themselves while the
\* registry runs (callbacks.rs, run), and coins in a lockup have a release scheduled
\* unless players send coins there (lockup.rs).
THEOREM EventsAlwaysPersist == Spec => []EventsPersist
<1>1. Spec => []LockInv
  BY Invariant, LockHolds, LockStays, PTL DEF Spec
<1>2. ScheduledOnce /\ NothingOverdue /\ LockInv => EventsPersist
  BY LockReleases DEF EventsPersist
<1>3. QED BY EventsRecur, <1>1, <1>2, PTL
==============================================================================
