--------------------------- MODULE PeerServicesProofs ---------------------------
(***************************************************************************)
(* What PeerServices' run checks on three chains and eight scenarios, proved *)
(* for any chains, settings, faults and interleavings: what a fetch service  *)
(* holds and the hashes that all services skip agree, and a push service     *)
(* never claims more than the peer has.                                      *)
(***************************************************************************)
EXTENDS PeerServices, NaturalsInduction, FiniteSetTheorems, SequenceTheorems,
        WellFoundedInduction, TLAPS

Rows == [rows : SUBSET Envelope, connected : SUBSET Envelope]
FetchService == [main : Main, allow : BOOLEAN, latest : Subtask, processor : Subtask,
                 missing : Subtask, asked : SUBSET Envelope, batches : Seq(Batch),
                 requests : Seq(SUBSET Envelope)]
PushService == [main : Main, allow : BOOLEAN, tracker : Subtask \cup {"locked"},
                claims : SUBSET Envelope, tip_tracker : SUBSET Envelope, notified : BOOLEAN,
                broadcast : Subtask \cup {"notified"}, posting : SUBSET Envelope]

\* A database's connected rows are rows whose ancestors are rows.
Sound(d) == d \in Rows /\ d.connected \subseteq Complete(d.rows)
DbInv == db \in [Node -> Rows] /\ \A n \in Node : Sound(db[n])
Types ==
    /\ fetchers \in [Slot -> FetchService]
    /\ pushers \in [Slot -> PushService]
    /\ settings \in Seq(Service) /\ settings # <<>>
    /\ later \subseteq Envelope /\ faults \in Nat

\* The latest tips that are asked for will be a batch.
Load(f) == Work(f) + IF f.latest = "asked" THEN 1 ELSE 0
\* A service that was not started, or has finished, holds nothing and does nothing.
IsIdle(f) == f.main \in {"none", "finished"} => f = Fetcher(f.main, f.allow, "ended")
\* What a fetch service holds in flight, each hash in one place
Waiting(f) == IF f.missing \in Asking THEN f.asked ELSE {}
Held(f) == Queued(f) \cup Waiting(f)
Once(f) ==
    /\ \A i, j \in DOMAIN f.batches :
          i # j => f.batches[i].inflight \cap f.batches[j].inflight = {}
    /\ Queued(f) \cap Waiting(f) = {}
Fine(f) == f \in FetchService /\ Load(f) <= MaxWork /\ IsIdle(f) /\ Once(f)

\* The hashes that some service holds
Live == inflight \ (released \cup leaked)
InflightInv ==
    /\ inflight \subseteq Envelope /\ released \subseteq inflight /\ leaked \subseteq inflight
    /\ released \cap leaked = {}
    /\ Live = UNION {Held(fetchers[k]) : k \in Slot}
    /\ \A k, l \in Slot : k # l => Held(fetchers[k]) \cap Held(fetchers[l]) = {}

IndInv ==
    /\ DbInv /\ Types /\ InflightInv /\ ClaimsAreTrue
    /\ \A k \in Slot : Fine(fetchers[k])

-----------------------------------------------------------------------------
(* The databases. *)

\* An envelope's ancestors are envelopes, and it is one of them.
LEMMA EnvelopeFacts ==
    ASSUME NEW e \in Envelope
    PROVE  /\ e = <<e[1], e[2]>> /\ height(e) = e[2] /\ height(e) \in Nat
           /\ ancestors(e) \subseteq Envelope /\ e \in ancestors(e)
           /\ genesis(e) \in Envelope /\ genesis(e) \in ancestors(e)
           /\ height(e) > 0 => prev_msg(e) \in Envelope
<1>1. e = <<e[1], e[2]>> /\ e[2] \in Nat /\ \A h \in 0..e[2] : <<e[1], h>> \in Envelope
  BY ServicesAssumption
<1>2. 0 \in 0..e[2] /\ e[2] \in 0..e[2] /\ (e[2] > 0 => e[2] - 1 \in 0..e[2])
  BY <1>1
<1>3. ancestors(e) \subseteq Envelope
  BY <1>1 DEF ancestors
<1>4. e \in ancestors(e) /\ <<e[1], 0>> \in ancestors(e)
  BY <1>1, <1>2, Zenon DEF ancestors
<1>5. QED BY <1>1, <1>2, <1>3, <1>4 DEF height, genesis, prev_msg

\* Try to insert envelopes: a sound database stays sound and loses nothing.
LEMMA InsertFacts ==
    ASSUME NEW d, Sound(d), NEW S \in SUBSET Envelope
    PROVE  /\ Sound(TryInsert(d, S))
           /\ d.rows \subseteq TryInsert(d, S).rows
           /\ d.connected \subseteq TryInsert(d, S).connected
<1> DEFINE new == New(d, S)
           follows(e, f) == /\ f[1] = e[1] /\ height(f) < height(e)
                            /\ \A h \in height(f) + 1..height(e) : <<e[1], h>> \in new
           r == d.rows \cup new
           c == d.connected \cup {e \in new : \E f \in d.connected : follows(e, f)}
<1>1. TryInsert(d, S) = [rows |-> r, connected |-> c]
  BY DEF TryInsert
<1>2. d.rows \subseteq Envelope /\ d.connected \subseteq Envelope
      /\ d.connected \subseteq Complete(d.rows) /\ new \subseteq Envelope
  BY DEF Sound, Rows, New
<1>3. r \subseteq Envelope /\ c \subseteq Envelope
  BY <1>2
<1> HIDE DEF new
<1>4. ASSUME NEW e \in d.connected PROVE e \in Complete(r)
  BY <1>2 DEF Complete
<1>5. ASSUME NEW e \in new, NEW f \in d.connected, follows(e, f) PROVE e \in Complete(r)
  <2>1. ASSUME NEW h \in 0..e[2] PROVE <<e[1], h>> \in r
    <3>1. e[2] \in Nat /\ f[2] \in Nat /\ f \in Complete(d.rows)
      BY <1>2, EnvelopeFacts DEF height
    <3>2. CASE h \in f[2] + 1..e[2]
      BY <1>5, <3>2 DEF height
    <3>3. CASE h \in 0..f[2]
      <4>1. <<f[1], h>> \in ancestors(f)
        BY <3>3 DEF ancestors
      <4>2. <<f[1], h>> \in d.rows
        BY <3>1, <4>1 DEF Complete
      <4>3. QED BY <1>5, <4>2
    <3>4. QED BY <3>1, <3>2, <3>3
  <2>2. ancestors(e) \subseteq r
    BY <2>1 DEF ancestors
  <2>3. QED BY <2>2 DEF Complete
<1>6. c \subseteq Complete(r)
  BY <1>4, <1>5
<1> HIDE DEF r, c
<1>7. Sound([rows |-> r, connected |-> c])
  BY <1>3, <1>6 DEF Sound, Rows
<1>8. d.rows \subseteq r /\ d.connected \subseteq c
  BY DEF r, c
<1>9. QED BY <1>1, <1>7, <1>8

\* A new user's genesis likewise.
LEMMA GenesisFacts ==
    ASSUME NEW d, Sound(d), NEW e \in Envelope, height(e) = 0
    PROVE  /\ Sound(insert_user_by_genesis_envelope(d, e))
           /\ d.rows \subseteq insert_user_by_genesis_envelope(d, e).rows
           /\ d.connected \subseteq insert_user_by_genesis_envelope(d, e).connected
<1> DEFINE r == d.rows \cup {e}
           c == d.connected \cup {e}
<1>1. insert_user_by_genesis_envelope(d, e) = [rows |-> r, connected |-> c]
  BY DEF insert_user_by_genesis_envelope
<1>2. d.rows \subseteq Envelope /\ d.connected \subseteq Complete(d.rows)
      /\ d.connected \subseteq Envelope
  BY DEF Sound, Rows
<1>3. ancestors(e) = {e}
  <2>1. e = <<e[1], 0>> /\ e[2] = 0
    BY EnvelopeFacts
  <2>2. ancestors(e) = {<<e[1], h>> : h \in {0}}
    BY <2>1 DEF ancestors
  <2>3. QED BY <2>1, <2>2
<1>4. c \subseteq Complete(r)
  BY <1>2, <1>3 DEF Complete
<1>5. r \subseteq Envelope /\ c \subseteq Envelope /\ d.rows \subseteq r /\ d.connected \subseteq c
  BY <1>2
<1> HIDE DEF r, c
<1>6. Sound([rows |-> r, connected |-> c])
  BY <1>4, <1>5 DEF Sound, Rows
<1>7. QED BY <1>1, <1>5, <1>6

\* What attach_tips makes of a sound database
LEMMA AttachFacts ==
    ASSUME NEW d, Sound(d)
    PROVE  /\ Sound([d EXCEPT !.connected = Complete(d.rows)])
           /\ d.connected \subseteq Complete(d.rows)
<1>1. d \in Rows /\ Complete(d.rows) \subseteq d.rows
  BY DEF Sound, Complete
<1> DEFINE c == Complete(d.rows)
<1>2. c \subseteq Envelope /\ d.rows \subseteq Envelope
  BY <1>1 DEF Rows
<1> HIDE DEF c
<1>3. [d EXCEPT !.connected = c] \in Rows /\ [d EXCEPT !.connected = c].rows = d.rows
      /\ [d EXCEPT !.connected = c].connected = c
  BY <1>1, <1>2 DEF Rows
<1>4. QED BY <1>3 DEF Sound, c

-----------------------------------------------------------------------------
(* Batches. *)

\* A set with 0 and the successor of each of its numbers has them all.
LEMMA Induction ==
    ASSUME NEW S, 0 \in S, \A n \in Nat : n \in S => n + 1 \in S
    PROVE  Nat \subseteq S
<1> DEFINE T == {n \in Nat : n \notin S}
           R == {p \in Nat \X Nat : p[1] < p[2]}
<1>1. SUFFICES ASSUME T # {} PROVE FALSE
  OBVIOUS
<1>2. IsWellFoundedOn(R, Nat)
  BY NatLessThanWellFounded DEF OpToRel
<1>3. PICK x \in T : \A y \in T : ~(<<y, x>> \in R)
  <2>1. T \subseteq Nat
    OBVIOUS
  <2> HIDE DEF T, R
  <2>2. QED BY ONLY <1>1, <1>2, <2>1, WFMin
<1>4. x # 0 /\ x \in Nat /\ x - 1 \in Nat
  OBVIOUS
<1>5. <<x - 1, x>> \in R
  BY <1>4
<1>6. QED BY <1>3, <1>4, <1>5

\* g iterates the step G, N times, from b.
Iterates(g, b, G, N) == g[0] = b /\ \A k \in 1..N : g[k] = G[k][g[k - 1]]

\* The values of a recursive function up to a bound exist.
LEMMA Recursion ==
    ASSUME NEW D, NEW b \in D, NEW G \in [Nat -> [D -> D]], NEW N \in Nat
    PROVE  \E g \in [0..N -> D] : Iterates(g, b, G, N)
<1> DEFINE Approx(n) == {g \in [0..n -> D] : Iterates(g, b, G, n)}
           S == {n \in Nat : Approx(n) # {}}
<1>1. 0 \in S
  <2>1. [k \in 0..0 |-> b] \in Approx(0)
    BY DEF Iterates
  <2>2. QED BY <2>1
<1>2. ASSUME NEW n \in Nat, n \in S PROVE n + 1 \in S
  <2>1. PICK g : g \in Approx(n)
    BY <1>2
  <2>2. g \in [0..n -> D] /\ g[0] = b /\ \A k \in 1..n : g[k] = G[k][g[k - 1]]
    BY <2>1 DEF Iterates
  <2> DEFINE h == [k \in 0..(n + 1) |-> IF k <= n THEN g[k] ELSE G[n + 1][g[n]]]
  <2>3. g[n] \in D /\ n + 1 \in Nat
    BY <2>2
  <2>4. G[n + 1][g[n]] \in D
    BY <2>3
  <2>5. h \in [0..(n + 1) -> D] /\ h[0] = b
    BY <2>2, <2>4
  <2>6. ASSUME NEW k \in 1..(n + 1) PROVE h[k] = G[k][h[k - 1]]
    <3>1. CASE k = n + 1
      BY <3>1
    <3>2. CASE k \in 1..n
      BY <3>2, <2>2
    <3>3. QED BY <3>1, <3>2
  <2>7. h \in Approx(n + 1)
    <3> HIDE DEF h
    <3>1. QED BY <2>5, <2>6 DEF Iterates
  <2> HIDE DEF Approx
  <2>8. QED BY <2>7
<1>3. N \in S
  <2> HIDE DEF S
  <2>1. QED BY <1>1, <1>2, Induction
<1>4. QED BY <1>3

\* Induction up to a bound: two such functions that agree on b agree.
LEMMA InductionTo ==
    ASSUME NEW N \in Nat, NEW T, 0 \in T, \A k \in 1..N : k - 1 \in T => k \in T
    PROVE  0..N \subseteq T
<1> DEFINE S == {n \in Nat : n <= N => n \in T}
<1>1. 0 \in S
  OBVIOUS
<1>2. ASSUME NEW n \in Nat, n \in S PROVE n + 1 \in S
  <2>1. SUFFICES ASSUME n + 1 <= N PROVE n + 1 \in T
    OBVIOUS
  <2>2. n + 1 \in 1..N /\ (n + 1) - 1 = n /\ n \in T
    BY <2>1, <1>2
  <2>3. QED BY <2>2
<1>3. Nat \subseteq S
  <2> HIDE DEF S
  <2>1. QED BY <1>1, <1>2, Induction
<1>4. QED BY <1>3

\* What handle_envelope has done so far: a sound database, and envelopes it asks for.
Acc == {a \in [db : Rows, tips : SUBSET Envelope] : Sound(a.db)}

\* One envelope of a batch
LEMMA HandleFacts ==
    ASSUME NEW acc \in Acc, NEW e \in Envelope, NEW allow
    PROVE  Handle(acc, e, allow) \in Acc
<1> DEFINE d == IF height(e) = 0 THEN insert_user_by_genesis_envelope(acc.db, e)
                ELSE TryInsert(acc.db, {e})
           x == acc.tips \cup header_tips[e]
                  \cup (IF height(e) > 0 THEN {prev_msg(e)} ELSE {})
                  \cup (IF height(e) > 0 /\ Refused(acc.db, e) /\ allow
                        THEN {genesis(e)} ELSE {})
<1>1. Handle(acc, e, allow) = [db |-> d, tips |-> x]
  BY DEF Handle
<1>2. Sound(acc.db) /\ acc.tips \subseteq Envelope
  BY DEF Acc
<1>3. Sound(d)
  <2>1. {e} \in SUBSET Envelope
    OBVIOUS
  <2>2. CASE height(e) = 0
    BY <1>2, <2>2, GenesisFacts
  <2>3. CASE height(e) # 0
    BY <1>2, <2>1, <2>3, InsertFacts
  <2>4. QED BY <2>2, <2>3
<1>4. x \subseteq Envelope
  <2>1. header_tips[e] \subseteq Envelope
    BY ServicesAssumption
  <2>2. QED BY <1>2, <2>1, EnvelopeFacts
<1> HIDE DEF d, x
<1>5. d \in Rows
  BY <1>3 DEF Sound
<1>6. QED BY <1>1, <1>3, <1>4, <1>5 DEF Acc

\* A batch, envelope by envelope, in any order
LEMMA HandleAllFacts ==
    ASSUME Sound(db["here"]), NEW order \in Seq(Envelope), NEW allow,
           NEW n \in 0..Len(order)
    PROVE  HandleAll(order, allow)[n] \in Acc
<1> DEFINE N == Len(order)
           b == [db |-> db["here"], tips |-> {}]
           H == HandleAll(order, allow)
           Body(after, i) == IF i = 0 THEN b ELSE Handle(after[i - 1], order[i], allow)
           G == [i \in Nat |-> [acc \in Acc |->
                    IF i \in 1..N THEN Handle(acc, order[i], allow) ELSE acc]]
<1>1. N \in Nat /\ \A i \in 1..N : order[i] \in Envelope
  OBVIOUS
<1>2. b \in Acc
  BY DEF Acc, Sound
<1>3. G \in [Nat -> [Acc -> Acc]]
  BY <1>1, HandleFacts
<1>4. PICK g \in [0..N -> Acc] : Iterates(g, b, G, N)
  <2> HIDE DEF b, G, N
  <2>1. QED BY <1>1, <1>2, <1>3, Recursion
<1>5. g = [i \in 0..N |-> Body(g, i)]
  <2>1. ASSUME NEW i \in 0..N PROVE g[i] = Body(g, i)
    <3>1. CASE i = 0
      BY <1>4, <3>1 DEF Iterates
    <3>2. CASE i \in 1..N
      <4>1. g[i] = G[i][g[i - 1]]
        BY <1>4, <3>2 DEF Iterates
      <4>2. i \in Nat /\ g[i - 1] \in Acc
        BY <1>1, <3>2
      <4>3. QED BY <4>1, <4>2, <3>2
    <3>3. QED BY <3>1, <3>2
  <2> HIDE DEF Body
  <2>2. QED BY <2>1
<1>6. H = CHOOSE after : after = [i \in 0..N |-> Body(after, i)]
  BY DEF HandleAll
<1>7. H = [i \in 0..N |-> Body(H, i)]
  <2> HIDE DEF Body, H, b, G, N
  <2>1. QED BY <1>5, <1>6
<1> DEFINE T == {i \in 0..N : H[i] \in Acc}
<1>8. 0 \in T
  <2>1. 0 \in 0..N
    BY <1>1
  <2>2. H[0] = Body(H, 0)
    <3> HIDE DEF Body, H, N
    <3>1. QED BY <1>7, <2>1
  <2>3. QED BY <2>1, <2>2, <1>2
<1>9. ASSUME NEW i \in 1..N, i - 1 \in T PROVE i \in T
  <2>1. H[i] = Body(H, i)
    <3> HIDE DEF Body, H, N
    <3>1. i \in 0..N
      BY <1>1
    <3>2. QED BY <1>7, <3>1
  <2>2. H[i] = Handle(H[i - 1], order[i], allow)
    BY <2>1
  <2> HIDE DEF H
  <2>3. QED BY <1>1, <1>9, <2>2, HandleFacts
<1>10. 0..N \subseteq T
  <2> HIDE DEF T, N
  <2>1. QED BY <1>1, <1>8, <1>9, InductionTo
<1>11. QED
  <2> HIDE DEF H
  <2>1. QED BY <1>10 DEF H

-----------------------------------------------------------------------------
(* Steps of the fetch services. *)

\* The state of a fetch service that holds nothing
LEMMA IdleFacts ==
    ASSUME NEW main \in Main, NEW allow \in BOOLEAN, NEW pc \in {"ready", "ended"}
    PROVE  /\ Held(Fetcher(main, allow, pc)) = {}
           /\ pc = "ended" \/ main \notin {"none", "finished"} =>
                  Fine(Fetcher(main, allow, pc))
<1> DEFINE g == Fetcher(main, allow, pc)
<1>1. /\ g.main = main /\ g.allow = allow /\ g.latest = pc /\ g.processor = pc
      /\ g.missing = pc /\ g.asked = {} /\ g.batches = <<>> /\ g.requests = <<>>
  BY DEF Fetcher
<1>2. g \in FetchService
  BY DEF Fetcher, FetchService, Subtask
<1> HIDE DEF g
<1>3. DOMAIN g.batches = {} /\ Len(g.batches) = 0 /\ Len(g.requests) = 0
  BY <1>1
<1>4. Queued(g) = {} /\ Waiting(g) = {}
  BY <1>1, <1>3 DEF Queued, Waiting
<1>5. Load(g) = 0 /\ Load(g) <= MaxWork
  <2>1. pc \notin Asking /\ pc # "asked"
    BY DEF Asking
  <2>2. Load(g) = 0
    BY <1>1, <1>3, <2>1 DEF Load, Work
  <2>3. QED BY <2>2, ServicesAssumption
<1>6. pc = "ended" \/ main \notin {"none", "finished"} => IsIdle(g)
  BY <1>1 DEF IsIdle, g
<1>7. QED BY <1>2, <1>3, <1>4, <1>5, <1>6 DEF Held, Fine, Once, g

\* The parts of the invariant in the next state
LEMMA Assembled ==
    ASSUME db' \in [Node -> Rows], \A n \in Node : Sound(db'[n]),
           fetchers' \in [Slot -> FetchService], \A k \in Slot : Fine(fetchers'[k]),
           pushers' \in [Slot -> PushService],
           settings' \in Seq(Service), settings' # <<>>, later' \subseteq Envelope, faults' \in Nat,
           inflight' \subseteq Envelope, released' \subseteq inflight', leaked' \subseteq inflight',
           released' \cap leaked' = {},
           inflight' \ (released' \cup leaked') = UNION {Held(fetchers'[k]) : k \in Slot},
           \A k, l \in Slot : k # l => Held(fetchers'[k]) \cap Held(fetchers'[l]) = {},
           \A k \in Slot : pushers'[k].tip_tracker \cup pushers'[k].claims
                             \subseteq db'["there"].connected
    PROVE  IndInv'
<1>1. DbInv'
  BY DEF DbInv, Sound, Complete, ancestors
<1>2. Types'
  BY DEF Types
<1>3. InflightInv'
  BY DEF InflightInv, Live, Held, Queued, Waiting
<1>4. ClaimsAreTrue'
  BY DEF ClaimsAreTrue
<1>5. (\A k \in Slot : Fine(fetchers[k]))'
  BY DEF Fine, Load, Work, IsIdle, Fetcher, Once, Queued, Waiting
<1>6. QED BY <1>1, <1>2, <1>3, <1>4, <1>5 DEF IndInv

\* The services change, and one of them takes the hashes A and drops D.
LEMMA ServicesStep ==
    ASSUME IndInv, NEW k \in Slot, NEW A \in SUBSET Envelope, NEW D \in SUBSET Held(fetchers[k]),
           fetchers' \in [Slot -> FetchService], \A l \in Slot : Fine(fetchers'[l]),
           Held(fetchers'[k]) = (Held(fetchers[k]) \ D) \cup A, A \cap Live = {},
           \A l \in Slot \ {k} : Held(fetchers'[l]) = Held(fetchers[l]),
           inflight' \ (released' \cup leaked') = (Live \ D) \cup A,
           inflight' \subseteq Envelope, released' \subseteq inflight', leaked' \subseteq inflight',
           released' \cap leaked' = {},
           db' \in [Node -> Rows], \A n \in Node : Sound(db'[n]),
           db["there"].connected \subseteq db'["there"].connected,
           pushers' \in [Slot -> PushService],
           \A l \in Slot : pushers'[l].tip_tracker \cup pushers'[l].claims
                             \subseteq db'["there"].connected,
           settings' \in Seq(Service), settings' # <<>>, later' \subseteq Envelope, faults' \in Nat
    PROVE  IndInv'
<1>1. /\ Live = UNION {Held(fetchers[l]) : l \in Slot}
      /\ \A i, j \in Slot : i # j => Held(fetchers[i]) \cap Held(fetchers[j]) = {}
  BY DEF IndInv, InflightInv
<1> DEFINE old == [l \in Slot |-> Held(fetchers[l])]
           new == [l \in Slot |-> Held(fetchers'[l])]
<1>7. \A l \in Slot : old[l] = Held(fetchers[l]) /\ new[l] = Held(fetchers'[l])
  OBVIOUS
<1> HIDE DEF old, new
<1>2. /\ Live = UNION {old[l] : l \in Slot}
      /\ \A i, j \in Slot : i # j => old[i] \cap old[j] = {}
      /\ new[k] = (old[k] \ D) \cup A /\ \A l \in Slot \ {k} : new[l] = old[l]
      /\ D \subseteq old[k]
  <2>1. Live = UNION {old[l] : l \in Slot}
    BY <1>1, <1>7
  <2>2. \A i, j \in Slot : i # j => old[i] \cap old[j] = {}
    BY <1>1, <1>7
  <2>3. new[k] = (old[k] \ D) \cup A /\ \A l \in Slot \ {k} : new[l] = old[l]
    BY <1>7
  <2>4. D \subseteq old[k]
    BY <1>7
  <2>5. QED BY <2>1, <2>2, <2>3, <2>4
<1>3. (Live \ D) \cup A = UNION {new[l] : l \in Slot}
  BY <1>2
<1>4. \A i, j \in Slot : i # j => new[i] \cap new[j] = {}
  <2>1. \A l \in Slot : old[l] \subseteq Live
    BY <1>2
  <2>2. ASSUME NEW l \in Slot \ {k} PROVE new[k] \cap new[l] = {}
    BY <1>2, <2>1
  <2>3. QED BY <1>2, <2>2
<1>5. /\ inflight' \ (released' \cup leaked') = UNION {Held(fetchers'[l]) : l \in Slot}
      /\ \A i, j \in Slot : i # j => Held(fetchers'[i]) \cap Held(fetchers'[j]) = {}
  BY <1>3, <1>4, <1>7
<1>6. QED BY <1>5, Assembled

\* The same when nothing but one fetch service and what is in flight changes.
LEMMA FetcherStep ==
    ASSUME IndInv, NEW k \in Slot, NEW g, Fine(g), fetchers' = [fetchers EXCEPT ![k] = g],
           NEW A \in SUBSET Envelope, NEW D \in SUBSET Held(fetchers[k]),
           Held(g) = (Held(fetchers[k]) \ D) \cup A, A \cap Live = {},
           inflight' \ (released' \cup leaked') = (Live \ D) \cup A,
           inflight' \subseteq Envelope, released' \subseteq inflight', leaked' \subseteq inflight',
           released' \cap leaked' = {},
           db' \in [Node -> Rows], \A n \in Node : Sound(db'[n]), db'["there"] = db["there"],
           UNCHANGED <<settings, pushers, later>>, faults' \in Nat
    PROVE  IndInv'
<1>1. /\ fetchers \in [Slot -> FetchService] /\ pushers \in [Slot -> PushService]
      /\ settings \in Seq(Service) /\ settings # <<>> /\ later \subseteq Envelope
      /\ \A l \in Slot : Fine(fetchers[l])
  BY DEF IndInv, Types
<1>2. g \in FetchService
  BY DEF Fine
<1>3. fetchers' \in [Slot -> FetchService] /\ fetchers'[k] = g
      /\ \A l \in Slot \ {k} : fetchers'[l] = fetchers[l]
  BY <1>1, <1>2
<1>4. \A l \in Slot : Fine(fetchers'[l])
  BY <1>1, <1>3
<1>5. \A l \in Slot : pushers[l].tip_tracker \cup pushers[l].claims \subseteq db["there"].connected
  BY DEF IndInv, ClaimsAreTrue
<1>6. Held(fetchers'[k]) = (Held(fetchers[k]) \ D) \cup A
      /\ \A l \in Slot \ {k} : Held(fetchers'[l]) = Held(fetchers[l])
  BY <1>3
<1>7. QED BY <1>1, <1>3, <1>4, <1>5, <1>6, ServicesStep

\* A fetch service keeps what it holds, and the databases stay.
LEMMA QuietFetcher ==
    ASSUME IndInv, NEW k \in Slot, NEW g, Fine(g), fetchers' = [fetchers EXCEPT ![k] = g],
           Held(g) = Held(fetchers[k]), UNCHANGED <<db, settings, pushers, hashes, later, faults>>
    PROVE  IndInv'
<1>1. /\ inflight' = inflight /\ released' = released /\ leaked' = leaked /\ db' = db
      /\ faults' = faults
  BY DEF hashes
<1>2. /\ db \in [Node -> Rows] /\ \A n \in Node : Sound(db[n])
      /\ inflight \subseteq Envelope /\ released \subseteq inflight /\ leaked \subseteq inflight
      /\ released \cap leaked = {} /\ faults \in Nat
  BY DEF IndInv, DbInv, InflightInv, Types
<1> DEFINE A == {}
<1>3. /\ A \in SUBSET Envelope /\ A \in SUBSET Held(fetchers[k]) /\ A \cap Live = {}
      /\ Held(g) = (Held(fetchers[k]) \ A) \cup A
      /\ inflight \ (released \cup leaked) = (Live \ A) \cup A
  BY DEF Live
<1> HIDE DEF A
<1>4. QED BY <1>1, <1>2, <1>3, FetcherStep

\* What a queue of batches holds, and that no two hold the same.
Q(bs) == UNION {bs[i].inflight : i \in DOMAIN bs}
Apart(bs) == \A i, j \in DOMAIN bs : i # j => bs[i].inflight \cap bs[j].inflight = {}

\* A batch is queued.
LEMMA AppendFacts ==
    ASSUME NEW bs \in Seq(Batch), NEW b \in Batch
    PROVE  /\ Append(bs, b) \in Seq(Batch) /\ Len(Append(bs, b)) = Len(bs) + 1
           /\ Q(Append(bs, b)) = Q(bs) \cup b.inflight
           /\ Apart(bs) /\ Q(bs) \cap b.inflight = {} => Apart(Append(bs, b))
<1> DEFINE n == Len(bs) + 1
           c == Append(bs, b)
<1>1. /\ c \in Seq(Batch) /\ Len(c) = n /\ DOMAIN c = 1..n /\ DOMAIN bs = 1..(n - 1)
      /\ n \in Nat /\ c[n] = b /\ \A i \in DOMAIN bs : c[i] = bs[i]
  OBVIOUS
<1>2. \A i \in DOMAIN c : i \in DOMAIN bs \/ i = n
  BY <1>1
<1>3. DOMAIN bs \subseteq DOMAIN c /\ n \in DOMAIN c
  BY <1>1
<1> HIDE DEF c, n
<1>4. Q(c) = Q(bs) \cup b.inflight
  BY <1>1, <1>2, <1>3 DEF Q
<1>5. ASSUME Apart(bs), Q(bs) \cap b.inflight = {} PROVE Apart(c)
  <2>1. \A i \in DOMAIN bs : bs[i].inflight \cap b.inflight = {}
    BY <1>5 DEF Q
  <2>2. QED BY <1>1, <1>2, <1>5, <2>1 DEF Apart
<1>6. QED BY <1>1, <1>4, <1>5 DEF c, n

\* The first batch is taken.
LEMMA TailFacts ==
    ASSUME NEW bs \in Seq(Batch), bs # <<>>
    PROVE  /\ Tail(bs) \in Seq(Batch) /\ Len(Tail(bs)) = Len(bs) - 1 /\ Head(bs) \in Batch
           /\ Head(bs).inflight \subseteq Q(bs)
           /\ Apart(bs) => Q(Tail(bs)) = Q(bs) \ Head(bs).inflight /\ Apart(Tail(bs))
<1> DEFINE c == Tail(bs)
<1>1. /\ c \in Seq(Batch) /\ Len(c) = Len(bs) - 1 /\ Head(bs) = bs[1] /\ Len(bs) \in Nat
      /\ Len(bs) > 0 /\ \A i \in 1..Len(c) : c[i] = bs[i + 1]
  OBVIOUS
<1>2. DOMAIN bs = 1..Len(bs) /\ DOMAIN c = 1..Len(c) /\ 1 \in DOMAIN bs
  BY <1>1
<1>3. \A i \in DOMAIN c : i + 1 \in DOMAIN bs /\ i + 1 # 1 /\ c[i] = bs[i + 1]
  BY <1>1, <1>2
<1>4. \A i \in DOMAIN bs : i # 1 => i - 1 \in DOMAIN c /\ bs[i] = c[i - 1]
  BY <1>1, <1>2
<1> HIDE DEF c
<1>5. Head(bs) \in Batch /\ Head(bs).inflight \subseteq Q(bs)
  BY <1>1, <1>2 DEF Q
<1>6. ASSUME Apart(bs) PROVE Q(c) = Q(bs) \ Head(bs).inflight
  <2>1. \A i \in DOMAIN bs : i # 1 => bs[i].inflight \cap bs[1].inflight = {}
    BY <1>2, <1>6 DEF Apart
  <2>2. Q(c) \subseteq Q(bs) \ Head(bs).inflight
    BY <1>1, <1>3, <2>1 DEF Q
  <2>3. Q(bs) \ Head(bs).inflight \subseteq Q(c)
    <3>1. ASSUME NEW h \in Q(bs), h \notin bs[1].inflight PROVE h \in Q(c)
      <4>1. PICK i \in DOMAIN bs : h \in bs[i].inflight
        BY <3>1 DEF Q
      <4>2. i - 1 \in DOMAIN c /\ h \in c[i - 1].inflight
        BY <1>4, <3>1, <4>1
      <4>3. QED BY <4>2 DEF Q
    <3>2. QED BY <1>1, <3>1
  <2>4. QED BY <2>2, <2>3
<1>7. ASSUME Apart(bs) PROVE Apart(c)
  <2>1. ASSUME NEW i \in DOMAIN c, NEW j \in DOMAIN c, i # j
        PROVE  c[i].inflight \cap c[j].inflight = {}
    <3>1. i + 1 # j + 1
      BY <1>2, <2>1, <1>1
    <3>2. QED BY <1>3, <1>7, <3>1 DEF Apart
  <2>2. QED BY <2>1 DEF Apart
<1>8. QED BY <1>1, <1>5, <1>6, <1>7 DEF c

\* The work of a service is a number.
LEMMA WorkFacts ==
    ASSUME NEW f \in FetchService
    PROVE  /\ Len(f.batches) \in Nat /\ Len(f.requests) \in Nat /\ Work(f) \in Nat
           /\ f.missing \in Asking => Work(f) = Len(f.batches) + Len(f.requests) + 1
           /\ f.missing \notin Asking => Work(f) = Len(f.batches) + Len(f.requests)
<1>1. f.batches \in Seq(Batch) /\ f.requests \in Seq(SUBSET Envelope)
  BY DEF FetchService
<1>2. Len(f.batches) \in Nat /\ Len(f.requests) \in Nat
  BY <1>1
<1> DEFINE a == Len(f.batches)
           b == Len(f.requests)
<1>3. CASE f.missing \in Asking
  <2>1. Work(f) = a + b + 1
    BY <1>3 DEF Work
  <2> HIDE DEF a, b
  <2>2. a \in Nat /\ b \in Nat
    BY <1>2 DEF a, b
  <2>3. Work(f) \in Nat
    BY <2>1, <2>2
  <2>4. QED BY <1>2, <1>3, <2>1, <2>3 DEF a, b
<1>4. CASE f.missing \notin Asking
  <2>1. Work(f) = a + b + 0
    BY <1>4 DEF Work
  <2> HIDE DEF a, b
  <2>2. a \in Nat /\ b \in Nat
    BY <1>2 DEF a, b
  <2>3. Work(f) = a + b /\ Work(f) \in Nat
    BY <2>1, <2>2
  <2>4. QED BY <1>2, <1>4, <2>3 DEF a, b
<1>5. QED BY <1>3, <1>4

\* A service that works may go on while it has less to do than MaxWork.
LEMMA FineFacts ==
    ASSUME NEW f
    PROVE  /\ Queued(f) = Q(f.batches)
           /\ Fine(f) => /\ f \in FetchService /\ Apart(f.batches)
                         /\ Q(f.batches) \cap Waiting(f) = {} /\ Load(f) <= MaxWork
                         /\ f.latest # "ended" \/ f.processor # "ended" \/ f.missing # "ended" =>
                                f.main \notin {"none", "finished"}
           /\ /\ f \in FetchService /\ Apart(f.batches) /\ Q(f.batches) \cap Waiting(f) = {}
              /\ Load(f) <= MaxWork /\ f.main \notin {"none", "finished"}
              => Fine(f)
<1>1. Queued(f) = Q(f.batches)
  BY DEF Queued, Q
<1>2. ASSUME IsIdle(f), f.main \in {"none", "finished"}
      PROVE  f.latest = "ended" /\ f.processor = "ended" /\ f.missing = "ended"
  BY <1>2 DEF IsIdle, Fetcher
<1>3. QED BY <1>1, <1>2 DEF Fine, Once, Apart, IsIdle

\* An order of a batch is a sequence of its envelopes.
LEMMA OrderFacts ==
    ASSUME NEW S \in SUBSET Envelope, NEW order \in SetToSeqs(S)
    PROVE  order \in Seq(Envelope)
<1>1. IsFiniteSet(S)
  BY ServicesAssumption, FS_Subset
<1>2. Cardinality(S) \in Nat
  BY <1>1, FS_CardinalityType
<1>3. order \in [1..Cardinality(S) -> S]
  BY DEF SetToSeqs
<1>4. QED BY <1>2, <1>3

\* What the invariant says of one fetch service
LEMMA FetcherFacts ==
    ASSUME IndInv, NEW k \in Slot
    PROVE  /\ fetchers[k] \in FetchService /\ Fine(fetchers[k])
           /\ fetchers \in [Slot -> FetchService]
           /\ Held(fetchers[k]) = Q(fetchers[k].batches) \cup Waiting(fetchers[k])
           /\ Held(fetchers[k]) \subseteq Live
           /\ inflight \subseteq Envelope /\ released \subseteq inflight /\ leaked \subseteq inflight
           /\ released \cap leaked = {} /\ faults \in Nat
           /\ db \in [Node -> Rows] /\ \A n \in Node : Sound(db[n])
           /\ settings[1] \in Service
<1>1. Types /\ DbInv /\ InflightInv /\ Fine(fetchers[k])
  BY DEF IndInv
<1>2. Held(fetchers[k]) = Q(fetchers[k].batches) \cup Waiting(fetchers[k])
  BY FineFacts DEF Held
<1>3. Held(fetchers[k]) \subseteq Live
  BY <1>1 DEF InflightInv
<1>4. settings[1] \in Service
  BY <1>1 DEF Types
<1>5. QED BY <1>1, <1>2, <1>3, <1>4 DEF Types, DbInv, InflightInv

\* The first subtask that ends ends the service.
LEMMA FetchSelect ==
    ASSUME IndInv, NEW k \in Slot, fetch_select(k)
    PROVE  IndInv'
<1> DEFINE f == fetchers[k]
           g == Fetcher("finished", f.allow, "ended")
           A == {}
           D == Held(f)
<1>1. f \in FetchService /\ Fine(f)
  BY FetcherFacts
<1>2. Fine(g) /\ Held(g) = {}
  <2>1. f.allow \in BOOLEAN /\ "finished" \in Main
    BY <1>1 DEF FetchService, Main
  <2>2. QED BY <2>1, IdleFacts, Zenon
<1>3. /\ fetchers' = [fetchers EXCEPT ![k] = g] /\ released' = released \cup Queued(f)
      /\ leaked' = leaked \cup Waiting(f)
      /\ UNCHANGED <<db, settings, pushers, inflight, later, faults>>
  BY DEF fetch_select, Waiting
<1>4. D = Queued(f) \cup Waiting(f) /\ Queued(f) \cap Waiting(f) = {}
  BY <1>1 DEF Held, Fine, Once
<1> HIDE DEF f, g, A, D
<1>5. /\ D \subseteq Live /\ released \subseteq inflight /\ leaked \subseteq inflight
      /\ released \cap leaked = {} /\ inflight \subseteq Envelope
      /\ faults \in Nat /\ db \in [Node -> Rows] /\ \A n \in Node : Sound(db[n])
  BY FetcherFacts DEF D, f
<1>6. /\ inflight' \ (released' \cup leaked') = (Live \ D) \cup A
      /\ released' \subseteq inflight' /\ leaked' \subseteq inflight' /\ released' \cap leaked' = {}
  BY <1>3, <1>4, <1>5 DEF Live, A
<1>7. Held(g) = (Held(fetchers[k]) \ D) \cup A /\ A \cap Live = {} /\ A \in SUBSET Envelope
      /\ D \in SUBSET Held(fetchers[k])
  BY <1>2 DEF A, D, f
<1>8. QED BY <1>2, <1>3, <1>5, <1>6, <1>7, FetcherStep

\* A round of latest_tip_fetcher: it asks, and the answer makes a batch.
LEMMA GetLatestTips ==
    ASSUME IndInv, NEW k \in Slot, get_latest_tips(k)
    PROVE  IndInv'
<1> DEFINE f == fetchers[k]
           g == [f EXCEPT !.latest = "asked"]
<1>1. f \in FetchService /\ Fine(f) /\ fetchers \in [Slot -> FetchService]
  BY FetcherFacts
<1>2. f.latest = "ready" /\ Work(f) < MaxWork /\ fetchers' = [fetchers EXCEPT ![k] = g]
      /\ UNCHANGED <<db, settings, pushers, hashes, later, faults>>
  BY DEF get_latest_tips
<1> HIDE DEF f
<1>3. /\ g \in FetchService /\ g.main = f.main /\ g.latest = "asked" /\ g.missing = f.missing
      /\ g.asked = f.asked /\ g.batches = f.batches /\ g.requests = f.requests
  BY <1>1 DEF FetchService, Subtask
<1> HIDE DEF g
<1>4. Waiting(g) = Waiting(f) /\ Held(g) = Held(f) /\ Work(g) = Work(f)
  BY <1>3, FineFacts DEF Waiting, Held, Work
<1>5. Load(g) <= MaxWork
  <2>1. Work(f) \in Nat
    BY <1>1, WorkFacts
  <2>2. QED BY <1>2, <1>3, <1>4, <2>1, ServicesAssumption DEF Load
<1>6. Fine(g)
  BY <1>1, <1>2, <1>3, <1>4, <1>5, FineFacts
<1>7. QED BY <1>2, <1>4, <1>6, QuietFetcher DEF f

\* What a database says of itself is part of it.
LEMMA TipsFacts ==
    ASSUME IndInv, NEW n \in Node
    PROVE  /\ get_tips_for_all_users(db[n]) \subseteq Envelope
           /\ get_tips_for_all_users(db[n]) \subseteq db[n].connected
<1>1. Sound(db[n])
  BY DEF IndInv, DbInv
<1>2. QED BY <1>1 DEF get_tips_for_all_users, Sound, Rows

\* The answer to a request for the latest tips
LEMMA FetchLatestTips ==
    ASSUME IndInv, NEW k \in Slot, fetch_latest_tips(k)
    PROVE  IndInv'
<1> DEFINE f == fetchers[k]
           b == [envelopes |-> get_tips_for_all_users(db["there"]), inflight |-> {}]
           g == IF f.processor = "ended" THEN [f EXCEPT !.latest = "ended"]
                ELSE [f EXCEPT !.latest = "ready", !.batches = Append(f.batches, b)]
<1>1. f \in FetchService /\ Fine(f) /\ fetchers \in [Slot -> FetchService]
  BY FetcherFacts
<1>2. f.latest = "asked" /\ fetchers' = [fetchers EXCEPT ![k] = g]
      /\ UNCHANGED <<db, settings, pushers, hashes, later, faults>>
  BY DEF fetch_latest_tips
<1>3. b \in Batch /\ b.inflight = {}
  BY TipsFacts DEF Batch, Node
<1> HIDE DEF f, b
<1>4. /\ f.batches \in Seq(Batch) /\ f.requests \in Seq(SUBSET Envelope)
      /\ Apart(f.batches) /\ Q(f.batches) \cap Waiting(f) = {}
      /\ Load(f) <= MaxWork /\ f.main \notin {"none", "finished"}
  BY <1>1, <1>2, FineFacts DEF FetchService
<1>5. CASE f.processor = "ended"
  <2>1. /\ g \in FetchService /\ g.main = f.main /\ g.latest = "ended" /\ g.missing = f.missing
        /\ g.asked = f.asked /\ g.batches = f.batches /\ g.requests = f.requests
    BY <1>1, <1>5 DEF FetchService, Subtask
  <2> HIDE DEF g
  <2>2. Waiting(g) = Waiting(f) /\ Held(g) = Held(f) /\ Work(g) = Work(f)
    BY <2>1, FineFacts DEF Waiting, Held, Work
  <2>3. Load(g) <= MaxWork
    <3>1. Work(f) \in Nat
      BY <1>1, WorkFacts
    <3>2. QED BY <1>2, <1>4, <2>1, <2>2, <3>1, ServicesAssumption DEF Load
  <2>4. Fine(g)
    BY <1>4, <2>1, <2>2, <2>3, FineFacts
  <2>5. QED BY <1>2, <2>2, <2>4, QuietFetcher DEF f
<1>6. CASE f.processor # "ended"
  <2> DEFINE c == Append(f.batches, b)
  <2>1. c \in Seq(Batch) /\ Len(c) = Len(f.batches) + 1 /\ Q(c) = Q(f.batches) /\ Apart(c)
    BY <1>3, <1>4, AppendFacts
  <2>2. g = [f EXCEPT !.latest = "ready", !.batches = c]
    BY <1>6
  <2> HIDE DEF c, g
  <2>3. /\ g \in FetchService /\ g.main = f.main /\ g.latest = "ready" /\ g.missing = f.missing
        /\ g.asked = f.asked /\ g.batches = c /\ g.requests = f.requests
    BY <1>1, <2>1, <2>2 DEF FetchService, Subtask
  <2>4. Waiting(g) = Waiting(f) /\ Held(g) = Held(f) /\ Work(g) = Work(f) + 1
    <3>1. Waiting(g) = Waiting(f)
      BY <2>3 DEF Waiting
    <3>2. Held(g) = Held(f)
      BY <2>1, <2>3, <3>1, FineFacts DEF Held
    <3>3. Work(g) = Work(f) + 1
      <4> DEFINE x == Len(f.batches)
                 y == Len(f.requests)
      <4>1. x \in Nat /\ y \in Nat /\ Len(g.batches) = x + 1 /\ Len(g.requests) = y
        BY <1>1, <2>1, <2>3, WorkFacts
      <4>2. CASE f.missing \in Asking
        <5>1. Work(f) = x + y + 1 /\ Work(g) = Len(g.batches) + Len(g.requests) + 1
          BY <1>1, <2>3, <4>2, WorkFacts
        <5> HIDE DEF x, y
        <5>2. QED BY <4>1, <5>1
      <4>3. CASE f.missing \notin Asking
        <5>1. Work(f) = x + y /\ Work(g) = Len(g.batches) + Len(g.requests)
          BY <1>1, <2>3, <4>3, WorkFacts
        <5> HIDE DEF x, y
        <5>2. QED BY <4>1, <5>1
      <4>4. QED BY <4>2, <4>3
    <3>4. QED BY <3>1, <3>2, <3>3
  <2>5. Load(g) <= MaxWork
    <3>1. Work(f) \in Nat
      BY <1>1, WorkFacts
    <3>2. QED BY <1>2, <1>4, <2>3, <2>4, <3>1, ServicesAssumption DEF Load
  <2>6. Fine(g)
    BY <1>4, <2>1, <2>3, <2>4, <2>5, FineFacts
  <2>7. QED BY <1>2, <2>4, <2>6, QuietFetcher DEF f
<1>7. QED BY <1>5, <1>6

\* A subtask goes on without touching a queue.
LEMMA SubtaskMoves ==
    ASSUME IndInv, NEW k \in Slot, NEW g \in FetchService,
           fetchers' = [fetchers EXCEPT ![k] = g],
           g.main = fetchers[k].main, g.main \notin {"none", "finished"},
           g.batches = fetchers[k].batches, g.requests = fetchers[k].requests,
           g.asked = fetchers[k].asked, g.missing \in Asking <=> fetchers[k].missing \in Asking,
           g.latest = "asked" => fetchers[k].latest = "asked",
           UNCHANGED <<db, settings, pushers, hashes, later, faults>>
    PROVE  IndInv'
<1> DEFINE f == fetchers[k]
<1>1. f \in FetchService /\ Fine(f)
  BY FetcherFacts
<1> HIDE DEF f
<1>2. Waiting(g) = Waiting(f) /\ Held(g) = Held(f) /\ Work(g) = Work(f)
  BY FineFacts DEF Waiting, Held, Work, f
<1>3. Load(g) <= MaxWork
  <2>1. Work(f) \in Nat /\ Load(f) <= MaxWork
    BY <1>1, WorkFacts DEF Fine
  <2>2. g.latest = "asked" => f.latest = "asked"
    BY DEF f
  <2>3. QED BY <1>2, <2>1, <2>2, ServicesAssumption DEF Load
<1>4. Apart(g.batches) /\ Q(g.batches) \cap Waiting(g) = {}
  BY <1>1, <1>2, FineFacts DEF f
<1>5. Fine(g)
  BY <1>3, <1>4, FineFacts
<1>6. QED BY <1>2, <1>5, QuietFetcher DEF f

\* The three subtasks end, or learn that they will get no answer.
LEMMA LatestTipsNotReceived ==
    ASSUME IndInv, NEW k \in Slot, latest_tips_not_received(k)
    PROVE  IndInv'
<1> DEFINE f == fetchers[k]
           g == [f EXCEPT !.latest = "ended"]
<1>1. f \in FetchService /\ Fine(f)
  BY FetcherFacts
<1>2. f.latest = "lost" /\ fetchers' = [fetchers EXCEPT ![k] = g]
      /\ UNCHANGED <<db, settings, pushers, hashes, later, faults>>
  BY DEF latest_tips_not_received
<1>3. f.main \notin {"none", "finished"}
  BY <1>1, <1>2, FineFacts
<1> HIDE DEF f
<1>4. /\ g \in FetchService /\ g.main = f.main /\ g.batches = f.batches
      /\ g.requests = f.requests /\ g.asked = f.asked /\ g.missing = f.missing
      /\ g.latest = "ended"
  BY <1>1 DEF FetchService, Subtask
<1> HIDE DEF g
<1>5. QED BY <1>2, <1>3, <1>4, SubtaskMoves DEF f

\* A detached processor whose senders are gone ends.
LEMMA EnvelopeProcessorEnds ==
    ASSUME IndInv, NEW k \in Slot, envelope_processor_ends(k)
    PROVE  IndInv'
<1> DEFINE f == fetchers[k]
           g == [f EXCEPT !.processor = "ended"]
<1>1. f \in FetchService /\ Fine(f)
  BY FetcherFacts
<1>2. f.processor = "ready" /\ fetchers' = [fetchers EXCEPT ![k] = g]
      /\ UNCHANGED <<db, settings, pushers, hashes, later, faults>>
  BY DEF envelope_processor_ends
<1>3. f.main \notin {"none", "finished"}
  BY <1>1, <1>2, FineFacts
<1> HIDE DEF f
<1>4. /\ g \in FetchService /\ g.main = f.main /\ g.batches = f.batches
      /\ g.requests = f.requests /\ g.asked = f.asked /\ g.missing = f.missing
      /\ g.latest = f.latest
  BY <1>1 DEF FetchService, Subtask
<1> HIDE DEF g
<1>5. QED BY <1>2, <1>3, <1>4, SubtaskMoves DEF f

\* So does a missing_envelope_fetcher without a processor.
LEMMA MissingEnvelopeFetcherEnds ==
    ASSUME IndInv, NEW k \in Slot, missing_envelope_fetcher_ends(k)
    PROVE  IndInv'
<1> DEFINE f == fetchers[k]
           g == [f EXCEPT !.missing = "ended"]
<1>1. f \in FetchService /\ Fine(f)
  BY FetcherFacts
<1>2. f.missing = "ready" /\ fetchers' = [fetchers EXCEPT ![k] = g]
      /\ UNCHANGED <<db, settings, pushers, hashes, later, faults>>
  BY DEF missing_envelope_fetcher_ends
<1>3. f.main \notin {"none", "finished"}
  BY <1>1, <1>2, FineFacts
<1> HIDE DEF f
<1>4. /\ g \in FetchService /\ g.main = f.main /\ g.batches = f.batches
      /\ g.requests = f.requests /\ g.asked = f.asked /\ g.missing = "ended"
      /\ g.latest = f.latest
  BY <1>1 DEF FetchService, Subtask
<1> HIDE DEF g
<1>5. QED BY <1>2, <1>3, <1>4, SubtaskMoves DEF f, Asking

\* get_tips: the hashes that are not in flight yet are asked for, and are in flight.
LEMMA GetTips ==
    ASSUME IndInv, NEW k \in Slot, get_tips(k)
    PROVE  IndInv'
<1> DEFINE f == fetchers[k]
           A == Head(f.requests) \ inflight
           g == [f EXCEPT !.missing = "asked", !.asked = A, !.requests = Tail(f.requests)]
           D == {}
<1>1. f \in FetchService /\ Fine(f)
  BY FetcherFacts
<1>2. /\ f.missing = "ready" /\ f.requests # <<>> /\ fetchers' = [fetchers EXCEPT ![k] = g]
      /\ inflight' = inflight \cup A
      /\ UNCHANGED <<db, settings, pushers, released, leaked, later, faults>>
  BY DEF get_tips
<1>3. /\ f.main \notin {"none", "finished"} /\ Apart(f.batches) /\ Load(f) <= MaxWork
  BY <1>1, <1>2, FineFacts
<1>4. /\ Held(f) \subseteq Live /\ Held(f) = Q(f.batches) \cup Waiting(f)
      /\ inflight \subseteq Envelope /\ released \subseteq inflight /\ leaked \subseteq inflight
      /\ released \cap leaked = {} /\ faults \in Nat
      /\ db \in [Node -> Rows] /\ \A n \in Node : Sound(db[n])
  BY FetcherFacts
<1> HIDE DEF f
<1>5. /\ f.requests \in Seq(SUBSET Envelope) /\ Head(f.requests) \in SUBSET Envelope
      /\ Tail(f.requests) \in Seq(SUBSET Envelope)
      /\ Len(Tail(f.requests)) = Len(f.requests) - 1 /\ A \in SUBSET Envelope
  BY <1>1, <1>2 DEF FetchService
<1> HIDE DEF A
<1>6. /\ g \in FetchService /\ g.main = f.main /\ g.batches = f.batches
      /\ g.requests = Tail(f.requests) /\ g.asked = A /\ g.missing = "asked"
      /\ g.latest = f.latest
  BY <1>1, <1>5 DEF FetchService, Subtask
<1> HIDE DEF g, D
<1>7. Waiting(f) = {} /\ Waiting(g) = A /\ Held(g) = Q(f.batches) \cup A /\ Held(f) = Q(f.batches)
  BY <1>2, <1>4, <1>6, FineFacts DEF Waiting, Asking, Held
<1>8. A \cap inflight = {}
  BY DEF A
<1>9. A \cap Live = {} /\ inflight' \ (released' \cup leaked') = (Live \ D) \cup A
      /\ inflight' \subseteq Envelope /\ released' \subseteq inflight' /\ leaked' \subseteq inflight'
      /\ released' \cap leaked' = {}
  BY <1>2, <1>4, <1>5, <1>8 DEF Live, D
<1>10. Load(g) <= MaxWork
  <2>1. Work(g) = Work(f)
    <3> DEFINE x == Len(f.batches)
               y == Len(f.requests)
    <3>1. x \in Nat /\ y \in Nat /\ Len(g.batches) = x /\ Len(g.requests) = y - 1
      BY <1>1, <1>5, <1>6, WorkFacts
    <3>2. Work(f) = x + y
      BY <1>1, <1>2, WorkFacts DEF Asking
    <3>3. Work(g) = Len(g.batches) + Len(g.requests) + 1
      BY <1>6, WorkFacts DEF Asking
    <3> HIDE DEF x, y
    <3>4. QED BY <3>1, <3>2, <3>3
  <2>2. QED BY <1>3, <1>6, <2>1 DEF Load
<1>11. Fine(g)
  <2>1. Q(g.batches) \cap Waiting(g) = {}
    BY <1>4, <1>6, <1>7, <1>8, <1>9
  <2>2. QED BY <1>3, <1>6, <1>10, <2>1, FineFacts
<1>12. Held(g) = (Held(f) \ D) \cup A /\ D \in SUBSET Held(f)
  BY <1>7 DEF D
<1>13. QED BY <1>2, <1>4, <1>5, <1>9, <1>11, <1>12, FetcherStep DEF f

\* A request that comes to nothing gives its hashes back.
LEMMA RequestEnds ==
    ASSUME IndInv, NEW k \in Slot, fetchers[k].missing \in Asking,
           fetchers' = [fetchers EXCEPT ![k] =
                          [fetchers[k] EXCEPT !.missing = "ended", !.asked = {}]],
           released' = released \cup fetchers[k].asked,
           UNCHANGED <<db, settings, pushers, inflight, leaked, later, faults>>
    PROVE  IndInv'
<1> DEFINE f == fetchers[k]
           g == [f EXCEPT !.missing = "ended", !.asked = {}]
           A == {}
           D == f.asked
<1>1. f \in FetchService /\ Fine(f)
  BY FetcherFacts
<1>2. /\ f.missing \in Asking /\ fetchers' = [fetchers EXCEPT ![k] = g]
      /\ released' = released \cup D
      /\ UNCHANGED <<db, settings, pushers, inflight, leaked, later, faults>>
  OBVIOUS
<1>3. /\ f.main \notin {"none", "finished"} /\ Apart(f.batches) /\ Load(f) <= MaxWork
      /\ Q(f.batches) \cap Waiting(f) = {}
  BY <1>1, <1>2, FineFacts DEF Asking
<1>4. /\ Held(f) \subseteq Live /\ Held(f) = Q(f.batches) \cup Waiting(f)
      /\ inflight \subseteq Envelope /\ released \subseteq inflight /\ leaked \subseteq inflight
      /\ released \cap leaked = {} /\ faults \in Nat
      /\ db \in [Node -> Rows] /\ \A n \in Node : Sound(db[n])
  BY FetcherFacts
<1> HIDE DEF f
<1>6. /\ g \in FetchService /\ g.main = f.main /\ g.batches = f.batches
      /\ g.requests = f.requests /\ g.missing = "ended" /\ g.latest = f.latest
  BY <1>1 DEF FetchService, Subtask
<1> HIDE DEF g, A, D
<1>7. Waiting(f) = D /\ Waiting(g) = {} /\ Held(g) = Q(f.batches)
  BY <1>2, <1>6, FineFacts DEF Waiting, Asking, Held, D
<1>9. A \cap Live = {} /\ inflight' \ (released' \cup leaked') = (Live \ D) \cup A
      /\ inflight' \subseteq Envelope /\ released' \subseteq inflight' /\ leaked' \subseteq inflight'
      /\ released' \cap leaked' = {} /\ A \in SUBSET Envelope
  BY <1>2, <1>4, <1>7 DEF Live, A
<1>10. Load(g) <= MaxWork
  <2>1. Work(f) \in Nat /\ Work(g) \in Nat /\ Work(g) = Work(f) - 1
    <3> DEFINE x == Len(f.batches)
               y == Len(f.requests)
    <3>1. x \in Nat /\ y \in Nat /\ Len(g.batches) = x /\ Len(g.requests) = y
      BY <1>1, <1>6, WorkFacts
    <3>2. Work(f) = x + y + 1
      BY <1>1, <1>2, WorkFacts DEF Asking
    <3>3. Work(g) = Len(g.batches) + Len(g.requests)
      BY <1>6, WorkFacts DEF Asking
    <3> HIDE DEF x, y
    <3>4. QED BY <3>1, <3>2, <3>3
  <2>2. QED BY <1>3, <1>6, <2>1, ServicesAssumption DEF Load
<1>11. Fine(g)
  <2>1. Q(g.batches) \cap Waiting(g) = {}
    BY <1>7
  <2>2. QED BY <1>3, <1>6, <1>10, <2>1, FineFacts
<1>12. Held(g) = (Held(f) \ D) \cup A /\ D \in SUBSET Held(f)
  BY <1>3, <1>4, <1>7 DEF A
<1>13. /\ IndInv /\ k \in Slot /\ faults' \in Nat /\ UNCHANGED <<settings, pushers, later>>
       /\ db' \in [Node -> Rows] /\ (\A n \in Node : Sound(db'[n])) /\ db'["there"] = db["there"]
       /\ Held(g) = (Held(fetchers[k]) \ D) \cup A /\ D \in SUBSET Held(fetchers[k])
  BY <1>2, <1>4, <1>12 DEF f
<1>14. fetchers' = [fetchers EXCEPT ![k] = g]
  BY <1>2
<1>15. QED BY ONLY <1>9, <1>11, <1>13, <1>14, FetcherStep

\* The peer's answer did not come.
LEMMA TipsNotFetched ==
    ASSUME IndInv, NEW k \in Slot, tips_not_fetched(k)
    PROVE  IndInv'
<1>1. /\ fetchers[k].missing = "lost" /\ released' = released \cup fetchers[k].asked
      /\ fetchers' = [fetchers EXCEPT ![k] =
                        [fetchers[k] EXCEPT !.missing = "ended", !.asked = {}]]
      /\ UNCHANGED <<db, settings, pushers, inflight, leaked, later, faults>>
  BY DEF tips_not_fetched
<1>2. QED BY <1>1, RequestEnds DEF Asking

\* The processor of a service ends, and the batches in its queue give back what they
\* hold.
LEMMA ProcessorEnds ==
    ASSUME IndInv, NEW k \in Slot, fetchers[k].processor = "ready",
           fetchers' = [fetchers EXCEPT ![k] =
                          [fetchers[k] EXCEPT !.processor = "ended", !.batches = <<>>]],
           released' = released \cup Queued(fetchers[k]),
           db' \in [Node -> Rows], \A n \in Node : Sound(db'[n]), db'["there"] = db["there"],
           UNCHANGED <<settings, pushers, inflight, leaked, later>>, faults' \in Nat
    PROVE  IndInv'
<1> DEFINE f == fetchers[k]
           g == [f EXCEPT !.processor = "ended", !.batches = <<>>]
           A == {}
           D == Queued(f)
<1>1. f \in FetchService /\ Fine(f)
  BY FetcherFacts
<1>2. fetchers' = [fetchers EXCEPT ![k] = g] /\ released' = released \cup D
  OBVIOUS
<1>3. /\ f.main \notin {"none", "finished"} /\ Load(f) <= MaxWork
      /\ Q(f.batches) \cap Waiting(f) = {} /\ D = Q(f.batches)
  BY <1>1, FineFacts
<1>4. /\ Held(f) \subseteq Live /\ Held(f) = Q(f.batches) \cup Waiting(f)
      /\ inflight \subseteq Envelope /\ released \subseteq inflight /\ leaked \subseteq inflight
      /\ released \cap leaked = {}
  BY FetcherFacts
<1> HIDE DEF f
<1>5. <<>> \in Seq(Batch)
  OBVIOUS
<1>6. /\ g \in FetchService /\ g.main = f.main /\ g.batches = <<>> /\ g.asked = f.asked
      /\ g.requests = f.requests /\ g.missing = f.missing /\ g.latest = f.latest
  BY <1>1, <1>5 DEF FetchService, Subtask
<1> HIDE DEF g, A, D
<1>7. /\ Waiting(g) = Waiting(f) /\ Q(g.batches) = {} /\ Apart(g.batches)
      /\ Held(g) = Waiting(f)
  <2>1. DOMAIN g.batches = {}
    BY <1>6
  <2>2. Waiting(g) = Waiting(f)
    BY <1>6 DEF Waiting
  <2>3. Q(g.batches) = {} /\ Apart(g.batches)
    BY <2>1 DEF Q, Apart
  <2>4. QED BY <2>2, <2>3, FineFacts DEF Held
<1>9. A \cap Live = {} /\ inflight' \ (released' \cup leaked') = (Live \ D) \cup A
      /\ inflight' \subseteq Envelope /\ released' \subseteq inflight' /\ leaked' \subseteq inflight'
      /\ released' \cap leaked' = {} /\ A \in SUBSET Envelope
  BY <1>2, <1>3, <1>4 DEF Live, A
<1>10. Load(g) <= MaxWork
  <2>1. Work(f) \in Nat /\ Work(g) \in Nat /\ Work(g) <= Work(f)
    <3> DEFINE x == Len(f.batches)
               y == Len(f.requests)
    <3>1. x \in Nat /\ y \in Nat /\ Len(g.batches) = 0 /\ Len(g.requests) = y
      BY <1>1, <1>6, WorkFacts
    <3>2. CASE f.missing \in Asking
      <4>1. Work(f) = x + y + 1 /\ Work(g) = Len(g.batches) + Len(g.requests) + 1
        BY <1>1, <1>6, <3>2, WorkFacts
      <4> HIDE DEF x, y
      <4>2. QED BY <3>1, <4>1
    <3>3. CASE f.missing \notin Asking
      <4>1. Work(f) = x + y /\ Work(g) = Len(g.batches) + Len(g.requests)
        BY <1>1, <1>6, <3>3, WorkFacts
      <4> HIDE DEF x, y
      <4>2. QED BY <3>1, <4>1
    <3>4. QED BY <3>2, <3>3
  <2>2. QED BY <1>3, <1>6, <2>1, ServicesAssumption DEF Load
<1>11. Fine(g)
  <2>1. Q(g.batches) \cap Waiting(g) = {}
    BY <1>7
  <2>2. QED BY <1>3, <1>6, <1>7, <1>10, <2>1, FineFacts
<1>12. Held(g) = (Held(f) \ D) \cup A /\ D \in SUBSET Held(f)
  BY <1>3, <1>4, <1>7 DEF A
<1>13. QED BY <1>2, <1>9, <1>11, <1>12, FetcherStep DEF f

\* A batch is handled, whole or in part: both databases stay sound.
LEMMA BatchFacts ==
    ASSUME IndInv, NEW order \in Seq(Envelope), NEW allow, NEW n \in 0..Len(order),
           db' = [db EXCEPT !["here"] = HandleAll(order, allow)[n].db]
    PROVE  /\ db' \in [Node -> Rows] /\ \A m \in Node : Sound(db'[m])
           /\ db'["there"] = db["there"]
           /\ HandleAll(order, allow)[n].tips \in SUBSET Envelope
<1>1. db \in [Node -> Rows] /\ \A m \in Node : Sound(db[m])
  BY DEF IndInv, DbInv
<1>2. Sound(db["here"])
  BY <1>1 DEF Node
<1> DEFINE r == HandleAll(order, allow)[n]
<1>3. r \in Acc
  BY <1>2, HandleAllFacts
<1> HIDE DEF r
<1>4. Sound(r.db) /\ r.db \in Rows /\ r.tips \in SUBSET Envelope
  BY <1>3 DEF Acc
<1>5. db' = [db EXCEPT !["here"] = r.db]
  BY DEF r
<1>6. QED BY <1>1, <1>4, <1>5 DEF Node, r

\* A database error within a batch
LEMMA ProcessorFails ==
    ASSUME IndInv, NEW k \in Slot, processor_fails(k)
    PROVE  IndInv'
<1> DEFINE f == fetchers[k]
<1>1. f \in FetchService /\ faults \in Nat /\ f.processor = "ready" /\ f.batches # <<>>
  BY FetcherFacts DEF processor_fails
<1>2. PICK order \in SetToSeqs(Head(f.batches).envelopes) : \E n \in 0..Len(order) :
        db' = [db EXCEPT !["here"] = HandleAll(order, f.allow)[n].db]
  BY DEF processor_fails
<1>3. Head(f.batches).envelopes \in SUBSET Envelope
  BY <1>1, TailFacts DEF FetchService, Batch
<1>4. order \in Seq(Envelope)
  BY <1>3, OrderFacts
<1>5. PICK n \in 0..Len(order) : db' = [db EXCEPT !["here"] = HandleAll(order, f.allow)[n].db]
  BY <1>2
<1>6. db' \in [Node -> Rows] /\ (\A m \in Node : Sound(db'[m])) /\ db'["there"] = db["there"]
  BY <1>4, <1>5, BatchFacts
<1>7. faults' \in Nat
  BY <1>1 DEF processor_fails
<1>8. QED BY <1>1, <1>6, <1>7, ProcessorEnds DEF processor_fails

\* A batch is done: what it holds is given back, and it may make a request.
LEMMA BatchDone ==
    ASSUME IndInv, NEW k \in Slot, NEW g \in FetchService, fetchers[k].batches # <<>>,
           fetchers[k].processor = "ready", fetchers' = [fetchers EXCEPT ![k] = g],
           g.main = fetchers[k].main, g.latest = fetchers[k].latest,
           g.missing = fetchers[k].missing, g.asked = fetchers[k].asked,
           g.batches = Tail(fetchers[k].batches),
           \/ Len(g.requests) = Len(fetchers[k].requests)
           \/ Len(g.requests) = Len(fetchers[k].requests) + 1,
           released' = released \cup Head(fetchers[k].batches).inflight,
           db' \in [Node -> Rows], \A n \in Node : Sound(db'[n]), db'["there"] = db["there"],
           UNCHANGED <<settings, pushers, inflight, leaked, later, faults>>
    PROVE  IndInv'
<1> DEFINE f == fetchers[k]
           A == {}
           D == Head(f.batches).inflight
<1>1. f \in FetchService /\ Fine(f)
  BY FetcherFacts
<1>2. /\ f.main \notin {"none", "finished"} /\ Load(f) <= MaxWork /\ Apart(f.batches)
      /\ Q(f.batches) \cap Waiting(f) = {}
  BY <1>1, FineFacts
<1>3. /\ Held(f) \subseteq Live /\ Held(f) = Q(f.batches) \cup Waiting(f)
      /\ inflight \subseteq Envelope /\ released \subseteq inflight /\ leaked \subseteq inflight
      /\ released \cap leaked = {} /\ faults \in Nat
  BY FetcherFacts
<1>4. /\ g.main = f.main /\ g.latest = f.latest /\ g.missing = f.missing /\ g.asked = f.asked
      /\ g.batches = Tail(f.batches) /\ f.batches # <<>>
      /\ Len(g.requests) = Len(f.requests) \/ Len(g.requests) = Len(f.requests) + 1
      /\ released' = released \cup D
  OBVIOUS
<1> HIDE DEF f
<1>5. /\ Len(g.batches) = Len(f.batches) - 1 /\ D \subseteq Q(f.batches)
      /\ Q(g.batches) = Q(f.batches) \ D /\ Apart(g.batches)
  <2>1. f.batches \in Seq(Batch)
    BY <1>1 DEF FetchService
  <2>2. QED BY <1>2, <1>4, <2>1, TailFacts
<1> HIDE DEF A, D
<1>6. Waiting(g) = Waiting(f) /\ Held(g) = (Held(f) \ D) \cup A
      /\ D \in SUBSET Held(f)
  <2>1. Waiting(g) = Waiting(f)
    BY <1>4 DEF Waiting
  <2>2. Held(g) = Q(g.batches) \cup Waiting(g)
    BY FineFacts DEF Held
  <2>3. QED BY <1>2, <1>3, <1>5, <2>1, <2>2 DEF A
<1>7. A \cap Live = {} /\ inflight' \ (released' \cup leaked') = (Live \ D) \cup A
      /\ inflight' \subseteq Envelope /\ released' \subseteq inflight' /\ leaked' \subseteq inflight'
      /\ released' \cap leaked' = {} /\ A \in SUBSET Envelope
  BY <1>3, <1>4, <1>6 DEF Live, A
<1>8. Load(g) <= MaxWork
  <2>1. Work(f) \in Nat /\ Work(g) \in Nat /\ Work(g) <= Work(f)
    <3> DEFINE x == Len(f.batches)
               y == Len(f.requests)
               z == Len(g.requests)
    <3>1. /\ x \in Nat /\ y \in Nat /\ z \in Nat /\ Len(g.batches) \in Nat
          /\ Len(g.batches) = x - 1 /\ (z = y \/ z = y + 1)
      BY <1>1, <1>4, <1>5, WorkFacts
    <3>2. CASE f.missing \in Asking
      <4>1. Work(f) = x + y + 1 /\ Work(g) = Len(g.batches) + z + 1
        BY <1>1, <1>4, <3>2, WorkFacts
      <4> HIDE DEF x, y, z
      <4>2. QED BY <3>1, <4>1
    <3>3. CASE f.missing \notin Asking
      <4>1. Work(f) = x + y /\ Work(g) = Len(g.batches) + z
        BY <1>1, <1>4, <3>3, WorkFacts
      <4> HIDE DEF x, y, z
      <4>2. QED BY <3>1, <4>1
    <3>4. QED BY <3>2, <3>3
  <2>2. QED BY <1>2, <1>4, <2>1, ServicesAssumption DEF Load
<1>9. Fine(g)
  <2>1. Q(g.batches) \cap Waiting(g) = {}
    BY <1>2, <1>5, <1>6
  <2>2. QED BY <1>2, <1>4, <1>5, <1>8, <2>1, FineFacts
<1>10. fetchers' = [fetchers EXCEPT ![k] = g] /\ Held(g) = (Held(fetchers[k]) \ D) \cup A
       /\ D \in SUBSET Held(fetchers[k])
  BY <1>6 DEF f
<1>11. faults' \in Nat /\ UNCHANGED <<settings, pushers, later>>
  BY <1>3
<1>12. /\ IndInv /\ k \in Slot /\ db' \in [Node -> Rows] /\ (\A n \in Node : Sound(db'[n]))
       /\ db'["there"] = db["there"]
  OBVIOUS
<1>13. QED BY ONLY <1>7, <1>9, <1>10, <1>11, <1>12, FetcherStep

\* handle_envelope: the batch's envelopes are inserted, and what they name is asked for.
LEMMA HandleEnvelope ==
    ASSUME IndInv, NEW k \in Slot, handle_envelope(k)
    PROVE  IndInv'
<1> DEFINE f == fetchers[k]
           r(order) == HandleAll(order, f.allow)[Len(order)]
           unknown(order) == r(order).tips \ r(order).db.rows
           rest == [f EXCEPT !.batches = Tail(@)]
           g(u) == IF u = {} THEN rest
                   ELSE IF f.missing = "ended"
                   THEN [rest EXCEPT !.processor = "ended", !.batches = <<>>]
                   ELSE [rest EXCEPT !.requests = Append(@, u)]
<1>1. /\ f \in FetchService /\ faults \in Nat /\ f.processor = "ready" /\ f.batches # <<>>
      /\ fetchers \in [Slot -> FetchService]
      /\ UNCHANGED <<settings, pushers, inflight, leaked, later, faults>>
  BY FetcherFacts DEF handle_envelope
<1>2. PICK order \in SetToSeqs(Head(f.batches).envelopes) :
        /\ db' = [db EXCEPT !["here"] = r(order).db]
        /\ fetchers' = [fetchers EXCEPT ![k] = g(unknown(order))]
        /\ released' = released \cup (IF fetchers'[k].processor = "ended" THEN Queued(f)
                                      ELSE Head(f.batches).inflight)
  BY DEF handle_envelope
<1>3. f.batches \in Seq(Batch) /\ f.requests \in Seq(SUBSET Envelope)
  BY <1>1 DEF FetchService
<1>4. Head(f.batches).envelopes \in SUBSET Envelope /\ Tail(f.batches) \in Seq(Batch)
  BY <1>1, <1>3, TailFacts DEF Batch
<1>5. order \in Seq(Envelope) /\ Len(order) \in 0..Len(order)
  BY <1>4, OrderFacts
<1>6. /\ db' \in [Node -> Rows] /\ (\A m \in Node : Sound(db'[m])) /\ db'["there"] = db["there"]
      /\ r(order).tips \in SUBSET Envelope
  BY <1>2, <1>5, BatchFacts
<1>7. PICK u : u = unknown(order)
  OBVIOUS
<1>8. u \in SUBSET Envelope
  BY <1>6, <1>7
<1> HIDE DEF r, unknown, g
<1>9. fetchers' = [fetchers EXCEPT ![k] = g(u)] /\ fetchers'[k] = g(u)
  BY <1>1, <1>2, <1>7
<1>10. released' = released \cup (IF g(u).processor = "ended" THEN Queued(f)
                                  ELSE Head(f.batches).inflight)
  <2>1. released' = released \cup (IF fetchers'[k].processor = "ended" THEN Queued(f)
                                   ELSE Head(f.batches).inflight)
    BY <1>2
  <2>2. QED BY <1>9, <2>1
<1>11. CASE u = {}
  <2>1. g(u) = [f EXCEPT !.batches = Tail(f.batches)]
    BY <1>11 DEF g
  <2>2. /\ g(u) \in FetchService /\ g(u).main = f.main /\ g(u).latest = f.latest
        /\ g(u).missing = f.missing /\ g(u).asked = f.asked /\ g(u).batches = Tail(f.batches)
        /\ g(u).requests = f.requests /\ g(u).processor = "ready"
    <3> HIDE DEF f
    <3>1. QED BY <1>1, <1>4, <2>1 DEF FetchService
  <2>3. released' = released \cup Head(f.batches).inflight
    BY <1>10, <2>2
  <2>4. PICK h : h = g(u)
    OBVIOUS
  <2>5. QED BY <1>1, <1>6, <1>9, <2>2, <2>3, <2>4, BatchDone
<1>12. CASE u # {} /\ f.missing = "ended"
  <2>1. g(u) = [f EXCEPT !.processor = "ended", !.batches = <<>>]
    <3> HIDE DEF f
    <3>1. QED BY <1>1, <1>12 DEF g, FetchService
  <2>2. g(u).processor = "ended"
    <3> HIDE DEF f
    <3>1. QED BY <1>1, <2>1 DEF FetchService
  <2>3. released' = released \cup Queued(f)
    BY <1>10, <2>2
  <2>4. QED BY <1>1, <1>6, <1>9, <2>1, <2>3, ProcessorEnds
<1>13. CASE u # {} /\ f.missing # "ended"
  <2> DEFINE q == Append(f.requests, u)
  <2>1. q \in Seq(SUBSET Envelope) /\ Len(q) = Len(f.requests) + 1
    BY <1>3, <1>8
  <2>2. g(u) = [f EXCEPT !.batches = Tail(f.batches), !.requests = q]
    <3> HIDE DEF f
    <3>1. QED BY <1>1, <1>13 DEF g, FetchService
  <2> HIDE DEF q
  <2>3. /\ g(u) \in FetchService /\ g(u).main = f.main /\ g(u).latest = f.latest
        /\ g(u).missing = f.missing /\ g(u).asked = f.asked /\ g(u).batches = Tail(f.batches)
        /\ g(u).requests = q /\ g(u).processor = "ready"
    <3> HIDE DEF f
    <3>1. QED BY <1>1, <1>4, <2>1, <2>2 DEF FetchService
  <2>4. released' = released \cup Head(f.batches).inflight
    BY <1>10, <2>3
  <2>5. PICK h : h = g(u)
    OBVIOUS
  <2>6. QED BY <1>1, <1>6, <1>9, <2>1, <2>3, <2>4, <2>5, BatchDone
<1>14. QED BY <1>11, <1>12, <1>13

\* Every service keeps what it holds.
LEMMA HoldingsStay ==
    ASSUME IndInv, fetchers' \in [Slot -> FetchService],
           \A l \in Slot : Fine(fetchers'[l]) /\ Held(fetchers'[l]) = Held(fetchers[l]),
           inflight' \ (released' \cup leaked') = Live, inflight' \subseteq Envelope,
           released' \subseteq inflight', leaked' \subseteq inflight', released' \cap leaked' = {},
           db' \in [Node -> Rows], \A n \in Node : Sound(db'[n]),
           db["there"].connected \subseteq db'["there"].connected,
           pushers' \in [Slot -> PushService],
           \A l \in Slot : pushers'[l].tip_tracker \cup pushers'[l].claims
                             \subseteq db'["there"].connected,
           settings' \in Seq(Service), settings' # <<>>, later' \subseteq Envelope, faults' \in Nat
    PROVE  IndInv'
<1>1. Live = UNION {Held(fetchers[k]) : k \in Slot}
      /\ \A k, l \in Slot : k # l => Held(fetchers[k]) \cap Held(fetchers[l]) = {}
  BY DEF IndInv, InflightInv
<1>2. \A l \in Slot : Fine(fetchers'[l])
  OBVIOUS
<1>3. UNION {Held(fetchers'[k]) : k \in Slot} = UNION {Held(fetchers[k]) : k \in Slot}
  OBVIOUS
<1>4. \A k, l \in Slot : k # l => Held(fetchers'[k]) \cap Held(fetchers'[l]) = {}
  BY <1>1
<1>5. QED BY <1>1, <1>2, <1>3, <1>4, Assembled

\* What the invariant says of the rest
LEMMA RestFacts ==
    ASSUME IndInv
    PROVE  /\ fetchers \in [Slot -> FetchService] /\ pushers \in [Slot -> PushService]
           /\ \A l \in Slot : Fine(fetchers[l])
           /\ \A l \in Slot : pushers[l].tip_tracker \cup pushers[l].claims
                                \subseteq db["there"].connected
           /\ settings \in Seq(Service) /\ settings # <<>> /\ later \subseteq Envelope
           /\ faults \in Nat /\ db \in [Node -> Rows] /\ \A n \in Node : Sound(db[n])
           /\ inflight \subseteq Envelope /\ released \subseteq inflight /\ leaked \subseteq inflight
           /\ released \cap leaked = {} /\ inflight \ (released \cup leaked) = Live
  BY DEF IndInv, Types, DbInv, InflightInv, ClaimsAreTrue, Live

\* A fetch service whose session is gone keeps what it holds until it learns.
LEMMA LoseFacts ==
    ASSUME NEW f, Fine(f)
    PROVE  LET g == [f EXCEPT !.latest = Lose(@), !.missing = Lose(@)]
           IN  Fine(g) /\ Held(g) = Held(f)
<1> DEFINE g == [f EXCEPT !.latest = Lose(@), !.missing = Lose(@)]
<1>1. f \in FetchService
  BY DEF Fine
<1>2. /\ Lose(f.latest) \in Subtask /\ Lose(f.missing) \in Subtask
      /\ Lose(f.latest) # "asked" /\ (Lose(f.missing) \in Asking <=> f.missing \in Asking)
  BY <1>1 DEF Lose, Subtask, FetchService, Asking
<1>3. /\ g \in FetchService /\ g.main = f.main /\ g.batches = f.batches
      /\ g.requests = f.requests /\ g.asked = f.asked /\ g.latest = Lose(f.latest)
      /\ g.missing = Lose(f.missing)
  BY <1>1, <1>2 DEF FetchService
<1>4. CASE f.main \in {"none", "finished"}
  <2>1. f.latest = "ended" /\ f.missing = "ended"
    BY <1>4 DEF Fine, IsIdle, Fetcher
  <2>2. g = f
    BY <1>1, <2>1 DEF Lose, FetchService
  <2>3. QED BY <2>2
<1>5. CASE f.main \notin {"none", "finished"}
  <2> HIDE DEF g
  <2>1. Waiting(g) = Waiting(f) /\ Held(g) = Held(f) /\ Work(g) = Work(f)
    BY <1>2, <1>3, FineFacts DEF Waiting, Held, Work
  <2>2. Load(g) <= MaxWork
    <3>1. Work(f) \in Nat /\ Load(f) <= MaxWork
      BY <1>1, WorkFacts DEF Fine
    <3>2. QED BY <1>2, <1>3, <2>1, <3>1, ServicesAssumption DEF Load
  <2>3. Fine(g)
    BY <1>3, <1>5, <2>1, <2>2, FineFacts
  <2>4. QED BY <2>1, <2>3 DEF g
<1>6. QED BY <1>4, <1>5

\* Every answer that is awaited is lost.
LEMMA SessionEnds ==
    ASSUME IndInv, session_ends, UNCHANGED <<settings, later>>, faults' \in Nat
    PROVE  IndInv'
<1>1. /\ fetchers' = [k \in Slot |-> [fetchers[k] EXCEPT !.latest = Lose(@), !.missing = Lose(@)]]
      /\ pushers' = [k \in Slot |-> [pushers[k] EXCEPT !.tracker = Lose(@), !.broadcast = Lose(@)]]
      /\ UNCHANGED <<db, inflight, released, leaked>>
  BY DEF session_ends, hashes
<1>2. ASSUME NEW l \in Slot
      PROVE  /\ fetchers'[l] \in FetchService /\ Fine(fetchers'[l])
             /\ Held(fetchers'[l]) = Held(fetchers[l])
  <2>1. Fine(fetchers[l])
    BY RestFacts
  <2>2. fetchers'[l] = [fetchers[l] EXCEPT !.latest = Lose(@), !.missing = Lose(@)]
    BY <1>1
  <2>3. Fine(fetchers'[l]) /\ Held(fetchers'[l]) = Held(fetchers[l])
    BY <2>1, <2>2, LoseFacts
  <2>4. QED BY <2>3 DEF Fine
<1>3. fetchers' \in [Slot -> FetchService]
  BY <1>1, <1>2
<1>4. ASSUME NEW l \in Slot
      PROVE  /\ pushers'[l] \in PushService /\ pushers'[l].tip_tracker = pushers[l].tip_tracker
             /\ pushers'[l].claims = pushers[l].claims
  <2>1. pushers[l] \in PushService
    BY RestFacts
  <2>2. PICK p : p = pushers[l]
    OBVIOUS
  <2>3. pushers'[l] = [p EXCEPT !.tracker = Lose(p.tracker), !.broadcast = Lose(p.broadcast)]
    BY <1>1, <2>2
  <2>4. Lose(p.tracker) \in Subtask \cup {"locked"} /\ Lose(p.broadcast) \in Subtask \cup {"notified"}
    BY <2>1, <2>2 DEF PushService, Lose, Subtask
  <2>5. QED BY <2>1, <2>2, <2>3, <2>4 DEF PushService
<1>5. pushers' \in [Slot -> PushService]
  BY <1>1, <1>4
<1>6. \A l \in Slot : pushers'[l].tip_tracker \cup pushers'[l].claims \subseteq db'["there"].connected
  BY <1>1, <1>4, RestFacts
<1>7. QED BY <1>1, <1>2, <1>3, <1>5, <1>6, RestFacts, HoldingsStay

\* The peer's answer to a request for envelopes
LEMMA FetchSpecificTips ==
    ASSUME IndInv, NEW k \in Slot, fetch_specific_tips(k)
    PROVE  IndInv'
<1> DEFINE f == fetchers[k]
           b == [envelopes |-> f.asked, inflight |-> f.asked]
<1>1. f \in FetchService /\ Fine(f) /\ faults \in Nat /\ f.missing = "asked"
      /\ UNCHANGED <<settings, later, faults>>
  BY FetcherFacts DEF fetch_specific_tips
<1>2. CASE ~(f.asked \subseteq db["there"].rows)
  <2>1. session_ends
    BY <1>2 DEF fetch_specific_tips
  <2>2. QED BY <1>1, <2>1, SessionEnds
<1>3. CASE f.asked \subseteq db["there"].rows /\ f.processor = "ended"
  <2>1. /\ fetchers' = [fetchers EXCEPT ![k] = [f EXCEPT !.missing = "ended", !.asked = {}]]
        /\ released' = released \cup f.asked
        /\ UNCHANGED <<db, pushers, inflight, leaked>>
    BY <1>3 DEF fetch_specific_tips
  <2>2. QED BY <1>1, <2>1, RequestEnds DEF Asking
<1>4. CASE f.asked \subseteq db["there"].rows /\ f.processor # "ended"
  <2> DEFINE c == Append(f.batches, b)
             g == [f EXCEPT !.missing = "ready", !.asked = {}, !.batches = c]
  <2>1. fetchers' = [fetchers EXCEPT ![k] = g]
        /\ UNCHANGED <<db, settings, pushers, hashes, later, faults>>
    BY <1>1, <1>4 DEF fetch_specific_tips, hashes
  <2>2. /\ f.batches \in Seq(Batch) /\ f.asked \in SUBSET Envelope /\ Apart(f.batches)
        /\ Q(f.batches) \cap Waiting(f) = {} /\ Load(f) <= MaxWork
        /\ f.main \notin {"none", "finished"} /\ Waiting(f) = f.asked
        /\ Held(f) = Q(f.batches) \cup f.asked
    BY <1>1, FineFacts DEF FetchService, Asking, Waiting, Held
  <2>3. b \in Batch /\ b.inflight = f.asked
    BY <2>2 DEF Batch
  <2> HIDE DEF f, b
  <2>4. /\ c \in Seq(Batch) /\ Len(c) = Len(f.batches) + 1
        /\ Q(c) = Q(f.batches) \cup f.asked /\ Apart(c)
    BY <2>2, <2>3, AppendFacts
  <2> HIDE DEF c
  <2>5. /\ g \in FetchService /\ g.main = f.main /\ g.latest = f.latest /\ g.missing = "ready"
        /\ g.asked = {} /\ g.batches = c /\ g.requests = f.requests
    BY <1>1, <2>4 DEF FetchService, Subtask
  <2> HIDE DEF g
  <2>6. Waiting(g) = {} /\ Held(g) = Held(f)
    <3>1. Waiting(g) = {}
      BY <2>5 DEF Waiting
    <3>2. QED BY <2>2, <2>4, <2>5, <3>1, FineFacts DEF Held
  <2>7. Load(g) <= MaxWork
    <3>1. Work(f) \in Nat /\ Work(g) = Work(f)
      <4> DEFINE x == Len(f.batches)
                 y == Len(f.requests)
      <4>1. x \in Nat /\ y \in Nat /\ Len(g.batches) = x + 1 /\ Len(g.requests) = y
        BY <1>1, <2>4, <2>5, WorkFacts
      <4>2. Work(f) = x + y + 1
        BY <1>1, WorkFacts DEF Asking
      <4>3. Work(g) = Len(g.batches) + Len(g.requests)
        BY <2>5, WorkFacts DEF Asking
      <4> HIDE DEF x, y
      <4>4. QED BY <4>1, <4>2, <4>3
    <3>2. QED BY <2>2, <2>5, <3>1 DEF Load
  <2>8. Fine(g)
    BY <2>2, <2>4, <2>5, <2>6, <2>7, FineFacts
  <2>9. QED BY <2>1, <2>6, <2>8, QuietFetcher DEF f
<1>5. QED BY <1>2, <1>3, <1>4

-----------------------------------------------------------------------------
(* The other steps. *)

\* A released hash is no longer in flight; no service holds one.
LEMMA RemoveInflight ==
    ASSUME IndInv, remove_inflight
    PROVE  IndInv'
<1>1. /\ inflight' = inflight \ released /\ released' = {}
      /\ UNCHANGED <<db, settings, fetchers, pushers, leaked, later, faults>>
  BY DEF remove_inflight, services
<1>2. /\ inflight \subseteq Envelope /\ released \subseteq inflight /\ leaked \subseteq inflight
      /\ released \cap leaked = {} /\ inflight \ (released \cup leaked) = Live
  BY RestFacts
<1>3. /\ inflight' \ (released' \cup leaked') = Live /\ inflight' \subseteq Envelope
      /\ released' \subseteq inflight' /\ leaked' \subseteq inflight' /\ released' \cap leaked' = {}
  BY <1>1, <1>2
<1>4. \A l \in Slot : Fine(fetchers'[l]) /\ Held(fetchers'[l]) = Held(fetchers[l])
  BY <1>1, RestFacts
<1>5. QED BY <1>1, <1>3, <1>4, RestFacts, HoldingsStay

\* The fetch services after a scan hold what they held: only one that holds nothing is
\* forgotten or started anew.
LEMMA ScanFetchers ==
    ASSUME IndInv, NEW wanted, NEW allow \in BOOLEAN,
           NEW s \in Scanned(fetchers, wanted, Fetcher("none", FALSE, "ended"),
                             Fetcher("selecting", allow, "ready"))
    PROVE  /\ s \in [Slot -> FetchService]
           /\ \A l \in Slot : Fine(s[l]) /\ Held(s[l]) = Held(fetchers[l])
<1> DEFINE none == Fetcher("none", FALSE, "ended")
           new == Fetcher("selecting", allow, "ready")
           left == [k \in Slot |->
                     IF fetchers[k].main = "finished" THEN none
                     ELSE IF fetchers[k].main = "selecting" /\ ~Kept(fetchers[k], wanted)
                     THEN [fetchers[k] EXCEPT !.main = "aborted"] ELSE fetchers[k]]
<1>1. Fine(none) /\ Held(none) = {} /\ Fine(new) /\ Held(new) = {} /\ none.main = "none"
  <2>1. "none" \in Main /\ "selecting" \in Main /\ FALSE \in BOOLEAN
    BY DEF Main
  <2>2. QED BY <2>1, IdleFacts DEF Fetcher
<1>2. ASSUME NEW l \in Slot
      PROVE  Fine(left[l]) /\ Held(left[l]) = Held(fetchers[l])
  <2> DEFINE f == fetchers[l]
  <2>1. Fine(f) /\ f \in FetchService
    BY RestFacts
  <2>2. CASE f.main = "finished"
    <3>1. f = Fetcher(f.main, f.allow, "ended") /\ f.main \in Main /\ f.allow \in BOOLEAN
      BY <2>1, <2>2 DEF Fine, IsIdle, FetchService
    <3>2. Held(f) = {}
      <4> HIDE DEF f
      <4>1. QED BY <3>1, IdleFacts, Zenon
    <3>3. left[l] = none
      BY <2>2
    <3>4. QED BY <1>1, <3>2, <3>3
  <2>3. CASE f.main = "selecting" /\ ~Kept(f, wanted)
    <3> DEFINE g == [f EXCEPT !.main = "aborted"]
    <3>1. left[l] = g
      BY <2>3
    <3> HIDE DEF f
    <3>2. /\ g \in FetchService /\ g.main = "aborted" /\ g.latest = f.latest
          /\ g.missing = f.missing /\ g.asked = f.asked /\ g.batches = f.batches
          /\ g.requests = f.requests
      BY <2>1 DEF FetchService, Main
    <3> HIDE DEF g
    <3>3. Waiting(g) = Waiting(f) /\ Held(g) = Held(f) /\ Work(g) = Work(f)
          /\ Load(g) = Load(f)
      BY <3>2, FineFacts DEF Waiting, Held, Work, Load
    <3>4. Fine(g)
      BY <2>1, <3>2, <3>3, FineFacts
    <3>5. QED BY <3>1, <3>3, <3>4 DEF f
  <2>4. CASE ~(f.main = "finished") /\ ~(f.main = "selecting" /\ ~Kept(f, wanted))
    <3>1. left[l] = f
      BY <2>4
    <3>2. QED BY <2>1, <3>1
  <2>5. QED BY <2>2, <2>3, <2>4
<1>3. s = left \/ \E k \in Slot : left[k] = none /\ s = [left EXCEPT ![k] = new]
  BY DEF Scanned
<1>4. left = [l \in Slot |-> left[l]]
  OBVIOUS
<1> HIDE DEF none, new, left
<1>5. ASSUME NEW l \in Slot PROVE Fine(s[l]) /\ Held(s[l]) = Held(fetchers[l])
  <2>1. CASE s = left
    BY <1>2, <2>1
  <2>2. CASE s # left
    <3>1. PICK k \in Slot : left[k] = none /\ s = [left EXCEPT ![k] = new]
      BY <1>3, <2>2
    <3>2. CASE l = k
      <4>1. s[l] = new
        BY <1>4, <3>1, <3>2
      <4>2. QED BY <1>1, <1>2, <3>1, <3>2, <4>1
    <3>3. CASE l # k
      <4>1. s[l] = left[l]
        BY <1>4, <3>1, <3>3
      <4>2. QED BY <1>2, <4>1
    <3>4. QED BY <3>2, <3>3
  <2>3. QED BY <2>1, <2>2
<1>6. s = [l \in Slot |-> s[l]]
  BY <1>3, <1>4
<1>7. \A l \in Slot : s[l] \in FetchService
  BY <1>5 DEF Fine
<1>8. QED BY <1>5, <1>6, <1>7

\* The push services after a scan track and claim no more than before.
LEMMA ScanPushers ==
    ASSUME IndInv, NEW wanted, NEW allow \in BOOLEAN,
           NEW s \in Scanned(pushers, wanted, Pusher("none", FALSE, "ended"),
                             Pusher("selecting", allow, "ready"))
    PROVE  /\ s \in [Slot -> PushService]
           /\ \A l \in Slot : s[l].tip_tracker \cup s[l].claims \subseteq db["there"].connected
<1> DEFINE none == Pusher("none", FALSE, "ended")
           new == Pusher("selecting", allow, "ready")
           left == [k \in Slot |->
                     IF pushers[k].main = "finished" THEN none
                     ELSE IF pushers[k].main = "selecting" /\ ~Kept(pushers[k], wanted)
                     THEN [pushers[k] EXCEPT !.main = "aborted"] ELSE pushers[k]]
           True(p) == /\ p \in PushService
                      /\ p.tip_tracker \cup p.claims \subseteq db["there"].connected
<1>1. True(none) /\ True(new)
  BY DEF Pusher, PushService, Main, Subtask
<1>2. ASSUME NEW l \in Slot PROVE True(left[l])
  <2> DEFINE p == pushers[l]
  <2>1. True(p)
    BY RestFacts
  <2>2. [p EXCEPT !.main = "aborted"] \in PushService
        /\ [p EXCEPT !.main = "aborted"].tip_tracker = p.tip_tracker
        /\ [p EXCEPT !.main = "aborted"].claims = p.claims
    <3> HIDE DEF p
    <3>1. QED BY <2>1 DEF PushService, Main
  <2>3. True([p EXCEPT !.main = "aborted"])
    BY <2>1, <2>2
  <2>4. left[l] \in {none, [p EXCEPT !.main = "aborted"], p}
    OBVIOUS
  <2> HIDE DEF p, True, none, left
  <2>5. QED BY <1>1, <2>1, <2>3, <2>4
<1>3. s = left \/ \E k \in Slot : s = [left EXCEPT ![k] = new]
  BY DEF Scanned
<1>4. left = [l \in Slot |-> left[l]]
  OBVIOUS
<1> HIDE DEF none, new, left, True
<1>5. ASSUME NEW l \in Slot PROVE True(s[l])
  <2>1. CASE s = left
    BY <1>2, <2>1
  <2>2. CASE s # left
    <3>1. PICK k \in Slot : s = [left EXCEPT ![k] = new]
      BY <1>3, <2>2
    <3>2. s[l] = new \/ s[l] = left[l]
      BY <1>4, <3>1
    <3>3. QED BY <1>1, <1>2, <3>2
  <2>3. QED BY <2>1, <2>2
<1>6. s = [l \in Slot |-> s[l]]
  BY <1>3, <1>4
<1>7. QED BY <1>5, <1>6 DEF True

\* startup's scan of the peer's services
LEMMA Scan ==
    ASSUME IndInv, scan
    PROVE  IndInv'
<1>1. settings[1].allow_unsolicited_tips \in BOOLEAN
  <2>1. settings[1] \in Service
    BY RestFacts
  <2>2. QED BY <2>1 DEF Service
<1>2. PICK allow \in BOOLEAN : allow = settings[1].allow_unsolicited_tips
  BY <1>1
<1>3. PICK s : s = fetchers'
  OBVIOUS
<1>4. PICK t : t = pushers'
  OBVIOUS
<1>5. PICK w : w = settings[1].fetch_from
  OBVIOUS
<1>6. PICK v : v = settings[1].push_to
  OBVIOUS
<1>7. /\ s \in Scanned(fetchers, w, Fetcher("none", FALSE, "ended"),
                       Fetcher("selecting", allow, "ready"))
      /\ t \in Scanned(pushers, v, Pusher("none", FALSE, "ended"),
                       Pusher("selecting", allow, "ready"))
  BY <1>2, <1>3, <1>4, <1>5, <1>6 DEF scan
<1>8. UNCHANGED <<db, settings, inflight, released, leaked, later, faults>>
  BY DEF scan, hashes
<1>9. /\ fetchers' \in [Slot -> FetchService]
      /\ \A l \in Slot : Fine(fetchers'[l]) /\ Held(fetchers'[l]) = Held(fetchers[l])
  BY <1>3, <1>7, ScanFetchers
<1>10. /\ pushers' \in [Slot -> PushService]
       /\ \A l \in Slot : pushers'[l].tip_tracker \cup pushers'[l].claims
                            \subseteq db'["there"].connected
  BY <1>4, <1>7, <1>8, ScanPushers
<1>11. QED BY <1>8, <1>9, <1>10, RestFacts, HoldingsStay

\* The user changes the peer's settings.
LEMMA UpsertHiddenService ==
    ASSUME IndInv, upsert_hidden_service
    PROVE  IndInv'
<1>1. /\ Len(settings) > 1 /\ settings' = Tail(settings)
      /\ UNCHANGED <<db, fetchers, pushers, inflight, released, leaked, later, faults>>
  BY DEF upsert_hidden_service, services, hashes
<1>2. settings' \in Seq(Service) /\ settings' # <<>>
  <2>1. settings \in Seq(Service) /\ settings # <<>>
    BY RestFacts
  <2>2. Tail(settings) \in Seq(Service) /\ Len(Tail(settings)) = Len(settings) - 1
    BY <2>1
  <2>3. Len(settings) \in Nat
    BY <2>1
  <2>4. Len(Tail(settings)) # 0
    <3> DEFINE n == Len(settings)
               m == Len(Tail(settings))
    <3>1. n \in Nat /\ n > 1 /\ m = n - 1
      BY <1>1, <2>2, <2>3
    <3> HIDE DEF n, m
    <3>2. m # 0
      BY <3>1
    <3>3. QED BY <3>2 DEF m
  <2>5. ASSUME Tail(settings) = <<>> PROVE FALSE
    <3>1. Len(<<>>) = 0
      OBVIOUS
    <3>2. QED BY <2>4, <2>5, <3>1, Zenon
  <2>6. QED BY <1>1, <2>2, <2>5
<1>3. \A l \in Slot : Fine(fetchers'[l]) /\ Held(fetchers'[l]) = Held(fetchers[l])
  BY <1>1, RestFacts
<1>4. QED BY <1>1, <1>2, <1>3, RestFacts, HoldingsStay

\* Only a database changes, and the peer's loses no connected row.
LEMMA DatabaseStep ==
    ASSUME IndInv, NEW n \in Node, NEW d, Sound(d), db[n].connected \subseteq d.connected,
           db' = [db EXCEPT ![n] = d], UNCHANGED <<settings, services, hashes, faults>>,
           later' \subseteq Envelope
    PROVE  IndInv'
<1>1. UNCHANGED <<settings, fetchers, pushers, inflight, released, leaked, faults>>
  BY DEF services, hashes
<1>2. db \in [Node -> Rows] /\ \A m \in Node : Sound(db[m])
  BY RestFacts
<1>3. d \in Rows
  BY DEF Sound
<1>4. /\ db' \in [Node -> Rows] /\ \A m \in Node : Sound(db'[m])
      /\ db["there"].connected \subseteq db'["there"].connected
  BY <1>2, <1>3 DEF Node
<1>5. \A l \in Slot : Fine(fetchers'[l]) /\ Held(fetchers'[l]) = Held(fetchers[l])
  BY <1>1, RestFacts
<1>6. \A l \in Slot : pushers'[l].tip_tracker \cup pushers'[l].claims
                        \subseteq db'["there"].connected
  BY <1>1, <1>4, RestFacts
<1>7. QED BY <1>1, <1>4, <1>5, <1>6, RestFacts, HoldingsStay

\* _tip_attacher
LEMMA AttachTips ==
    ASSUME IndInv, NEW n \in Node, attach_tips(n)
    PROVE  IndInv'
<1> DEFINE d == [db[n] EXCEPT !.connected = Complete(db[n].rows)]
<1>1. Sound(db[n]) /\ db \in [Node -> Rows]
  BY RestFacts
<1>2. Sound(d)
  BY <1>1, AttachFacts
<1>3. db[n].connected \subseteq d.connected
  <2>1. db[n].connected \subseteq Complete(db[n].rows)
    BY <1>1, AttachFacts
  <2>2. d.connected = Complete(db[n].rows)
    BY <1>1 DEF Rows
  <2>3. QED BY <2>1, <2>2
<1>4. db' = [db EXCEPT ![n] = d] /\ UNCHANGED <<settings, services, hashes, faults>>
      /\ later' \subseteq Envelope
  BY RestFacts DEF attach_tips
<1> HIDE DEF d
<1>5. QED BY <1>2, <1>3, <1>4, DatabaseStep

\* The peer gets an envelope from elsewhere.
LEMMA Arrives ==
    ASSUME IndInv, NEW e \in Envelope, arrives(e)
    PROVE  IndInv'
<1> DEFINE there == db["there"]
           d == IF height(e) = 0 THEN insert_user_by_genesis_envelope(there, e)
                ELSE TryInsert(there, {e})
<1>1. Sound(there) /\ "there" \in Node
  BY RestFacts DEF Node
<1>2. Sound(d) /\ there.connected \subseteq d.connected
  <2> HIDE DEF there
  <2>1. {e} \in SUBSET Envelope
    OBVIOUS
  <2>2. CASE height(e) = 0
    BY <1>1, <2>2, GenesisFacts
  <2>3. CASE height(e) # 0
    BY <1>1, <2>1, <2>3, InsertFacts
  <2>4. QED BY <2>2, <2>3
<1>3. db' = [db EXCEPT !["there"] = d] /\ UNCHANGED <<settings, services, hashes, faults>>
      /\ later' \subseteq Envelope
  BY RestFacts DEF arrives
<1> HIDE DEF d
<1>4. QED BY <1>1, <1>2, <1>3, DatabaseStep

\* One push service changes, and claims no more than the peer has.
LEMMA PusherStep ==
    ASSUME IndInv, NEW k \in Slot, NEW p \in PushService, pushers' = [pushers EXCEPT ![k] = p],
           UNCHANGED <<settings, fetchers, hashes, later, faults>>,
           db' \in [Node -> Rows], \A m \in Node : Sound(db'[m]),
           db["there"].connected \subseteq db'["there"].connected,
           p.tip_tracker \cup p.claims \subseteq db'["there"].connected
    PROVE  IndInv'
<1>1. UNCHANGED <<settings, fetchers, inflight, released, leaked, later, faults>>
  BY DEF hashes
<1>2. \A l \in Slot : Fine(fetchers'[l]) /\ Held(fetchers'[l]) = Held(fetchers[l])
  BY <1>1, RestFacts
<1>3. pushers \in [Slot -> PushService]
  BY RestFacts
<1>4. pushers' \in [Slot -> PushService]
  BY <1>3
<1>5. ASSUME NEW l \in Slot
      PROVE  pushers'[l].tip_tracker \cup pushers'[l].claims \subseteq db'["there"].connected
  <2>1. CASE l = k
    BY <1>3, <2>1
  <2>2. CASE l # k
    <3>1. pushers'[l] = pushers[l]
      BY <1>3, <2>2
    <3>2. pushers[l].tip_tracker \cup pushers[l].claims \subseteq db["there"].connected
      BY RestFacts
    <3>3. QED BY <3>1, <3>2
  <2>3. QED BY <2>1, <2>2
<1>6. QED BY <1>1, <1>2, <1>4, <1>5, RestFacts, HoldingsStay

\* The same when the databases stay.
LEMMA QuietPusher ==
    ASSUME IndInv, NEW k \in Slot, NEW p \in PushService, pushers' = [pushers EXCEPT ![k] = p],
           UNCHANGED <<db, settings, fetchers, hashes, later, faults>>,
           p.tip_tracker \cup p.claims \subseteq db["there"].connected
    PROVE  IndInv'
<1>1. db' = db /\ UNCHANGED <<settings, fetchers, hashes, later, faults>>
  OBVIOUS
<1>2. /\ db' \in [Node -> Rows] /\ \A m \in Node : Sound(db'[m])
      /\ db["there"].connected \subseteq db'["there"].connected
      /\ p.tip_tracker \cup p.claims \subseteq db'["there"].connected
  BY <1>1, RestFacts
<1>3. QED BY <1>1, <1>2, PusherStep

\* What the invariant says of one push service
LEMMA PusherFacts ==
    ASSUME IndInv, NEW k \in Slot
    PROVE  /\ pushers[k] \in PushService
           /\ pushers[k].tip_tracker \subseteq db["there"].connected
           /\ pushers[k].claims \subseteq db["there"].connected
           /\ pushers[k].tip_tracker \subseteq Envelope
           /\ db["there"].connected \subseteq Envelope
<1>1. pushers[k] \in PushService /\ Sound(db["there"])
      /\ pushers[k].tip_tracker \cup pushers[k].claims \subseteq db["there"].connected
  BY RestFacts DEF Node
<1>2. QED BY <1>1 DEF PushService, Sound, Rows

\* The first task of a push service that ends ends it.
LEMMA PushSelect ==
    ASSUME IndInv, NEW k \in Slot, push_select(k)
    PROVE  IndInv'
<1> DEFINE p == Pusher("finished", pushers[k].allow, "ended")
<1>1. p \in PushService /\ p.tip_tracker = {} /\ p.claims = {}
  <2>1. pushers[k].allow \in BOOLEAN
    BY PusherFacts DEF PushService
  <2>2. QED BY <2>1 DEF Pusher, PushService, Main, Subtask
<1>2. pushers' = [pushers EXCEPT ![k] = p]
      /\ UNCHANGED <<db, settings, fetchers, hashes, later, faults>>
  BY DEF push_select
<1> HIDE DEF p
<1>3. QED BY <1>1, <1>2, QuietPusher

\* t1 asks for the claims.
LEMMA AskClaims ==
    ASSUME IndInv, NEW k \in Slot, ask_claims(k)
    PROVE  IndInv'
<1> DEFINE q == pushers[k]
           p == [q EXCEPT !.tracker = "asked"]
<1>1. q \in PushService /\ q.tip_tracker \cup q.claims \subseteq db["there"].connected
  BY PusherFacts
<1>2. pushers' = [pushers EXCEPT ![k] = p]
      /\ UNCHANGED <<db, settings, fetchers, hashes, later, faults>>
  BY DEF ask_claims, SetPusher
<1> HIDE DEF q
<1>3. p \in PushService /\ p.tip_tracker = q.tip_tracker /\ p.claims = q.claims
  BY <1>1 DEF PushService, Subtask
<1> HIDE DEF p
<1>4. QED BY <1>1, <1>2, <1>3, QuietPusher

\* The claims are the peer's connected tips when it answers.
LEMMA AnswerClaims ==
    ASSUME IndInv, NEW k \in Slot, answer_claims(k)
    PROVE  IndInv'
<1> DEFINE q == pushers[k]
           c == get_tips_for_all_users(db["there"])
           p == [q EXCEPT !.tracker = "locked", !.claims = c]
<1>1. q \in PushService /\ q.tip_tracker \cup q.claims \subseteq db["there"].connected
  BY PusherFacts
<1>2. pushers' = [pushers EXCEPT ![k] = p]
      /\ UNCHANGED <<db, settings, fetchers, hashes, later, faults>>
  BY DEF answer_claims, SetPusher
<1>3. c \subseteq Envelope /\ c \subseteq db["there"].connected
  BY TipsFacts DEF Node
<1> HIDE DEF q, c
<1>4. p \in PushService /\ p.tip_tracker = q.tip_tracker /\ p.claims = c
  BY <1>1, <1>3 DEF PushService
<1> HIDE DEF p
<1>5. QED BY <1>1, <1>2, <1>3, <1>4, QuietPusher

\* What is tracked then was tracked or claimed.
LEMMA UpdateTipTracker ==
    ASSUME IndInv, NEW k \in Slot, update_tip_tracker(k)
    PROVE  IndInv'
<1> DEFINE q == pushers[k]
           t == Advance(q.tip_tracker, q.claims)
           p == [q EXCEPT !.tracker = "ready", !.claims = {}, !.notified = TRUE,
                          !.tip_tracker = t]
<1>1. /\ q \in PushService /\ q.tip_tracker \cup q.claims \subseteq db["there"].connected
      /\ db["there"].connected \subseteq Envelope
  BY PusherFacts
<1>2. pushers' = [pushers EXCEPT ![k] = p]
      /\ UNCHANGED <<db, settings, fetchers, hashes, later, faults>>
  BY DEF update_tip_tracker, SetPusher
<1>3. t \subseteq q.tip_tracker \cup q.claims
  BY DEF Advance
<1>4. t \subseteq Envelope /\ t \subseteq db["there"].connected
  BY <1>1, <1>3
<1> HIDE DEF q, t
<1>5. p \in PushService /\ p.tip_tracker = t /\ p.claims = {}
  BY <1>1, <1>4 DEF PushService, Subtask
<1> HIDE DEF p
<1>6. QED BY <1>2, <1>4, <1>5, QuietPusher

\* t2 sees a notification.
LEMMA WaitNewTips ==
    ASSUME IndInv, NEW k \in Slot, wait_new_tips(k)
    PROVE  IndInv'
<1> DEFINE q == pushers[k]
           p == [q EXCEPT !.broadcast = "notified", !.notified = FALSE]
<1>1. q \in PushService /\ q.tip_tracker \cup q.claims \subseteq db["there"].connected
  BY PusherFacts
<1>2. pushers' = [pushers EXCEPT ![k] = p]
      /\ UNCHANGED <<db, settings, fetchers, hashes, later, faults>>
  BY DEF wait_new_tips, SetPusher
<1> HIDE DEF q
<1>3. p \in PushService /\ p.tip_tracker = q.tip_tracker /\ p.claims = q.claims
  BY <1>1 DEF PushService
<1> HIDE DEF p
<1>4. QED BY <1>1, <1>2, <1>3, QuietPusher

\* t2 posts what the peer lacks, or skips when t1 has the lock.
LEMMA Broadcast ==
    ASSUME IndInv, NEW k \in Slot, broadcast(k)
    PROVE  IndInv'
<1> DEFINE q == pushers[k]
           m == ToBroadcast(q)
           p == IF q.tracker = "locked" \/ m = {} THEN [q EXCEPT !.broadcast = "ready"]
                ELSE [q EXCEPT !.broadcast = "asked", !.posting = m]
<1>1. q \in PushService /\ q.tip_tracker \cup q.claims \subseteq db["there"].connected
  BY PusherFacts
<1>2. pushers' = [pushers EXCEPT ![k] = p]
      /\ UNCHANGED <<db, settings, fetchers, hashes, later, faults>>
  BY DEF broadcast, SetPusher
<1>3. m \subseteq Envelope
  <2>1. Sound(db["here"])
    BY RestFacts DEF Node
  <2>2. db["here"].connected \subseteq Envelope /\ db["here"].rows \subseteq Envelope
    BY <2>1 DEF Sound, Rows
  <2>3. QED BY <2>2 DEF ToBroadcast, get_connected_messages_newer_than_envelopes,
                        get_all_genesis
<1> HIDE DEF q, m
<1>4. p \in PushService /\ p.tip_tracker = q.tip_tracker /\ p.claims = q.claims
  <2>1. CASE q.tracker = "locked" \/ m = {}
    BY <1>1, <2>1 DEF PushService, Subtask
  <2>2. CASE ~(q.tracker = "locked" \/ m = {})
    BY <1>1, <1>3, <2>2 DEF PushService, Subtask
  <2>3. QED BY <2>1, <2>2
<1> HIDE DEF p
<1>5. QED BY <1>1, <1>2, <1>4, QuietPusher

\* The peer stores what is posted, and what it had.
LEMMA PostEnvelope ==
    ASSUME IndInv, NEW k \in Slot, post_envelope(k)
    PROVE  IndInv'
<1> DEFINE q == pushers[k]
           d == TryInsert(db["there"], q.posting)
           p == IF q.broadcast = "lost" THEN q
                ELSE [q EXCEPT !.broadcast = "ready", !.posting = {}]
<1>1. q \in PushService /\ q.tip_tracker \cup q.claims \subseteq db["there"].connected
  BY PusherFacts
<1>2. /\ pushers' = [pushers EXCEPT ![k] = p] /\ db' = [db EXCEPT !["there"] = d]
      /\ UNCHANGED <<settings, fetchers, hashes, later, faults>>
  BY DEF post_envelope, SetPusher
<1>3. /\ db \in [Node -> Rows] /\ (\A m \in Node : Sound(db[m])) /\ "there" \in Node
      /\ q.posting \in SUBSET Envelope
  BY <1>1, RestFacts DEF Node, PushService
<1>4. Sound(d) /\ db["there"].connected \subseteq d.connected
  BY <1>3, InsertFacts
<1> HIDE DEF q, d
<1>5. p \in PushService /\ p.tip_tracker = q.tip_tracker /\ p.claims = q.claims
  <2>1. CASE q.broadcast = "lost"
    BY <1>1, <2>1
  <2>2. CASE q.broadcast # "lost"
    BY <1>1, <2>2 DEF PushService, Subtask
  <2>3. QED BY <2>1, <2>2
<1> HIDE DEF p
<1>6. d \in Rows
  BY <1>4 DEF Sound
<1>7. /\ db' \in [Node -> Rows] /\ (\A m \in Node : Sound(db'[m])) /\ db'["there"] = d
  BY <1>2, <1>3, <1>4, <1>6
<1>8. p.tip_tracker \cup p.claims \subseteq db'["there"].connected
      /\ db["there"].connected \subseteq db'["there"].connected
  BY <1>1, <1>4, <1>5, <1>7
<1>9. QED BY <1>2, <1>5, <1>7, <1>8, PusherStep

\* A push task learns that its session is gone.
LEMMA PushFails ==
    ASSUME IndInv, NEW k \in Slot, push_fails(k)
    PROVE  IndInv'
<1> DEFINE q == pushers[k]
           p1 == [q EXCEPT !.tracker = "ended"]
           p2 == [q EXCEPT !.broadcast = "ended", !.posting = {}]
<1>1. q \in PushService /\ q.tip_tracker \cup q.claims \subseteq db["there"].connected
  BY PusherFacts
<1>2. /\ pushers' = [pushers EXCEPT ![k] = p1] \/ pushers' = [pushers EXCEPT ![k] = p2]
      /\ UNCHANGED <<db, settings, fetchers, hashes, later, faults>>
  BY DEF push_fails, SetPusher
<1> HIDE DEF q
<1>3. /\ p1 \in PushService /\ p1.tip_tracker = q.tip_tracker /\ p1.claims = q.claims
      /\ p2 \in PushService /\ p2.tip_tracker = q.tip_tracker /\ p2.claims = q.claims
  BY <1>1 DEF PushService, Subtask
<1> HIDE DEF p1, p2
<1>4. CASE pushers' = [pushers EXCEPT ![k] = p1]
  BY <1>1, <1>2, <1>3, <1>4, QuietPusher
<1>5. CASE pushers' = [pushers EXCEPT ![k] = p2]
  BY <1>1, <1>2, <1>3, <1>5, QuietPusher
<1>6. QED BY <1>2, <1>4, <1>5

-----------------------------------------------------------------------------
(* The theorems. *)

\* At first nothing is in flight, and the databases are sound.
LEMMA InitIndInv == Init => IndInv
<1> SUFFICES ASSUME Init PROVE IndInv
  OBVIOUS
<1>1. PICK s \in Scenario :
        /\ db = [n \in Node |-> IF n = "here" THEN Db(s.here) ELSE Db(s.there)]
        /\ settings = s.settings /\ later = s.later /\ faults = s.faults
        /\ fetchers = [k \in Slot |-> Fetcher("none", FALSE, "ended")]
        /\ pushers = [k \in Slot |-> Pusher("none", FALSE, "ended")]
        /\ inflight = {} /\ released = {} /\ leaked = {}
  BY DEF Init
<1>2. /\ s.here \subseteq Envelope /\ s.there \subseteq Envelope /\ s.later \subseteq Envelope
      /\ s.settings \in Seq(Service) /\ s.settings # <<>> /\ s.faults \in Nat
  BY ServicesAssumption
<1>3. ASSUME NEW r \in SUBSET Envelope PROVE Sound(Db(r))
  <2> DEFINE c == Complete(r)
  <2>1. c \subseteq r
    BY DEF Complete
  <2>2. Db(r) = [rows |-> r, connected |-> c]
    BY DEF Db
  <2> HIDE DEF c
  <2>3. Db(r) \in Rows /\ Db(r).rows = r /\ Db(r).connected = c
    BY <2>1, <2>2 DEF Rows
  <2>4. QED BY <2>3 DEF Sound, c
<1>4. DbInv
  <2>1. Sound(Db(s.here)) /\ Sound(Db(s.there))
    BY <1>2, <1>3
  <2>2. Db(s.here) \in Rows /\ Db(s.there) \in Rows
    BY <2>1 DEF Sound
  <2>3. QED BY <1>1, <2>1, <2>2 DEF DbInv
<1> DEFINE f == Fetcher("none", FALSE, "ended")
           p == Pusher("none", FALSE, "ended")
<1>5. Fine(f) /\ Held(f) = {} /\ f \in FetchService
  <2>1. "none" \in Main /\ FALSE \in BOOLEAN
    BY DEF Main
  <2>2. Fine(f) /\ Held(f) = {}
    BY <2>1, IdleFacts
  <2>3. QED BY <2>2 DEF Fine
<1>6. p \in PushService /\ p.tip_tracker = {} /\ p.claims = {}
  BY DEF Pusher, PushService, Main, Subtask
<1> HIDE DEF f, p
<1>7. fetchers = [k \in Slot |-> f] /\ pushers = [k \in Slot |-> p]
  BY <1>1 DEF f, p
<1>8. Types
  BY <1>1, <1>2, <1>5, <1>6, <1>7 DEF Types
<1>9. \A k \in Slot : Fine(fetchers[k]) /\ Held(fetchers[k]) = {}
  BY <1>5, <1>7
<1>10. InflightInv
  BY <1>1, <1>9 DEF InflightInv, Live
<1>11. ClaimsAreTrue
  BY <1>6, <1>7 DEF ClaimsAreTrue
<1>12. QED BY <1>4, <1>8, <1>9, <1>10, <1>11 DEF IndInv

\* Every step keeps the invariant.
LEMMA NextIndInv == IndInv /\ [Next]_vars => IndInv'
<1> SUFFICES ASSUME IndInv, [Next]_vars PROVE IndInv'
  OBVIOUS
<1>1. ASSUME NEW n \in Node, attach_tips(n) PROVE IndInv'
  BY <1>1, AttachTips
<1>2. ASSUME NEW e \in Envelope, arrives(e) PROVE IndInv'
  BY <1>2, Arrives
<1>3. CASE upsert_hidden_service
  BY <1>3, UpsertHiddenService
<1>4. CASE scan
  BY <1>4, Scan
<1>5. CASE session_lost
  <2>1. session_ends /\ UNCHANGED <<settings, later>> /\ faults > 0 /\ faults' = faults - 1
    BY <1>5 DEF session_lost
  <2>2. faults' \in Nat
    BY <2>1, RestFacts
  <2>3. QED BY <2>1, <2>2, SessionEnds
<1>6. CASE remove_inflight
  BY <1>6, RemoveInflight
<1>7. ASSUME NEW k \in Slot, FetchTask(k) PROVE IndInv'
  BY <1>7, FetchSelect, GetLatestTips, FetchLatestTips, LatestTipsNotReceived, HandleEnvelope,
     ProcessorFails, EnvelopeProcessorEnds, GetTips, FetchSpecificTips, TipsNotFetched,
     MissingEnvelopeFetcherEnds DEF FetchTask
<1>8. ASSUME NEW k \in Slot, PushTask(k) PROVE IndInv'
  BY <1>8, PushSelect, AskClaims, AnswerClaims, UpdateTipTracker, WaitNewTips, Broadcast,
     PostEnvelope, PushFails DEF PushTask
<1>9. CASE UNCHANGED vars
  <2>1. UNCHANGED <<db, settings, fetchers, pushers, inflight, released, leaked, later, faults>>
    BY <1>9 DEF vars
  <2>2. \A l \in Slot : Fine(fetchers'[l]) /\ Held(fetchers'[l]) = Held(fetchers[l])
    BY <2>1, RestFacts
  <2>3. QED BY <2>1, <2>2, RestFacts, HoldingsStay
<1>10. QED
  BY <1>1, <1>2, <1>3, <1>4, <1>5, <1>6, <1>7, <1>8, <1>9 DEF Next

\* So it holds in every state of every behaviour.
LEMMA Invariance == Spec => []IndInv
<1>1. QED BY InitIndInv, NextIndInv, PTL DEF Spec

\* What is forgotten are envelopes.
Remembered == forgotten \subseteq Envelope

\* A service has only envelopes to fetch.
LEMMA ToFetchFacts ==
    ASSUME NEW f \in FetchService
    PROVE  /\ ToFetch(f) \subseteq Envelope /\ Queued(f) \subseteq Envelope
           /\ f.asked \subseteq Envelope /\ UNION Range(f.requests) \subseteq Envelope
           /\ f.requests # <<>> => Head(f.requests) \subseteq Envelope
           /\ f.batches # <<>> => Head(f.batches).envelopes \in SUBSET Envelope
<1>1. /\ f.asked \in SUBSET Envelope /\ f.requests \in Seq(SUBSET Envelope)
      /\ f.batches \in Seq(Batch)
  BY DEF FetchService
<1>2. \A i \in DOMAIN f.requests : f.requests[i] \in SUBSET Envelope
  BY <1>1
<1>3. UNION Range(f.requests) \subseteq Envelope
  BY <1>2 DEF Range
<1>4. \A i \in DOMAIN f.batches : f.batches[i] \in Batch
  BY <1>1
<1>5. Queued(f) \subseteq Envelope
  BY <1>4 DEF Queued, Batch
<1>6. f.batches # <<>> => Head(f.batches).envelopes \in SUBSET Envelope
  BY <1>1, TailFacts DEF Batch
<1>7. f.requests # <<>> => Head(f.requests) \subseteq Envelope
  BY <1>1
<1>8. ToFetch(f) \subseteq Envelope
  <2> DEFINE a == f.asked
             b == UNION Range(f.requests)
             c == Queued(f)
  <2>1. a \subseteq Envelope /\ b \subseteq Envelope /\ c \subseteq Envelope
    BY <1>1, <1>3, <1>5
  <2>2. ToFetch(f) = a \cup c \cup b
    BY DEF ToFetch
  <2> HIDE DEF a, b, c
  <2>3. QED BY <2>1, <2>2
<1>9. f.asked \subseteq Envelope
  BY <1>1
<1>10. QED BY <1>3, <1>5, <1>6, <1>7, <1>8, <1>9, Zenon

\* No step forgets anything else.
LEMMA RememberedStep ==
    ASSUME IndInv, Remembered, [Next]_vars
    PROVE  Remembered'
<1> USE DEF Remembered
<1>1. ASSUME NEW k \in Slot
      PROVE  fetchers[k] \in FetchService
  BY FetcherFacts
<1>2. ASSUME NEW k \in Slot, FetchTask(k) PROVE Remembered'
  <2> DEFINE f == fetchers[k]
  <2>1. f \in FetchService
    BY <1>1
  <2>2. CASE fetch_select(k)
    BY <2>1, <2>2, ToFetchFacts DEF fetch_select
  <2>3. CASE fetch_specific_tips(k)
    BY <2>1, <2>3, ToFetchFacts DEF fetch_specific_tips, session_ends, hashes
  <2>4. CASE tips_not_fetched(k)
    BY <2>1, <2>4, ToFetchFacts DEF tips_not_fetched
  <2>5. CASE get_tips(k)
    BY <2>1, <2>5, ToFetchFacts DEF get_tips
  <2>6. CASE processor_fails(k)
    <3>1. f.batches # <<>>
      BY <2>6 DEF processor_fails
    <3>2. PICK order \in SetToSeqs(Head(f.batches).envelopes) : \E n \in 0..Len(order) :
            /\ db' = [db EXCEPT !["here"] = HandleAll(order, f.allow)[n].db]
            /\ forgotten' = forgotten \cup Queued(f) \cup HandleAll(order, f.allow)[n].tips
      BY <2>6 DEF processor_fails
    <3>3. order \in Seq(Envelope)
      BY <2>1, <3>1, ToFetchFacts, OrderFacts
    <3>4. PICK n \in 0..Len(order) :
            /\ db' = [db EXCEPT !["here"] = HandleAll(order, f.allow)[n].db]
            /\ forgotten' = forgotten \cup Queued(f) \cup HandleAll(order, f.allow)[n].tips
      BY <3>2
    <3> DEFINE tips == HandleAll(order, f.allow)[n].tips
    <3>5. tips \in SUBSET Envelope
      BY <3>3, <3>4, BatchFacts
    <3>6. forgotten' = forgotten \cup Queued(f) \cup tips
      BY <3>4
    <3> HIDE DEF tips
    <3>7. QED BY <2>1, <3>5, <3>6, ToFetchFacts
  <2>7. CASE handle_envelope(k)
    <3> DEFINE r(order) == HandleAll(order, f.allow)[Len(order)]
    <3>1. f.batches # <<>>
      BY <2>7 DEF handle_envelope
    <3>2. PICK order \in SetToSeqs(Head(f.batches).envelopes) :
            /\ db' = [db EXCEPT !["here"] = r(order).db]
            /\ forgotten' = IF fetchers'[k].processor = "ended"
                            THEN forgotten \cup Queued(f) \cup (r(order).tips \ r(order).db.rows)
                            ELSE forgotten
      BY <2>7 DEF handle_envelope
    <3>3. order \in Seq(Envelope) /\ Len(order) \in 0..Len(order)
      BY <2>1, <3>1, ToFetchFacts, OrderFacts
    <3> DEFINE tips == r(order).tips
    <3>4. tips \in SUBSET Envelope
      BY <3>2, <3>3, BatchFacts
    <3>5. forgotten' = forgotten \/ forgotten' \subseteq forgotten \cup Queued(f) \cup tips
      BY <3>2
    <3> HIDE DEF tips
    <3>6. QED BY <2>1, <3>4, <3>5, ToFetchFacts
  <2>8. CASE \/ get_latest_tips(k) \/ fetch_latest_tips(k) \/ latest_tips_not_received(k)
             \/ envelope_processor_ends(k) \/ missing_envelope_fetcher_ends(k)
    BY <2>8 DEF get_latest_tips, fetch_latest_tips, latest_tips_not_received,
                envelope_processor_ends, missing_envelope_fetcher_ends, hashes
  <2>9. QED BY <1>2, <2>2, <2>3, <2>4, <2>5, <2>6, <2>7, <2>8 DEF FetchTask
<1>3. ASSUME NEW k \in Slot, PushTask(k) PROVE Remembered'
  BY <1>3 DEF PushTask, push_select, ask_claims, answer_claims, update_tip_tracker,
     wait_new_tips, broadcast, post_envelope, push_fails, SetPusher, hashes
<1>4. CASE \/ \E n \in Node : attach_tips(n)
           \/ \E e \in Envelope : arrives(e)
           \/ upsert_hidden_service \/ scan \/ session_lost \/ remove_inflight
           \/ UNCHANGED vars
  BY <1>4 DEF attach_tips, arrives, upsert_hidden_service, scan, session_lost, session_ends,
     remove_inflight, hashes, vars
<1>5. QED BY <1>2, <1>3, <1>4 DEF Next

\* What TypeOK says is part of it.
LEMMA IndInvTypeOK == IndInv /\ Remembered => TypeOK
<1> SUFFICES ASSUME IndInv, Remembered PROVE TypeOK
  OBVIOUS
<1>1. ASSUME NEW n \in Node
      PROVE  db[n].rows \subseteq Envelope /\ db[n].connected \subseteq Complete(db[n].rows)
  BY RestFacts DEF Sound, Rows
<1>2. ASSUME NEW k \in Slot
      PROVE  /\ fetchers[k].main \in Main /\ fetchers[k].allow \in BOOLEAN
             /\ Sub(fetchers[k]) \subseteq Subtask
             /\ fetchers[k].asked \subseteq Envelope
             /\ fetchers[k].batches \in Seq(Batch)
             /\ fetchers[k].requests \in Seq(SUBSET Envelope)
  <2>1. fetchers[k] \in FetchService
    BY RestFacts
  <2>2. QED BY <2>1 DEF FetchService, Sub
<1>3. ASSUME NEW k \in Slot PROVE Work(fetchers[k]) <= MaxWork
  <2>1. Fine(fetchers[k]) /\ Work(fetchers[k]) \in Nat
    BY FetcherFacts, WorkFacts
  <2>2. Load(fetchers[k]) <= MaxWork
    BY <2>1 DEF Fine
  <2>3. QED BY <2>1, <2>2, ServicesAssumption DEF Load
<1>4. ASSUME NEW k \in Slot
      PROVE  /\ pushers[k].main \in Main /\ pushers[k].allow \in BOOLEAN
             /\ pushers[k].tracker \in Subtask \cup {"locked"}
             /\ pushers[k].broadcast \in Subtask \cup {"notified"}
             /\ pushers[k].claims \cup pushers[k].tip_tracker \cup pushers[k].posting
                  \subseteq Envelope
             /\ pushers[k].notified \in BOOLEAN
  <2>1. pushers[k] \in PushService
    BY PusherFacts
  <2>2. QED BY <2>1 DEF PushService
<1>5. /\ released \subseteq inflight /\ leaked \subseteq inflight /\ inflight \subseteq Envelope
      /\ later \subseteq Envelope /\ settings \in Seq(Service) /\ faults \in Nat
  BY RestFacts
<1>6. QED BY <1>1, <1>2, <1>3, <1>4, <1>5 DEF TypeOK, Remembered

\* The places in f that hold h in flight: 0 is its request, i its i-th batch.
Place(f, h, i) ==
    \/ i = 0 /\ h \in Waiting(f)
    \/ i \in DOMAIN f.batches /\ h \in f.batches[i].inflight

\* A service holds a hash if and only if it has one place for it.
LEMMA PlaceFacts ==
    ASSUME NEW f, Fine(f), NEW h
    PROVE  /\ h \in Held(f) <=> \E i \in Nat : Place(f, h, i)
           /\ \A i, j \in Nat : Place(f, h, i) /\ Place(f, h, j) => i = j
<1>1. f.batches \in Seq(Batch) /\ Once(f)
  BY DEF Fine, FetchService
<1>2. DOMAIN f.batches = 1..Len(f.batches) /\ Len(f.batches) \in Nat
  BY <1>1
<1>3. DOMAIN f.batches \subseteq Nat /\ 0 \notin DOMAIN f.batches
  <2>1. PICK n : n = Len(f.batches)
    OBVIOUS
  <2>2. DOMAIN f.batches = 1..n /\ n \in Nat
    BY <1>2, <2>1
  <2>3. QED BY <2>2
<1>4. ASSUME h \in Held(f) PROVE \E i \in Nat : Place(f, h, i)
  <2>1. CASE h \in Waiting(f)
    BY <2>1 DEF Place
  <2>2. CASE h \in Queued(f)
    <3>1. PICK i \in DOMAIN f.batches : h \in f.batches[i].inflight
      BY <2>2 DEF Queued
    <3>2. QED BY <1>3, <3>1 DEF Place
  <2>3. QED BY <1>4, <2>1, <2>2 DEF Held
<1>5. ASSUME NEW i \in Nat, Place(f, h, i) PROVE h \in Held(f)
  BY <1>5 DEF Place, Held, Queued
<1>6. ASSUME NEW i \in Nat, NEW j \in Nat, Place(f, h, i), Place(f, h, j) PROVE i = j
  <2>1. ASSUME NEW m \in DOMAIN f.batches, h \in f.batches[m].inflight PROVE h \notin Waiting(f)
    BY <1>1, <2>1 DEF Once, Queued
  <2>2. QED BY <1>1, <1>3, <1>6, <2>1 DEF Place, Once
<1>7. QED BY <1>4, <1>5, <1>6

\* Holders are the places in the services.
LEMMA HolderFacts ==
    ASSUME NEW h, NEW x
    PROVE  x \in Holders(h) <=>
               \E k \in Slot : \E i : x = <<k, i>> /\ Place(fetchers[k], h, i)
<1>1. ASSUME x \in Holders(h)
      PROVE  \E k \in Slot : \E i : x = <<k, i>> /\ Place(fetchers[k], h, i)
  <2>1. CASE x \in {<<k, 0>> : k \in {k \in Slot : /\ fetchers[k].missing \in Asking
                                                  /\ h \in fetchers[k].asked}}
    <3>1. PICK k \in Slot : /\ fetchers[k].missing \in Asking /\ h \in fetchers[k].asked
                            /\ x = <<k, 0>>
      BY <2>1
    <3>2. Place(fetchers[k], h, 0)
      BY <3>1 DEF Place, Waiting
    <3>3. QED BY <3>1, <3>2
  <2>2. CASE x \in UNION {{<<k, i>> : i \in {i \in DOMAIN fetchers[k].batches :
                                              h \in fetchers[k].batches[i].inflight}} : k \in Slot}
    <3>1. PICK k \in Slot : x \in {<<k, i>> : i \in {i \in DOMAIN fetchers[k].batches :
                                              h \in fetchers[k].batches[i].inflight}}
      BY <2>2
    <3>2. PICK i \in DOMAIN fetchers[k].batches :
             h \in fetchers[k].batches[i].inflight /\ x = <<k, i>>
      BY <3>1
    <3>3. Place(fetchers[k], h, i)
      BY <3>2 DEF Place
    <3>4. QED BY <3>2, <3>3
  <2>3. QED BY <1>1, <2>1, <2>2 DEF Holders
<1>2. ASSUME NEW k \in Slot, NEW i, x = <<k, i>>, Place(fetchers[k], h, i)
      PROVE  x \in Holders(h)
  <2>1. CASE i = 0 /\ h \in Waiting(fetchers[k])
    BY <1>2, <2>1 DEF Holders, Waiting
  <2>2. CASE i \in DOMAIN fetchers[k].batches /\ h \in fetchers[k].batches[i].inflight
    BY <1>2, <2>2 DEF Holders
  <2>3. QED BY <1>2, <2>1, <2>2 DEF Place
<1>3. QED BY <1>1, <1>2

\* Each hash that is neither released nor left behind is held in one place.
LEMMA IndInvOneHolder == IndInv => InflightHasOneHolder
<1> SUFFICES ASSUME IndInv, NEW h \in Envelope
             PROVE  Cardinality(Holders(h)) = IF h \in Live THEN 1 ELSE 0
  BY DEF InflightHasOneHolder, Live
<1>1. /\ \A k \in Slot : Fine(fetchers[k]) /\ fetchers[k].batches \in Seq(Batch)
      /\ Live = UNION {Held(fetchers[k]) : k \in Slot}
      /\ \A k, l \in Slot : k # l => Held(fetchers[k]) \cap Held(fetchers[l]) = {}
  BY DEF IndInv, InflightInv, Fine, FetchService
<1>2. ASSUME NEW k \in Slot, NEW i, Place(fetchers[k], h, i) PROVE i \in Nat
  <2>1. PICK bs \in Seq(Batch) : bs = fetchers[k].batches
    BY <1>1
  <2>2. i = 0 \/ i \in 1..Len(bs)
    BY <1>2, <2>1 DEF Place
  <2>3. QED BY <2>2
<1>3. ASSUME h \notin Live PROVE Cardinality(Holders(h)) = 0
  <2>1. ASSUME NEW x \in Holders(h) PROVE FALSE
    <3>1. PICK k \in Slot : \E i : Place(fetchers[k], h, i)
      BY HolderFacts
    <3>2. PICK i : Place(fetchers[k], h, i)
      BY <3>1
    <3>3. i \in Nat /\ Fine(fetchers[k])
      BY <1>1, <1>2, <3>2
    <3>4. h \in Held(fetchers[k])
      BY <3>2, <3>3, PlaceFacts
    <3>5. QED BY <1>1, <1>3, <3>4
  <2>2. Holders(h) = {}
    BY <2>1
  <2>3. QED BY <2>2, FS_EmptySet
<1>4. ASSUME h \in Live PROVE Cardinality(Holders(h)) = 1
  <2>1. PICK k \in Slot : h \in Held(fetchers[k])
    BY <1>1, <1>4
  <2>2. PICK i \in Nat : Place(fetchers[k], h, i)
    BY <1>1, <2>1, PlaceFacts
  <2>3. <<k, i>> \in Holders(h)
    BY <2>2, HolderFacts
  <2>4. ASSUME NEW y \in Holders(h) PROVE y = <<k, i>>
    <3>1. PICK l \in Slot : \E j : y = <<l, j>> /\ Place(fetchers[l], h, j)
      BY HolderFacts
    <3>2. PICK j : y = <<l, j>> /\ Place(fetchers[l], h, j)
      BY <3>1
    <3>3. j \in Nat /\ Fine(fetchers[l]) /\ Fine(fetchers[k])
      BY <1>1, <1>2, <3>2
    <3>4. h \in Held(fetchers[l])
      BY <3>2, <3>3, PlaceFacts
    <3>5. l = k
      BY <1>1, <2>1, <3>4
    <3>6. j = i
      BY <2>2, <3>2, <3>3, <3>5, PlaceFacts
    <3>7. QED BY <3>2, <3>5, <3>6
  <2>5. Holders(h) = {<<k, i>>}
    BY <2>3, <2>4
  <2>6. QED BY <2>5, FS_Singleton
<1>5. QED BY <1>3, <1>4

\* Whatever chains there are, whatever the peer gets, and however often sessions are
\* lost, services restarted and settings changed: a hash that all fetch services skip
\* is held by exactly one request or batch of one of them (client.rs, fetch_peer.rs),
\* but for the hashes of aborted requests, and both databases' connected rows have
\* their ancestors.
THEOREM QueuesAreSoundAlways == Spec => []QueuesAreSound
<1>1. IndInv /\ Remembered => QueuesAreSound
  BY IndInvTypeOK, IndInvOneHolder DEF QueuesAreSound
<1>2. Init => Remembered
  BY DEF Init, Remembered
<1>3. IndInv /\ Remembered /\ [Next]_vars => Remembered'
  BY RememberedStep
<1>4. QED BY <1>1, <1>2, <1>3, Invariance, PTL DEF Spec

\* tip_tracker (push_peer.rs) claims nothing of a chain that the peer lacks.
THEOREM ClaimsAreTrueAlways == Spec => []ClaimsAreTrue
<1>1. IndInv => ClaimsAreTrue
  BY DEF IndInv
<1>2. QED BY <1>1, Invariance, PTL
=============================================================================
