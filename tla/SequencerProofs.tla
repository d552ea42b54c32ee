--------------------------- MODULE SequencerProofs ---------------------------
(***************************************************************************)
(* What Sequencer's run checks on small instances, proved for every chain   *)
(* of the host, every set of messages and every interleaving of the tasks.  *)
(* DeliversInOrder rests on PipelineInv: what the host's first messages     *)
(* sequence (Flow) is, per kind of action, what was delivered followed by   *)
(* what is in the queues (Pending).  Select and FlattenSeq are recursive    *)
(* functions; the lemmas on them use an induction over the natural numbers  *)
(* that is derived from the well-foundedness of <.                          *)
(***************************************************************************)
EXTENDS Sequencer, WellFoundedInduction, SequenceTheorems, FiniteSetTheorems, TLAPS

-----------------------------------------------------------------------------
(* Induction and recursion on the natural numbers.  The library states them   *)
(* with an operator parameter; here the property is a set, the step a         *)
(* function.                                                                  *)

\* A set with 0 and the successor of each of its numbers has them all.
LEMMA Induction ==
    ASSUME NEW S, 0 \in S, \A n \in Nat : n \in S => n + 1 \in S
    PROVE  Nat \subseteq S
<1> DEFINE T == {n \in Nat : n \notin S}
           R == {p \in Nat \X Nat : p[1] < p[2]}
<1>1. SUFFICES ASSUME T # {} PROVE FALSE
  OBVIOUS
<1>2. IsWellFoundedOn(R, Nat)
  BY NatLessThanWellFounded DEF OpToRel
<1>3. PICK x \in T : \A y \in T : ~(<<y, x>> \in R)
  <2>1. T \subseteq Nat
    OBVIOUS
  <2> HIDE DEF T, R
  <2>2. QED BY ONLY <1>1, <1>2, <2>1, WFMin
<1>4. x # 0 /\ x \in Nat /\ x - 1 \in Nat
  OBVIOUS
<1>5. <<x - 1, x>> \in R
  BY <1>4
<1>6. QED BY <1>3, <1>4, <1>5

\* g iterates the step G, N times, from b.
Iterates(g, b, G, N) == g[0] = b /\ \A k \in 1..N : g[k] = G[k][g[k - 1]]

\* The values of a recursive function up to a bound exist.
LEMMA Recursion ==
    ASSUME NEW D, NEW b \in D, NEW G \in [Nat -> [D -> D]], NEW N \in Nat
    PROVE  \E g \in [0..N -> D] : Iterates(g, b, G, N)
<1> DEFINE Approx(n) == {g \in [0..n -> D] : Iterates(g, b, G, n)}
           S == {n \in Nat : Approx(n) # {}}
<1>1. 0 \in S
  <2>1. [k \in 0..0 |-> b] \in Approx(0)
    BY DEF Iterates
  <2>2. QED BY <2>1
<1>2. ASSUME NEW n \in Nat, n \in S PROVE n + 1 \in S
  <2>1. PICK g : g \in Approx(n)
    BY <1>2
  <2>2. g \in [0..n -> D] /\ g[0] = b /\ \A k \in 1..n : g[k] = G[k][g[k - 1]]
    BY <2>1 DEF Iterates
  <2> DEFINE h == [k \in 0..(n + 1) |-> IF k <= n THEN g[k] ELSE G[n + 1][g[n]]]
  <2>3. g[n] \in D /\ n + 1 \in Nat
    BY <2>2
  <2>4. G[n + 1][g[n]] \in D
    BY <2>3
  <2>5. h \in [0..(n + 1) -> D] /\ h[0] = b
    BY <2>2, <2>4
  <2>6. ASSUME NEW k \in 1..(n + 1) PROVE h[k] = G[k][h[k - 1]]
    <3>1. CASE k = n + 1
      BY <3>1
    <3>2. CASE k \in 1..n
      BY <3>2, <2>2
    <3>3. QED BY <3>1, <3>2
  <2>7. h \in Approx(n + 1)
    <3> HIDE DEF h
    <3>1. QED BY <2>5, <2>6 DEF Iterates
  <2> HIDE DEF Approx
  <2>8. QED BY <2>7
<1>3. N \in S
  <2> HIDE DEF S
  <2>1. QED BY <1>1, <1>2, Induction
<1>4. QED BY <1>3

\* Induction up to a bound: two such functions that agree on b agree.
LEMMA InductionTo ==
    ASSUME NEW N \in Nat, NEW T, 0 \in T, \A k \in 1..N : k - 1 \in T => k \in T
    PROVE  0..N \subseteq T
<1> DEFINE S == {n \in Nat : n <= N => n \in T}
<1>1. 0 \in S
  OBVIOUS
<1>2. ASSUME NEW n \in Nat, n \in S PROVE n + 1 \in S
  <2>1. SUFFICES ASSUME n + 1 <= N PROVE n + 1 \in T
    OBVIOUS
  <2>2. n + 1 \in 1..N /\ (n + 1) - 1 = n /\ n \in T
    BY <2>1, <1>2
  <2>3. QED BY <2>2
<1>3. Nat \subseteq S
  <2> HIDE DEF S
  <2>1. QED BY <1>1, <1>2, Induction
<1>4. QED BY <1>3

\* Induction over sequences.
LEMMA SequenceInduction ==
    ASSUME NEW M, NEW T, <<>> \in T,
           \A s \in Seq(M), e \in M : s \in T => Append(s, e) \in T
    PROVE  Seq(M) \subseteq T
<1> DEFINE S == {n \in Nat : \A s \in Seq(M) : Len(s) = n => s \in T}
<1>1. 0 \in S
  BY EmptySeq
<1>2. ASSUME NEW n \in Nat, n \in S PROVE n + 1 \in S
  <2>1. SUFFICES ASSUME NEW s \in Seq(M), Len(s) = n + 1 PROVE s \in T
    OBVIOUS
  <2>2. s # <<>>
    BY <2>1
  <2>3. PICK r \in Seq(M), e \in M : s = Append(r, e)
    BY <2>2, SequenceEmptyOrAppend
  <2>4. Len(r) = n
    BY <2>1, <2>3, AppendProperties, LenProperties
  <2>5. QED BY <1>2, <2>3, <2>4
<1>3. Nat \subseteq S
  <2> HIDE DEF S
  <2>1. QED BY <1>1, <1>2, Induction
<1>4. QED BY <1>3, LenProperties

-----------------------------------------------------------------------------
(* What Select and FlattenSeq do with a sequence that is extended.            *)

\* k[n] is what Select keeps of the first n elements.
Kept(k, s, S) ==
    /\ k[0] = <<>>
    /\ \A n \in 1..Len(s) :
          k[n] = IF s[n] \in S THEN Append(k[n - 1], s[n]) ELSE k[n - 1]

\* Select is computed from left to right.
LEMMA SelectValues ==
    ASSUME NEW M, NEW S, NEW s \in Seq(M)
    PROVE  \E k \in [0..Len(s) -> Seq(M \cap S)] :
               Kept(k, s, S) /\ Select(s, S) = k[Len(s)]
<1> DEFINE D == Seq(M \cap S)
           N == Len(s)
           Step(n, t) == IF n \in 1..N /\ s[n] \in S THEN Append(t, s[n]) ELSE t
           G == [n \in Nat |-> [t \in D |-> Step(n, t)]]
           Body(k) == [n \in 0..N |->
                         IF n = 0 THEN <<>>
                         ELSE IF s[n] \in S THEN Append(k[n - 1], s[n]) ELSE k[n - 1]]
<1>1. N \in Nat /\ <<>> \in D
  OBVIOUS
<1>2. G \in [Nat -> [D -> D]]
  <2>1. ASSUME NEW n \in Nat, NEW t \in D
        PROVE  Step(n, t) \in D
    OBVIOUS
  <2> HIDE DEF D, Step
  <2>2. QED BY <2>1
<1>3. PICK g \in [0..N -> D] : Iterates(g, <<>>, G, N)
  <2> HIDE DEF D, N, G
  <2>1. QED BY <1>1, <1>2, Recursion
<1>4. ASSUME NEW n \in 1..N
      PROVE  g[n] = IF s[n] \in S THEN Append(g[n - 1], s[n]) ELSE g[n - 1]
  <2>1. n \in Nat /\ n - 1 \in 0..N
    BY <1>1
  <2>2. g[n - 1] \in D
    BY <2>1
  <2>3. g[n] = G[n][g[n - 1]]
    BY <1>3 DEF Iterates
  <2> HIDE DEF D
  <2>4. g[n] = Step(n, g[n - 1])
    BY <2>1, <2>2, <2>3
  <2>5. QED BY <2>4
<1>5. g[0] = <<>>
  BY <1>3 DEF Iterates
<1>6. g = Body(g)
  <2> HIDE DEF D, N
  <2>1. ASSUME NEW n \in 0..N PROVE g[n] = Body(g)[n]
    <3>1. CASE n = 0
      BY <3>1, <1>5, <1>1
    <3>2. CASE n \in 1..N
      <4>1. Body(g)[n] = IF s[n] \in S THEN Append(g[n - 1], s[n]) ELSE g[n - 1]
        BY <3>2, <1>1
      <4> HIDE DEF Body
      <4>2. QED BY <4>1, <3>2, <1>4
    <3>3. QED BY <3>1, <3>2, <1>1
  <2>2. Body(g) = [n \in 0..N |-> Body(g)[n]]
    OBVIOUS
  <2> HIDE DEF Body
  <2>3. QED BY <2>1, <2>2
<1> DEFINE kept == CHOOSE k : k = Body(k)
<1>7. kept = Body(kept)
  <2> HIDE DEF Body
  <2>1. QED BY <1>6
<1>8. Select(s, S) = kept[N]
  BY DEF Select
<1>9. Kept(kept, s, S)
  <2> HIDE DEF kept
  <2>1. \A n \in 0..N : kept[n] =
          IF n = 0 THEN <<>>
          ELSE IF s[n] \in S THEN Append(kept[n - 1], s[n]) ELSE kept[n - 1]
    BY <1>7
  <2>2. 0 \in 0..N /\ \A n \in 1..N : n \in 0..N /\ n # 0
    BY <1>1
  <2>3. QED BY <2>1, <2>2 DEF Kept
<1>10. Kept(g, s, S)
  BY <1>4, <1>5 DEF Kept
<1>11. \A n \in 0..N : kept[n] = g[n]
  <2> DEFINE T == {n \in 0..N : kept[n] = g[n]}
  <2> HIDE DEF kept, D, G
  <2>1. 0 \in T
    BY <1>1, <1>9, <1>10 DEF Kept
  <2>2. \A n \in 1..N : n - 1 \in T => n \in T
    BY <1>1, <1>9, <1>10 DEF Kept
  <2> HIDE DEF T, N
  <2>3. 0..N \subseteq T
    BY <1>1, <2>1, <2>2, InductionTo
  <2>4. QED BY <2>3 DEF T
<1>12. Select(s, S) = g[N]
  <2> HIDE DEF kept, N
  <2>1. QED BY <1>1, <1>8, <1>11
<1>13. QED BY <1>10, <1>12

\* What is selected are messages of the set.
LEMMA SelectType ==
    ASSUME NEW M, NEW S, NEW s \in Seq(M)
    PROVE  Select(s, S) \in Seq(M \cap S)
<1>1. PICK k \in [0..Len(s) -> Seq(M \cap S)] : Select(s, S) = k[Len(s)]
  BY SelectValues
<1>2. Len(s) \in 0..Len(s)
  OBVIOUS
<1>3. QED BY <1>1, <1>2

\* Of nothing, nothing is selected.
LEMMA SelectEmpty ==
    ASSUME NEW S
    PROVE  Select(<<>>, S) = <<>>
<1> DEFINE s == <<>>
           M == {}
<1>1. s \in Seq(M) /\ Len(s) = 0
  OBVIOUS
<1> HIDE DEF s, M
<1>2. PICK k \in [0..Len(s) -> Seq(M \cap S)] : Kept(k, s, S) /\ Select(s, S) = k[Len(s)]
  BY <1>1, SelectValues
<1>3. Select(s, S) = <<>>
  BY <1>1, <1>2 DEF Kept
<1>4. QED BY <1>3 DEF s

\* One more message is selected if it is in the set.
LEMMA SelectAppend ==
    ASSUME NEW M, NEW S, NEW s \in Seq(M), NEW e \in M
    PROVE  Select(Append(s, e), S) =
               IF e \in S THEN Append(Select(s, S), e) ELSE Select(s, S)
<1> DEFINE N == Len(s)
           t == Append(s, e)
<1>1. t \in Seq(M) /\ N \in Nat /\ Len(t) = N + 1 /\ t[N + 1] = e
      /\ \A i \in 1..N : t[i] = s[i]
  BY AppendProperties, LenProperties
<1>2. PICK k \in [0..N -> Seq(M \cap S)] : Kept(k, s, S) /\ Select(s, S) = k[N]
  BY SelectValues
<1>3. PICK l \in [0..(N + 1) -> Seq(M \cap S)] : Kept(l, t, S) /\ Select(t, S) = l[N + 1]
  <2> HIDE DEF t
  <2>1. QED BY <1>1, SelectValues
<1> HIDE DEF t
<1>4. \A n \in 0..N : k[n] = l[n]
  <2> DEFINE T == {n \in 0..N : k[n] = l[n]}
  <2>1. 0 \in T
    BY <1>1, <1>2, <1>3 DEF Kept
  <2>2. ASSUME NEW n \in 1..N, n - 1 \in T PROVE n \in T
    <3>1. n \in 1..(N + 1) /\ n \in 0..N /\ t[n] = s[n]
      BY <1>1
    <3>2. k[n - 1] = l[n - 1]
      BY <2>2
    <3>3. k[n] = IF s[n] \in S THEN Append(k[n - 1], s[n]) ELSE k[n - 1]
      BY <1>2 DEF Kept
    <3>4. l[n] = IF t[n] \in S THEN Append(l[n - 1], t[n]) ELSE l[n - 1]
      BY <1>1, <1>3, <3>1 DEF Kept
    <3>5. k[n] = l[n]
      BY <3>1, <3>2, <3>3, <3>4
    <3>6. QED BY <3>1, <3>5
  <2> HIDE DEF T
  <2>3. 0..N \subseteq T
    BY <1>1, <2>1, <2>2, InductionTo
  <2>4. QED BY <2>3 DEF T
<1>5. k[N] = l[N] /\ N + 1 \in 1..(N + 1) /\ (N + 1) - 1 = N
  BY <1>1, <1>4
<1>6. l[N + 1] = IF e \in S THEN Append(l[N], e) ELSE l[N]
  BY <1>1, <1>3, <1>5 DEF Kept
<1>7. QED BY <1>2, <1>3, <1>5, <1>6 DEF t

\* Selecting distributes over concatenation.
LEMMA SelectConcat ==
    ASSUME NEW M, NEW S, NEW s \in Seq(M), NEW t \in Seq(M)
    PROVE  Select(s \o t, S) = Select(s, S) \o Select(t, S)
<1> DEFINE T == {u \in Seq(M) : Select(s \o u, S) = Select(s, S) \o Select(u, S)}
<1>1. <<>> \in T
  <2>1. Select(s, S) \in Seq(M \cap S)
    BY SelectType
  <2>2. QED BY <2>1, SelectEmpty, ConcatEmptySeq, EmptySeq
<1>2. ASSUME NEW u \in Seq(M), NEW e \in M, u \in T PROVE Append(u, e) \in T
  <2>1. s \o Append(u, e) = Append(s \o u, e) /\ s \o u \in Seq(M) /\ Append(u, e) \in Seq(M)
    OBVIOUS
  <2>2. Select(s \o Append(u, e), S) =
          IF e \in S THEN Append(Select(s \o u, S), e) ELSE Select(s \o u, S)
    <3> DEFINE v == s \o u
    <3>1. v \in Seq(M) /\ s \o Append(u, e) = Append(v, e)
      BY <2>1
    <3> HIDE DEF v
    <3>2. Select(Append(v, e), S) = IF e \in S THEN Append(Select(v, S), e) ELSE Select(v, S)
      BY <3>1, SelectAppend
    <3>3. QED BY <3>1, <3>2 DEF v
  <2>3. Select(Append(u, e), S) =
          IF e \in S THEN Append(Select(u, S), e) ELSE Select(u, S)
    BY SelectAppend
  <2>4. Select(s, S) \in Seq(M \cap S) /\ Select(u, S) \in Seq(M \cap S)
    BY SelectType
  <2>5. Select(s \o u, S) = Select(s, S) \o Select(u, S)
    BY <1>2
  <2>6. e \in S => Append(Select(s, S) \o Select(u, S), e) = Select(s, S) \o Append(Select(u, S), e)
    <3> DEFINE D == M \cap S
    <3>1. ASSUME NEW x \in Seq(D), NEW y \in Seq(D), e \in D
          PROVE  Append(x \o y, e) = x \o Append(y, e)
      <4> HIDE DEF D
      <4>1. x \o y \in Seq(D) /\ <<e>> \in Seq(D)
        BY <3>1
      <4>2. Append(x \o y, e) = (x \o y) \o <<e>> /\ Append(y, e) = y \o <<e>>
        BY <3>1, <4>1, AppendIsConcat
      <4>3. QED BY <4>1, <4>2, ConcatAssociative, SMTT(30)
    <3>2. QED BY <2>4, <3>1
  <2>7. Select(s \o Append(u, e), S) = Select(s, S) \o Select(Append(u, e), S)
    BY <2>2, <2>3, <2>5, <2>6
  <2>8. QED BY <2>1, <2>7
<1>3. Seq(M) \subseteq T
  <2> HIDE DEF T
  <2>1. QED BY <1>1, <1>2, SequenceInduction
<1>4. QED BY <1>3

\* f[n] is the concatenation of the first n sequences.
Joined(f, bs) == f[0] = <<>> /\ \A n \in 1..Len(bs) : f[n] = f[n - 1] \o bs[n]

\* FlattenSeq is computed from left to right.
LEMMA FlattenValues ==
    ASSUME NEW M, NEW bs \in Seq(Seq(M))
    PROVE  \E f \in [0..Len(bs) -> Seq(M)] :
               Joined(f, bs) /\ FlattenSeq(bs) = f[Len(bs)]
<1> DEFINE D == Seq(M)
           N == Len(bs)
           Step(n, t) == IF n \in 1..N THEN t \o bs[n] ELSE t
           G == [n \in Nat |-> [t \in D |-> Step(n, t)]]
           Body(f) == [i \in 1..N |-> IF i = 1 THEN bs[i] ELSE f[i - 1] \o bs[i]]
<1>1. N \in Nat /\ <<>> \in D /\ \A i \in 1..N : bs[i] \in D
  OBVIOUS
<1>2. G \in [Nat -> [D -> D]]
  <2>1. ASSUME NEW n \in Nat, NEW t \in D
        PROVE  Step(n, t) \in D
    BY <1>1
  <2> HIDE DEF D, Step
  <2>2. QED BY <2>1
<1>3. PICK g \in [0..N -> D] : Iterates(g, <<>>, G, N)
  <2> HIDE DEF D, N, G
  <2>1. QED BY <1>1, <1>2, Recursion
<1>4. ASSUME NEW n \in 1..N PROVE g[n] = g[n - 1] \o bs[n]
  <2>1. n \in Nat /\ n - 1 \in 0..N
    BY <1>1
  <2>2. g[n - 1] \in D
    BY <2>1
  <2>3. g[n] = G[n][g[n - 1]]
    BY <1>3 DEF Iterates
  <2> HIDE DEF D
  <2>4. g[n] = Step(n, g[n - 1])
    BY <2>1, <2>2, <2>3
  <2>5. QED BY <2>4
<1>5. g[0] = <<>>
  BY <1>3 DEF Iterates
<1>6. Joined(g, bs)
  BY <1>4, <1>5 DEF Joined
<1>7. CASE N = 0
  <2>1. bs = <<>>
    BY <1>7
  <2>2. FlattenSeq(bs) = bs
    BY <1>7 DEF FlattenSeq
  <2>3. QED BY <1>5, <1>6, <1>7, <2>1, <2>2
<1>8. CASE N # 0
  <2> DEFINE h == [i \in 1..N |-> g[i]]
  <2>1. h = Body(h)
    <3> HIDE DEF N
    <3>1. ASSUME NEW i \in 1..N PROVE h[i] = Body(h)[i]
      <4>1. CASE i = 1
        <5> HIDE DEF D
        <5>1. 1 \in 1..N /\ 1 - 1 = 0
          BY <4>1
        <5>2. g[1] = g[0] \o bs[1] /\ bs[1] \in D
          BY <5>1, <1>1, <1>4
        <5>3. g[1] = bs[1]
          BY <1>5, <5>2, ConcatEmptySeq DEF D
        <5>4. QED BY <4>1, <5>3
      <4>2. CASE i # 1
        <5>1. i - 1 \in 1..N /\ h[i - 1] = g[i - 1]
          BY <4>2, <1>1
        <5>2. h[i] = h[i - 1] \o bs[i]
          BY <5>1, <1>4
        <5> HIDE DEF h
        <5>3. QED BY <4>2, <5>2
      <4>3. QED BY <4>1, <4>2
    <3>2. Body(h) = [i \in 1..N |-> Body(h)[i]] /\ h = [i \in 1..N |-> h[i]]
      OBVIOUS
    <3> HIDE DEF Body, h
    <3>3. QED BY <3>1, <3>2
  <2> DEFINE flatten == CHOOSE f : f = Body(f)
  <2>2. flatten = Body(flatten)
    <3> HIDE DEF Body, h
    <3>1. QED BY <2>1
  <2>3. FlattenSeq(bs) = flatten[N]
    BY <1>8 DEF FlattenSeq
  <2>4. \A n \in 1..N : flatten[n] = IF n = 1 THEN bs[n] ELSE flatten[n - 1] \o bs[n]
    <3> HIDE DEF flatten
    <3>1. QED BY <2>2
  <2> DEFINE T == {n \in 0..N : n = 0 \/ flatten[n] = g[n]}
  <2> HIDE DEF flatten, D, G
  <2>5. 0 \in T
    BY <1>1
  <2>6. ASSUME NEW n \in 1..N, n - 1 \in T PROVE n \in T
    <3>1. CASE n = 1
      <4>1. 1 \in 1..N /\ 1 - 1 = 0
        BY <3>1
      <4>2. g[1] = g[0] \o bs[1] /\ bs[1] \in D
        BY <4>1, <1>1, <1>4
      <4>3. g[1] = bs[1]
        BY <1>5, <4>2, ConcatEmptySeq DEF D
      <4>4. QED BY <2>4, <3>1, <4>3
    <3>2. CASE n # 1
      <4>1. n - 1 \in 1..N /\ n \in 0..N
        BY <1>1, <3>2
      <4>2. flatten[n - 1] = g[n - 1]
        BY <2>6, <4>1
      <4>3. flatten[n] = flatten[n - 1] \o bs[n] /\ g[n] = g[n - 1] \o bs[n]
        BY <1>4, <2>4, <3>2
      <4>4. QED BY <4>1, <4>2, <4>3
    <3>3. QED BY <3>1, <3>2
  <2>7. 0..N \subseteq T
    <3> HIDE DEF T, N
    <3>1. QED BY <1>1, <2>5, <2>6, InductionTo
  <2>8. flatten[N] = g[N]
    BY <1>1, <1>8, <2>7, SMTT(30)
  <2>9. FlattenSeq(bs) = g[N]
    BY <2>3, <2>8
  <2> HIDE DEF N
  <2>10. QED BY <1>3, <1>6, <2>9 DEF D, N
<1>9. QED BY <1>7, <1>8

\* Batches of messages are flattened to messages.
LEMMA FlattenType ==
    ASSUME NEW M, NEW bs \in Seq(Seq(M))
    PROVE  FlattenSeq(bs) \in Seq(M)
<1>1. PICK f \in [0..Len(bs) -> Seq(M)] : FlattenSeq(bs) = f[Len(bs)]
  BY FlattenValues
<1>2. Len(bs) \in 0..Len(bs)
  OBVIOUS
<1>3. QED BY <1>1, <1>2

\* No batch, no message.
LEMMA FlattenEmpty == FlattenSeq(<<>>) = <<>>
BY DEF FlattenSeq

\* One more batch puts its messages at the end.
LEMMA FlattenAppend ==
    ASSUME NEW M, NEW bs \in Seq(Seq(M)), NEW b \in Seq(M)
    PROVE  FlattenSeq(Append(bs, b)) = FlattenSeq(bs) \o b
<1> DEFINE N == Len(bs)
           cs == Append(bs, b)
           D == Seq(M)
<1>1. cs \in Seq(D) /\ N \in Nat /\ Len(cs) = N + 1 /\ cs[N + 1] = b
      /\ \A i \in 1..N : cs[i] = bs[i]
  BY AppendProperties, LenProperties
<1>2. PICK k \in [0..N -> D] : Joined(k, bs) /\ FlattenSeq(bs) = k[N]
  BY FlattenValues
<1>3. PICK l \in [0..(N + 1) -> D] : Joined(l, cs) /\ FlattenSeq(cs) = l[N + 1]
  <2> HIDE DEF cs
  <2>1. QED BY <1>1, FlattenValues
<1> HIDE DEF cs
<1>4. \A n \in 0..N : k[n] = l[n]
  <2> DEFINE T == {n \in 0..N : k[n] = l[n]}
  <2>1. 0 \in T
    BY <1>1, <1>2, <1>3 DEF Joined
  <2>2. ASSUME NEW n \in 1..N, n - 1 \in T PROVE n \in T
    <3>1. n \in 1..(N + 1) /\ n \in 0..N /\ cs[n] = bs[n]
      BY <1>1
    <3>2. k[n - 1] = l[n - 1]
      BY <2>2
    <3>3. k[n] = k[n - 1] \o bs[n]
      BY <1>2 DEF Joined
    <3>4. l[n] = l[n - 1] \o cs[n]
      BY <1>1, <1>3, <3>1 DEF Joined
    <3>5. k[n] = l[n]
      BY <3>1, <3>2, <3>3, <3>4
    <3>6. QED BY <3>1, <3>5
  <2> HIDE DEF T
  <2>3. 0..N \subseteq T
    BY <1>1, <2>1, <2>2, InductionTo
  <2>4. QED BY <2>3 DEF T
<1>5. k[N] = l[N] /\ N + 1 \in 1..(N + 1) /\ (N + 1) - 1 = N
  BY <1>1, <1>4
<1>6. l[N + 1] = l[N] \o b
  BY <1>1, <1>3, <1>5 DEF Joined
<1>7. QED BY <1>2, <1>3, <1>5, <1>6 DEF cs

\* Flattening distributes over concatenation.
LEMMA FlattenConcat ==
    ASSUME NEW M, NEW bs \in Seq(Seq(M)), NEW cs \in Seq(Seq(M))
    PROVE  FlattenSeq(bs \o cs) = FlattenSeq(bs) \o FlattenSeq(cs)
<1> DEFINE D == Seq(M)
           T == {ds \in Seq(D) : FlattenSeq(bs \o ds) = FlattenSeq(bs) \o FlattenSeq(ds)}
<1>1. <<>> \in T
  <2>1. FlattenSeq(bs) \in Seq(M)
    BY FlattenType
  <2>2. QED BY <2>1, FlattenEmpty, ConcatEmptySeq, EmptySeq
<1>2. ASSUME NEW ds \in Seq(D), NEW b \in D, ds \in T PROVE Append(ds, b) \in T
  <2> HIDE DEF D
  <2>1. bs \in Seq(D)
    BY DEF D
  <2>2. bs \o ds \in Seq(D) /\ <<b>> \in Seq(D)
    BY <2>1
  <2>3. /\ Append(ds, b) = ds \o <<b>>
        /\ Append(bs \o ds, b) = (bs \o ds) \o <<b>>
        /\ Append(ds, b) \in Seq(D)
    BY <2>2, AppendIsConcat
  <2>4. bs \o Append(ds, b) = Append(bs \o ds, b)
    BY <2>1, <2>2, <2>3, ConcatAssociative
  <2> DEFINE es == bs \o ds
  <2>5. FlattenSeq(Append(es, b)) = FlattenSeq(es) \o b
    <3>1. es \in Seq(Seq(M)) /\ b \in Seq(M)
      BY <2>2 DEF D
    <3> HIDE DEF es
    <3>2. QED BY <3>1, FlattenAppend
  <2>6. FlattenSeq(Append(ds, b)) = FlattenSeq(ds) \o b
    BY FlattenAppend DEF D
  <2>7. FlattenSeq(bs) \in Seq(M) /\ FlattenSeq(ds) \in Seq(M) /\ b \in Seq(M)
    BY FlattenType DEF D
  <2>8. (FlattenSeq(bs) \o FlattenSeq(ds)) \o b = FlattenSeq(bs) \o (FlattenSeq(ds) \o b)
    BY <2>7, ConcatAssociative, SMTT(30)
  <2>9. FlattenSeq(es) = FlattenSeq(bs) \o FlattenSeq(ds)
    BY <1>2
  <2>10. QED BY <2>3, <2>4, <2>5, <2>6, <2>8, <2>9
<1>3. Seq(D) \subseteq T
  <2> HIDE DEF T, D
  <2>1. QED BY <1>1, <1>2, SequenceInduction
<1>4. QED BY <1>3

-----------------------------------------------------------------------------
(* Prefixes *)

\* What is continued is a prefix.
LEMMA PrefixOfConcat ==
    ASSUME NEW M, NEW s \in Seq(M), NEW t \in Seq(M)
    PROVE  IsPrefix(s, s \o t)
<1>1. Len(s) <= Len(s \o t)
  OBVIOUS
<1>2. SubSeq(s, 1, Len(s)) = s /\ SubSeq(s \o t, 1, Len(s)) = s
  OBVIOUS
<1>3. QED BY <1>1, <1>2 DEF IsPrefix

\* A prefix agrees on its own places.
LEMMA PrefixElements ==
    ASSUME NEW M, NEW s \in Seq(M), NEW t \in Seq(M)
    PROVE  IsPrefix(s, t) <=> Len(s) <= Len(t) /\ \A i \in 1..Len(s) : s[i] = t[i]
<1>1. ASSUME Len(s) <= Len(t)
      PROVE  /\ SubSeq(s, 1, Len(s)) = s
             /\ SubSeq(t, 1, Len(s)) \in Seq(M) /\ Len(SubSeq(t, 1, Len(s))) = Len(s)
             /\ \A i \in 1..Len(s) : SubSeq(t, 1, Len(s))[i] = t[i]
  BY <1>1
<1>2. ASSUME Len(s) <= Len(t), \A i \in 1..Len(s) : s[i] = t[i]
      PROVE  s = SubSeq(t, 1, Len(s))
  BY <1>1, <1>2, SeqEqual
<1>3. QED BY <1>1, <1>2 DEF IsPrefix

\* A prefix of a prefix is a prefix.
LEMMA PrefixTransitive ==
    ASSUME NEW M, NEW s \in Seq(M), NEW t \in Seq(M), NEW u \in Seq(M),
           IsPrefix(s, t), IsPrefix(t, u)
    PROVE  IsPrefix(s, u)
<1>1. Len(s) \in Nat /\ Len(t) \in Nat
  OBVIOUS
<1>2. /\ Len(s) <= Len(t) /\ \A i \in 1..Len(s) : s[i] = t[i]
      /\ Len(t) <= Len(u) /\ \A i \in 1..Len(t) : t[i] = u[i]
  BY PrefixElements
<1>3. Len(s) <= Len(u) /\ \A i \in 1..Len(s) : s[i] = u[i]
  BY <1>1, <1>2
<1>4. QED BY <1>3, PrefixElements

\* Of two prefixes of a sequence one continues the other.
LEMMA PrefixesCompare ==
    ASSUME NEW M, NEW s \in Seq(M), NEW t \in Seq(M), NEW u \in Seq(M),
           IsPrefix(s, u), IsPrefix(t, u)
    PROVE  IsPrefix(s, t) \/ IsPrefix(t, s)
<1>1. Len(s) \in Nat /\ Len(t) \in Nat
  OBVIOUS
<1>2. /\ \A i \in 1..Len(s) : s[i] = u[i]
      /\ \A i \in 1..Len(t) : t[i] = u[i]
  BY PrefixElements
<1>3. CASE Len(s) <= Len(t)
  BY <1>1, <1>2, <1>3, PrefixElements
<1>4. CASE Len(t) <= Len(s)
  BY <1>1, <1>2, <1>4, PrefixElements
<1>5. QED BY <1>1, <1>3, <1>4

\* What is selected of the first batches is a prefix of what is selected of all.
LEMMA SelectedPrefix ==
    ASSUME NEW M, NEW S, NEW bs \in Seq(Seq(M)), NEW n \in 0..Len(bs)
    PROVE  IsPrefix(Select(FlattenSeq(SubSeq(bs, 1, n)), S), Select(FlattenSeq(bs), S))
<1> DEFINE D == Seq(M)
           x == SubSeq(bs, 1, n)
           y == SubSeq(bs, n + 1, Len(bs))
<1>1. bs \in Seq(D) /\ Len(bs) \in Nat
  OBVIOUS
<1> HIDE DEF D
<1>2. x \in Seq(D) /\ y \in Seq(D) /\ bs = x \o y
  <2>1. x \in Seq(D) /\ y \in Seq(D)
    BY <1>1
  <2>2. 1 \in 1..(Len(bs) + 1) /\ n \in (1 - 1)..Len(bs) /\ Len(bs) \in n..Len(bs)
    BY <1>1
  <2>3. x \o y = SubSeq(bs, 1, Len(bs))
    BY <1>1, <2>2, ConcatAdjacentSubSeq
  <2>4. QED BY <1>1, <2>1, <2>3, SubSeqFull
<1> HIDE DEF x, y
<1>3. FlattenSeq(bs) = FlattenSeq(x) \o FlattenSeq(y)
  BY <1>2, FlattenConcat DEF D
<1>4. FlattenSeq(x) \in D /\ FlattenSeq(y) \in D
  BY <1>2, FlattenType DEF D
<1>5. Select(FlattenSeq(bs), S) = Select(FlattenSeq(x), S) \o Select(FlattenSeq(y), S)
  BY <1>3, <1>4, SelectConcat DEF D
<1>6. Select(FlattenSeq(x), S) \in Seq(M \cap S) /\ Select(FlattenSeq(y), S) \in Seq(M \cap S)
  BY <1>4, SelectType DEF D
<1>7. QED BY <1>5, <1>6, PrefixOfConcat DEF x

-----------------------------------------------------------------------------
(* Sets of heights *)

\* Where a set of numbers from 1 on ends.
LEMMA Boundary ==
    ASSUME NEW N \in Nat, NEW R, N + 1 \notin R
    PROVE  \E k \in 0..N : 1..k \subseteq R /\ k + 1 \notin R
<1>1. SUFFICES ASSUME \A k \in 0..N : 1..k \subseteq R => k + 1 \in R PROVE FALSE
  OBVIOUS
<1> DEFINE T == {k \in 0..(N + 1) : 1..k \subseteq R}
<1>2. 0 \in T
  OBVIOUS
<1>3. ASSUME NEW k \in 1..(N + 1), k - 1 \in T PROVE k \in T
  <2>1. 1..(k - 1) \subseteq R /\ k - 1 \in 0..N
    BY <1>3
  <2>2. (k - 1) + 1 \in R
    BY <1>1, <2>1
  <2>3. k \in R /\ 1..k \subseteq R
    BY <2>1, <2>2
  <2>4. QED BY <2>3
<1>4. 0..(N + 1) \subseteq T
  <2>1. N + 1 \in Nat
    OBVIOUS
  <2> HIDE DEF T
  <2>2. QED BY <1>2, <1>3, <2>1, InductionTo
<1>5. N + 1 \in T
  <2> HIDE DEF T
  <2>1. QED BY <1>4
<1>6. QED BY <1>5

\* In order, the numbers from 1 to n are at their own places.
LEMMA AscendingInterval ==
    ASSUME NEW n \in Nat
    PROVE  Ascending(1..n) = [i \in 1..n |-> i]
<1> DEFINE S == 1..n
           IsAscending(s) == \A i, j \in DOMAIN s : i < j => s[i] < s[j]
           s == Ascending(S)
<1>1. Cardinality(S) = n
  BY FS_Interval
<1>2. [i \in 1..n |-> i] \in [1..n -> S] /\ IsAscending([i \in 1..n |-> i])
  OBVIOUS
<1>3. s \in [1..n -> S] /\ IsAscending(s)
  <2>1. s = CHOOSE t \in [1..n -> S] : IsAscending(t)
    BY <1>1 DEF Ascending
  <2> HIDE DEF IsAscending, s, S
  <2>2. QED BY <1>2, <2>1
<1> HIDE DEF s
<1>4. \A i \in 1..n : s[i] \in 1..n
  BY <1>3
<1>5. \A i \in 1..n : s[i] >= i
  <2> DEFINE T == {i \in 0..n : i = 0 \/ s[i] >= i}
  <2>1. 0 \in T
    OBVIOUS
  <2>2. ASSUME NEW k \in 1..n, k - 1 \in T PROVE k \in T
    <3>1. CASE k = 1
      BY <1>4, <3>1
    <3>2. CASE k > 1
      <4>1. k - 1 \in 1..n /\ s[k - 1] >= k - 1 /\ s[k - 1] < s[k]
        BY <1>3, <2>2, <3>2
      <4>2. QED BY <1>4, <4>1
    <3>3. QED BY <3>1, <3>2
  <2>3. 0..n \subseteq T
    <3> HIDE DEF T
    <3>1. QED BY <2>1, <2>2, InductionTo
  <2>4. QED BY <2>3
<1>6. \A i \in 1..n : s[i] <= i
  <2> DEFINE T == {d \in 0..n : d = n \/ s[n - d] <= n - d}
  <2>1. 0 \in T
    <3>1. CASE n = 0
      BY <3>1
    <3>2. CASE n # 0
      BY <1>4, <3>2
    <3>3. QED BY <3>1, <3>2
  <2>2. ASSUME NEW d \in 1..n, d - 1 \in T PROVE d \in T
    <3>1. CASE d = n
      BY <3>1
    <3>2. CASE d < n
      <4>1. n - d \in 1..n /\ n - (d - 1) \in 1..n /\ n - d < n - (d - 1)
        BY <3>2
      <4>2. s[n - d] < s[n - (d - 1)]
        BY <1>3, <4>1
      <4>3. s[n - (d - 1)] <= n - (d - 1)
        BY <2>2
      <4>4. s[n - d] <= n - d
        BY <1>4, <4>1, <4>2, <4>3
      <4>5. QED BY <4>4
    <3>3. QED BY <3>1, <3>2
  <2>3. 0..n \subseteq T
    <3> HIDE DEF T
    <3>1. QED BY <2>1, <2>2, InductionTo
  <2>4. ASSUME NEW i \in 1..n PROVE s[i] <= i
    <3>1. n - i \in T /\ n - i # n /\ n - (n - i) = i
      BY <2>3
    <3>2. QED BY <3>1
  <2>5. QED BY <2>4
<1>7. \A i \in 1..n : s[i] = i
  BY <1>4, <1>5, <1>6
<1>8. QED BY <1>3, <1>7 DEF s

-----------------------------------------------------------------------------
(* Types *)

\* What the assumption says of the scenario of a behaviour.
LEMMA ScenarioFacts ==
    ASSUME scenario \in Scenario
    PROVE  /\ scenario.consumer \in {"game", "demux"}
           /\ Messages \subseteq Message
           /\ \A m \in Messages : kind(m) \in Kind
           /\ HostChain \in Seq(HostMessage)
BY SequencerAssumption DEF SequencerAssumption, Messages, kind, HostChain

\* A message of the host sequences messages of the players.
LEMMA BatchType ==
    ASSUME NEW msg \in HostMessage
    PROVE  batch(msg) \in Seq(Message)
BY DEF HostMessage, batch

\* The batches of a chain, one per height (TryFrom<RawSequencer>).
LEMMA BatchesType ==
    ASSUME NEW chain \in Seq(HostMessage)
    PROVE  /\ Batches(chain) \in Seq(Seq(Message))
           /\ Len(Batches(chain)) = Len(chain)
           /\ \A h \in 1..Len(chain) : Batches(chain)[h] = batch(chain[h])
<1>1. Len(chain) \in Nat /\ DOMAIN chain = 1..Len(chain)
  OBVIOUS
<1>2. \A h \in 1..Len(chain) : batch(chain[h]) \in Seq(Message)
  BY BatchType
<1>3. Batches(chain) = [h \in 1..Len(chain) |-> batch(chain[h])]
  BY <1>1 DEF Batches
<1> DEFINE bs == Batches(chain)
<1>4. bs \in [1..Len(chain) -> Seq(Message)] /\ \A h \in 1..Len(chain) : bs[h] = batch(chain[h])
  BY <1>2, <1>3
<1> HIDE DEF bs
<1>5. bs \in Seq(Seq(Message)) /\ Len(bs) = Len(chain)
  BY <1>1, <1>4
<1>6. QED BY <1>4, <1>5 DEF bs

\* The batcher takes what is there: the longest part of the batch whose
\* envelopes are all in the cache.
LEMMA MaxAvailable ==
    ASSUME envelope_hashes \in Seq(Message)
    PROVE  /\ Max(Available) \in 0..Len(envelope_hashes)
           /\ \A i \in 1..Max(Available) : envelope_hashes[i] \in msg_cache
<1> DEFINE N == Len(envelope_hashes)
           R == {i \in 1..N : envelope_hashes[i] \in msg_cache}
<1>1. N \in Nat /\ N + 1 \notin R
  OBVIOUS
<1>2. PICK k \in 0..N : 1..k \subseteq R /\ k + 1 \notin R
  <2> HIDE DEF R, N
  <2>1. QED BY <1>1, Boundary
<1>3. k \in Available
  BY <1>2 DEF Available
<1>4. ASSUME NEW n \in Available PROVE k >= n
  <2>1. n \in 0..N /\ \A i \in 1..n : envelope_hashes[i] \in msg_cache
    BY DEF Available
  <2>2. k + 1 <= n => k + 1 \in R
    BY <1>1, <1>2, <2>1
  <2>3. QED BY <1>1, <1>2, <2>1, <2>2
<1>5. Max(Available) \in Available
  BY <1>3, <1>4 DEF Max
<1>6. QED BY <1>5 DEF Available

\* The tasks start with empty queues.
LEMMA TypeInit == Init => TypeOK
<1>1. SUFFICES ASSUME Init PROVE TypeOK
  OBVIOUS
<1>2. HostChain \in Seq(HostMessage)
  BY <1>1, ScenarioFacts DEF Init
<1>3. 0 \in 0..Len(HostChain)
  BY <1>2
<1>4. <<>> \in Seq(Parsed) /\ <<>> \in Seq(Message) /\ <<>> \in Seq(Seq(Message))
  OBVIOUS
<1>5. /\ recieve \in [Channel -> Seq(Parsed)]
      /\ \A c \in Channel : recieve[c] \in Seq(OfKind({c}))
  BY <1>1 DEF Init
<1>6. /\ message_id \in [Messages -> Nat]
      /\ msg_cache \subseteq Parsed
      /\ host_rows \subseteq DOMAIN HostChain /\ host_connected \subseteq host_rows
      /\ hidden_services \subseteq STRING
  BY <1>1 DEF Init
<1>7. /\ scenario \in Scenario /\ last_id = 0 /\ shutdown = FALSE
      /\ count = 0 /\ sequencer_pc = "check" /\ newer = 0 /\ fetcher_pc = "scan"
      /\ batcher_pc = "recv" /\ notified = FALSE /\ game_pc = "playing"
      /\ batches_to_sequence = <<>> /\ envelope_hashes = <<>> /\ output_envelope = <<>>
      /\ output_move = <<>> /\ played = <<>>
  BY <1>1 DEF Init
<1>8. newer \in 0..last_id /\ last_id \in Nat
  BY <1>7
<1>9. QED BY <1>3, <1>4, <1>5, <1>6, <1>7, <1>8 DEF TypeOK

\* Each step keeps the types.
LEMMA TypeNext == TypeOK /\ [Next]_vars => TypeOK'
<1>1. SUFFICES ASSUME TypeOK, [Next]_vars PROVE TypeOK'
  OBVIOUS
<1> USE DEF Messages, kind, HostChain, Parsed, OfKind, Kind
<1>2. ASSUME NEW m \in Messages, store(m) PROVE TypeOK'
  BY <1>1, <1>2 DEF TypeOK, store, sequencer, fetcher, batcher, game
<1>3. ASSUME NEW h \in DOMAIN HostChain, store_host(h) PROVE TypeOK'
  BY <1>1, <1>3 DEF TypeOK, store_host, sequencer, fetcher, batcher, game
<1>4. ASSUME attach_tips PROVE TypeOK'
  BY <1>1, <1>4 DEF TypeOK, attach_tips, sequencer, fetcher, batcher, game
<1>5. ASSUME request_shutdown PROVE TypeOK'
  BY <1>1, <1>5 DEF TypeOK, request_shutdown, database, sequencer, fetcher, batcher, game
<1>6. ASSUME start_sequencer PROVE TypeOK'
  <2> USE DEF TypeOK, start_sequencer, database, fetcher, batcher, game
  <2>1. CASE shutdown
    BY <1>1, <1>6, <2>1
  <2>2. CASE ~shutdown
    <3> DEFINE msg == HostChain[count + 1]
    <3>1. count + 1 \in 1..Len(HostChain) /\ msg \in HostMessage
      BY <1>1, <1>6, <2>2, ScenarioFacts
    <3>2. count' \in 0..Len(HostChain)
      BY <1>1, <1>6, <2>2, <3>1
    <3>3. batch(msg) \in Seq(Message) /\ (msg.t = "Sequence" => msg.batch \in Seq(Message))
      BY <3>1, BatchType DEF batch
    <3>4. batches_to_sequence' \in Seq(Seq(Message))
      <4>1. batches_to_sequence \in Seq(Seq(Message))
        BY <1>1
      <4>2. batches_to_sequence' = IF msg.t = "Sequence"
                                   THEN Append(batches_to_sequence, msg.batch)
                                   ELSE batches_to_sequence
        BY <1>6, <2>2
      <4> HIDE DEF msg
      <4>3. QED BY <3>3, <4>1, <4>2, AppendProperties
    <3>5. hidden_services' \subseteq STRING
      <4>1. msg.t = "NewPeer" => msg.peer \in STRING
        BY <3>1 DEF HostMessage
      <4>2. QED BY <1>1, <1>6, <2>2, <4>1
    <3>6. QED BY <1>1, <1>6, <2>2, <3>2, <3>4, <3>5
  <2>3. QED BY <2>1, <2>2
<1>7. ASSUME start_envelope_db_fetcher \/ fetcher_shutdown \/ fetcher_fails PROVE TypeOK'
  <2>1. UNCHANGED <<database, shutdown, sequencer, batches_to_sequence, batcher_pc,
                    envelope_hashes, output_envelope, output_move, game>>
    BY <1>7 DEF start_envelope_db_fetcher, fetcher_shutdown, fetcher_fails, batcher
  <2>2. newer' \in 0..last_id /\ fetcher_pc' \in {"scan", "notify", "done", "failed"}
    BY <1>1, <1>7 DEF TypeOK, start_envelope_db_fetcher, fetcher_shutdown, fetcher_fails,
       collect_into_cache
  <2>3. msg_cache' \subseteq Parsed
    BY <1>1, <1>7 DEF TypeOK, start_envelope_db_fetcher, fetcher_shutdown, fetcher_fails,
       collect_into_cache
  <2>4. notified' \in BOOLEAN
    BY <1>1, <1>7 DEF TypeOK, start_envelope_db_fetcher, fetcher_shutdown, fetcher_fails,
       notify_waiters, batcher
  <2>5. QED BY <1>1, <2>1, <2>2, <2>3, <2>4 DEF TypeOK, database, sequencer, game
<1>8. ASSUME batcher_recv PROVE TypeOK'
  BY <1>1, <1>8 DEF TypeOK, batcher_recv, database, sequencer, fetcher, game
<1>9. ASSUME batcher_drain PROVE TypeOK'
  <2> DEFINE n == Max(Available)
             out == SubSeq(envelope_hashes, 1, n)
             rest == SubSeq(envelope_hashes, n + 1, Len(envelope_hashes))
  <2>1. n \in 0..Len(envelope_hashes) /\ \A i \in 1..n : envelope_hashes[i] \in msg_cache
    BY <1>1, MaxAvailable DEF TypeOK
  <2>2. /\ msg_cache' = msg_cache \ ToSet(out)
        /\ output_envelope' = output_envelope \o out
        /\ envelope_hashes' = rest
        /\ batcher_pc' \in {"recv", "registered"} /\ notified' = FALSE
    BY <1>9 DEF batcher_drain
  <2> HIDE DEF n
  <2>3. out \in Seq(Parsed)
    BY <1>1, <2>1 DEF TypeOK
  <2>4. rest \in Seq(Message)
    BY <1>1, <2>1 DEF TypeOK
  <2> HIDE DEF out, rest
  <2>5. output_envelope' \in Seq(Parsed) /\ envelope_hashes' \in Seq(Message)
        /\ msg_cache' \subseteq Parsed
    BY <1>1, <2>2, <2>3, <2>4 DEF TypeOK
  <2>6. UNCHANGED <<database, shutdown, sequencer, batches_to_sequence, fetcher, output_move, game>>
    BY <1>9 DEF batcher_drain
  <2>7. QED BY <1>1, <2>2, <2>5, <2>6, ZenonT(40) DEF TypeOK, database, sequencer, fetcher, game
<1>10. ASSUME batcher_await \/ batcher_wake PROVE TypeOK'
  BY <1>1, <1>10 DEF TypeOK, batcher_await, batcher_wake, database, sequencer, fetcher, game
<1>11. ASSUME start_move_deserializer PROVE TypeOK'
  BY <1>1, <1>11 DEF TypeOK, start_move_deserializer, database, sequencer, fetcher, batcher, game
<1>12. ASSUME start_game PROVE TypeOK'
  <2>1. output_move \in Seq(Parsed) /\ output_move # <<>> /\ played \in Seq(Parsed)
    BY <1>1, <1>12 DEF TypeOK, start_game
  <2>2. Head(output_move) \in Parsed /\ Tail(output_move) \in Seq(Parsed)
    BY <2>1, HeadTailProperties
  <2>3. Append(played, Head(output_move)) \in Seq(Parsed)
    BY <2>1, <2>2, AppendProperties
  <2> HIDE DEF Parsed
  <2>4. played' \in Seq(Parsed) /\ game_pc' \in {"playing", "done"} /\ output_move' \in Seq(Parsed)
    BY <1>1, <1>12, <2>2, <2>3 DEF TypeOK, start_game
  <2>5. QED BY <1>1, <1>12, <2>4 DEF TypeOK, start_game, database, sequencer, fetcher, batcher, Parsed
<1>13. ASSUME demux PROVE TypeOK'
  <2> DEFINE m == Head(output_move)
             c == kind(m)
  <2>1. output_move \in Seq(Parsed) /\ output_move # <<>>
    BY <1>1, <1>13 DEF TypeOK, demux
  <2>2. m \in Parsed /\ Tail(output_move) \in Seq(Parsed)
    BY <2>1, HeadTailProperties
  <2>3. c \in Channel /\ m \in OfKind({c})
    BY <2>2
  <2>4. recieve' = [recieve EXCEPT ![c] = Append(@, m)] /\ output_move' = Tail(output_move)
    BY <1>13 DEF demux
  <2> HIDE DEF m, c, Parsed, OfKind
  <2>5. Append(recieve[c], m) \in Seq(Parsed) /\ Append(recieve[c], m) \in Seq(OfKind({c}))
    BY <1>1, <2>2, <2>3, AppendProperties DEF TypeOK
  <2>6. /\ recieve' \in [Channel -> Seq(Parsed)]
        /\ \A d \in Channel : recieve'[d] \in Seq(OfKind({d}))
    BY <1>1, <2>3, <2>4, <2>5 DEF TypeOK
  <2>7. \A S : OfKind(S)' = OfKind(S)
    BY <1>13 DEF demux, database, OfKind
  <2>8. Parsed' = Parsed /\ Messages' = Messages
    BY <1>13 DEF demux, database, Parsed, OfKind
  <2>9. QED BY <1>1, <1>13, <2>2, <2>4, <2>6, <2>7, <2>8
           DEF TypeOK, demux, database, sequencer, fetcher, batcher
<1>14. ASSUME litigator_start_game PROVE TypeOK'
  <2> DEFINE r == recieve["move"]
  <2> HIDE DEF Parsed, OfKind
  <2>1. /\ r \in Seq(Parsed) /\ r \in Seq(OfKind({"move"})) /\ r # <<>>
        /\ recieve \in [Channel -> Seq(Parsed)] /\ played \in Seq(Parsed)
    BY <1>1, <1>14 DEF TypeOK, litigator_start_game, Channel
  <2>2. recieve' = [recieve EXCEPT !["move"] = Tail(r)] /\ played' = Append(played, Head(r))
    BY <1>14 DEF litigator_start_game
  <2>3. Tail(r) \in Seq(Parsed) /\ Tail(r) \in Seq(OfKind({"move"})) /\ Head(r) \in Parsed
    BY <2>1, HeadTailProperties
  <2>4. played' \in Seq(Parsed)
    BY <2>1, <2>2, <2>3, AppendProperties
  <2> HIDE DEF r
  <2>5. /\ recieve' \in [Channel -> Seq(Parsed)]
        /\ \A d \in Channel : recieve'[d] \in Seq(OfKind({d}))
    BY <1>1, <2>1, <2>2, <2>3 DEF TypeOK
  <2>6. \A S : OfKind(S)' = OfKind(S)
    BY <1>14 DEF litigator_start_game, database, OfKind
  <2>7. Parsed' = Parsed /\ Messages' = Messages
    BY <1>14 DEF litigator_start_game, database, Parsed, OfKind
  <2>8. QED BY <1>1, <1>14, <2>4, <2>5, <2>6, <2>7
           DEF TypeOK, litigator_start_game, database, sequencer, fetcher, batcher
<1>15. ASSUME UNCHANGED vars PROVE TypeOK'
  BY <1>1, <1>15 DEF TypeOK, vars, database, sequencer, fetcher, batcher, game
<1>16. QED
  BY <1>1, <1>2, <1>3, <1>4, <1>5, <1>6, <1>7, <1>8, <1>9, <1>10, <1>11, <1>12, <1>13,
     <1>14, <1>15 DEF Next, start_envelope_batcher

\* The queues, cursors and caches of the tasks keep their types, and a
\* DemuxedSequencer never puts an action into the channel of another kind.
THEOREM TypeCorrect == Spec => []TypeOK
BY TypeInit, TypeNext, PTL DEF Spec

-----------------------------------------------------------------------------
(* The pipeline *)

\* What the host's first n messages sequence.
Flow(n) == FlattenSeq(SubSeq(Batches(HostChain), 1, n))

\* What start_sequencer has read and no consumer has taken, the oldest first.
Pending == output_move \o output_envelope \o envelope_hashes \o FlattenSeq(batches_to_sequence)

\* What is sequenced are messages.
LEMMA FlowType ==
    ASSUME HostChain \in Seq(HostMessage), NEW n \in 0..Len(HostChain)
    PROVE  Flow(n) \in Seq(Message)
<1> DEFINE bs == Batches(HostChain)
           D == Seq(Message)
<1>1. bs \in Seq(D) /\ Len(bs) = Len(HostChain)
  BY BatchesType
<1> HIDE DEF bs, D
<1>2. SubSeq(bs, 1, n) \in Seq(D)
  BY <1>1
<1>3. QED BY <1>2, FlattenType DEF Flow, bs, D

\* The next message of the host adds its batch.
LEMMA FlowNext ==
    ASSUME HostChain \in Seq(HostMessage), NEW n \in Nat, n + 1 \in 1..Len(HostChain)
    PROVE  Flow(n + 1) = Flow(n) \o batch(HostChain[n + 1])
<1> DEFINE bs == Batches(HostChain)
           D == Seq(Message)
           b == batch(HostChain[n + 1])
           first == SubSeq(bs, 1, n)
<1>1. bs \in Seq(D) /\ Len(bs) = Len(HostChain) /\ bs[n + 1] = b /\ Len(bs) \in Nat
  BY BatchesType
<1> HIDE DEF bs, D, b
<1>2. b \in D
  BY <1>1
<1>3. first \in Seq(D) /\ SubSeq(bs, 1, n + 1) = Append(first, b)
  BY <1>1, <1>2
<1> HIDE DEF first
<1>4. FlattenSeq(Append(first, b)) = FlattenSeq(first) \o b
  BY <1>2, <1>3, FlattenAppend DEF D
<1>5. QED BY <1>3, <1>4 DEF Flow, bs, b, first

\* The queues hold messages.
LEMMA PendingType ==
    ASSUME TypeOK
    PROVE  /\ output_move \in Seq(Message) /\ output_envelope \in Seq(Message)
           /\ envelope_hashes \in Seq(Message)
           /\ batches_to_sequence \in Seq(Seq(Message))
           /\ FlattenSeq(batches_to_sequence) \in Seq(Message)
           /\ Pending \in Seq(Message)
<1>1. Parsed \subseteq Message
  BY ScenarioFacts DEF TypeOK, Parsed, OfKind
<1>2. output_move \in Seq(Message) /\ output_envelope \in Seq(Message)
  BY <1>1, SeqMonotonic DEF TypeOK
<1>3. envelope_hashes \in Seq(Message) /\ batches_to_sequence \in Seq(Seq(Message))
  BY DEF TypeOK
<1>4. FlattenSeq(batches_to_sequence) \in Seq(Message)
  BY <1>3, FlattenType
<1>5. Pending \in Seq(Message)
  BY <1>2, <1>3, <1>4 DEF Pending
<1>6. QED BY <1>2, <1>3, <1>4, <1>5

\* Concatenation, as the queues in a row use it.
LEMMA Associative ==
    ASSUME NEW M
    PROVE  \A a, b, c \in Seq(M) : /\ (a \o b) \o c = a \o (b \o c)
                                   /\ a \o b \in Seq(M)
BY ConcatAssociative, ConcatProperties, SMTT(30)

\* The first batch comes out of the channel whole.
LEMMA FlattenHead ==
    ASSUME NEW M, NEW bs \in Seq(Seq(M)), bs # <<>>
    PROVE  FlattenSeq(bs) = Head(bs) \o FlattenSeq(Tail(bs))
<1> DEFINE D == Seq(M)
           b == Head(bs)
           rest == Tail(bs)
<1>1. b \in D /\ rest \in Seq(D) /\ <<b>> \in Seq(D) /\ bs = <<b>> \o rest
  OBVIOUS
<1>2. FlattenSeq(<<b>>) = b
  <2>1. <<>> \in Seq(D) /\ Append(<<>>, b) = <<b>>
    OBVIOUS
  <2> HIDE DEF b
  <2>2. FlattenSeq(Append(<<>>, b)) = FlattenSeq(<<>>) \o b
    BY <1>1, <2>1, FlattenAppend
  <2>3. QED BY <1>1, <2>1, <2>2, FlattenEmpty, ConcatEmptySeq
<1> HIDE DEF b, rest
<1>3. FlattenSeq(<<b>> \o rest) = FlattenSeq(<<b>>) \o FlattenSeq(rest)
  BY <1>1, FlattenConcat
<1>4. QED BY <1>1, <1>2, <1>3 DEF b, rest

\* A batch in work is empty when the batcher waits for the next.
BatchDone == batcher_pc = "recv" => envelope_hashes = <<>>

\* The tasks between the host's chain and the consumer hand on what they get.
LEMMA TasksKeepOrder ==
    ASSUME TypeOK, BatchDone, batcher_recv \/ batcher_drain \/ start_move_deserializer
    PROVE  Pending' = Pending
<1> DEFINE om == output_move
           oe == output_envelope
           eh == envelope_hashes
           bs == batches_to_sequence
<1>1. om \in Seq(Message) /\ oe \in Seq(Message) /\ eh \in Seq(Message)
      /\ bs \in Seq(Seq(Message)) /\ FlattenSeq(bs) \in Seq(Message)
  BY PendingType
<1>a. ASSUME NEW a \in Seq(Message), NEW b \in Seq(Message), NEW c \in Seq(Message)
      PROVE  (a \o b) \o c = a \o (b \o c) /\ a \o b \in Seq(Message)
  BY Associative
<1>b. om \o oe \in Seq(Message)
  BY <1>1, <1>a
<1>2. CASE batcher_recv
  <2>1. /\ eh = <<>> /\ bs # <<>> /\ om' = om /\ oe' = oe
        /\ eh' = Head(bs) /\ bs' = Tail(bs)
    BY <1>2 DEF batcher_recv, BatchDone
  <2>2. FlattenSeq(bs) = eh' \o FlattenSeq(bs')
    BY <1>1, <2>1, FlattenHead
  <2>3. eh' \in Seq(Message) /\ bs' \in Seq(Seq(Message))
    BY <1>1, <2>1
  <2>4. FlattenSeq(bs') \in Seq(Message) /\ om \o oe \in Seq(Message)
    BY <1>1, <2>3, FlattenType
  <2>5. (om \o oe) \o eh = om \o oe
    BY <2>1, <2>4, ConcatEmptySeq
  <2>6. ((om \o oe) \o eh') \o FlattenSeq(bs') = (om \o oe) \o FlattenSeq(bs)
    <3> DEFINE x == om \o oe
               y == eh'
               z == FlattenSeq(bs')
    <3>1. x \in Seq(Message) /\ y \in Seq(Message) /\ z \in Seq(Message)
      BY <2>3, <2>4
    <3> HIDE DEF x, y, z
    <3>2. (x \o y) \o z = x \o (y \o z)
      BY <3>1, <1>a
    <3>3. QED BY <2>2, <3>2 DEF x, y, z
  <2>7. QED BY <2>1, <2>5, <2>6 DEF Pending
<1>3. CASE batcher_drain
  <2> DEFINE n == Max(Available)
             out == SubSeq(eh, 1, n)
             rest == SubSeq(eh, n + 1, Len(eh))
  <2>1. n \in 0..Len(eh)
    BY MaxAvailable DEF TypeOK
  <2>2. oe' = oe \o out /\ eh' = rest /\ om' = om /\ bs' = bs
    BY <1>3 DEF batcher_drain
  <2> HIDE DEF n
  <2>3. out \in Seq(Message) /\ rest \in Seq(Message)
    BY <1>1, <2>1
  <2>4. out \o rest = eh
    <3>1. 1 \in 1..(Len(eh) + 1) /\ n \in (1 - 1)..Len(eh) /\ Len(eh) \in n..Len(eh)
      BY <1>1, <2>1
    <3>2. out \o rest = SubSeq(eh, 1, Len(eh))
      BY <1>1, <3>1, ConcatAdjacentSubSeq
    <3>3. QED BY <1>1, <3>2, SubSeqFull
  <2> HIDE DEF out, rest
  <2>5. om \o (oe \o out) = (om \o oe) \o out /\ om \o oe \in Seq(Message)
    <3>1. om \in Seq(Message) /\ oe \in Seq(Message) /\ out \in Seq(Message)
      BY <1>1, <2>3
    <3> HIDE DEF om, oe
    <3>2. (om \o oe) \o out = om \o (oe \o out)
      BY <3>1, <1>a
    <3>3. QED BY <3>2, <1>b DEF om, oe
  <2>6. ((om \o oe) \o out) \o rest = (om \o oe) \o eh
    BY <1>a, <2>3, <2>4, <2>5
  <2>7. QED BY <2>2, <2>5, <2>6 DEF Pending
<1>4. CASE start_move_deserializer
  <2>1. /\ oe # <<>> /\ om' = Append(om, Head(oe)) /\ oe' = Tail(oe)
        /\ eh' = eh /\ bs' = bs
    BY <1>4 DEF start_move_deserializer, batcher
  <2>2. Append(om, Head(oe)) \o Tail(oe) = om \o oe
    <3>1. ASSUME NEW x \in Seq(Message), NEW y \in Seq(Message), y # <<>>
          PROVE  Append(x, Head(y)) \o Tail(y) = x \o y
      BY <3>1
    <3>2. QED BY <1>1, <2>1, <3>1
  <2>3. QED BY <2>1, <2>2 DEF Pending
<1>5. QED BY <1>2, <1>3, <1>4

\* start_sequencer puts the batch of the next message at the end.
LEMMA SequencerAppends ==
    ASSUME TypeOK, start_sequencer, ~shutdown
    PROVE  /\ Pending' = Pending \o batch(HostChain[count + 1])
           /\ count + 1 \in 1..Len(HostChain)
           /\ batch(HostChain[count + 1]) \in Seq(Message)
           /\ count' = count + 1
<1> DEFINE msg == HostChain[count + 1]
           bs == batches_to_sequence
           before == (output_move \o output_envelope) \o envelope_hashes
<1>1. /\ count' = count + 1 /\ count + 1 \in host_rows
      /\ bs' = IF msg.t = "Sequence" THEN Append(bs, msg.batch) ELSE bs
      /\ UNCHANGED <<output_move, output_envelope, envelope_hashes>>
  BY DEF start_sequencer, batcher
<1>2. HostChain \in Seq(HostMessage)
  BY ScenarioFacts DEF TypeOK
<1>3. count + 1 \in 1..Len(HostChain) /\ msg \in HostMessage
  BY <1>1, <1>2 DEF TypeOK
<1>4. batch(msg) \in Seq(Message)
  BY <1>3, BatchType
<1>5. before \in Seq(Message) /\ bs \in Seq(Seq(Message)) /\ FlattenSeq(bs) \in Seq(Message)
  <2>1. /\ output_move \in Seq(Message) /\ output_envelope \in Seq(Message)
        /\ envelope_hashes \in Seq(Message)
        /\ bs \in Seq(Seq(Message)) /\ FlattenSeq(bs) \in Seq(Message)
    BY PendingType
  <2>2. QED BY <2>1
<1> HIDE DEF msg
<1>6. FlattenSeq(bs') = FlattenSeq(bs) \o batch(msg)
  <2>1. CASE msg.t = "Sequence"
    BY <1>1, <1>4, <1>5, <2>1, FlattenAppend DEF batch
  <2>2. CASE msg.t # "Sequence"
    BY <1>1, <1>5, <2>2, ConcatEmptySeq DEF batch
  <2>3. QED BY <2>1, <2>2
<1>7. Pending' = before \o FlattenSeq(bs')
  BY <1>1 DEF Pending
<1>8. before \o (FlattenSeq(bs) \o batch(msg)) = (before \o FlattenSeq(bs)) \o batch(msg)
  <2> HIDE DEF before
  <2>1. QED BY <1>4, <1>5, Associative, SMTT(30)
<1>9. Pending = before \o FlattenSeq(bs)
  BY DEF Pending
<1>10. QED BY <1>1, <1>3, <1>4, <1>6, <1>7, <1>8, <1>9 DEF msg

\* A consumer takes the oldest.
LEMMA ConsumerTakes ==
    ASSUME TypeOK, start_game \/ demux
    PROVE  /\ Head(output_move) \in Parsed
           /\ Pending = <<Head(output_move)>> \o Pending'
           /\ Pending' \in Seq(Message)
<1> DEFINE om == output_move
           oe == output_envelope
           eh == envelope_hashes
           f == FlattenSeq(batches_to_sequence)
           m == Head(om)
<1>1. om \in Seq(Parsed) /\ om # <<>> /\ om' = Tail(om)
      /\ UNCHANGED <<oe, eh, batches_to_sequence>>
  BY DEF TypeOK, start_game, demux, batcher
<1>2. m \in Parsed
  BY <1>1
<1>3. om \in Seq(Message) /\ oe \in Seq(Message) /\ eh \in Seq(Message) /\ f \in Seq(Message)
  BY PendingType
<1>4. om = <<m>> \o Tail(om) /\ <<m>> \in Seq(Message) /\ Tail(om) \in Seq(Message)
  BY <1>1, <1>3
<1>5. Pending' = Tail(om) \o oe \o eh \o f
  BY <1>1 DEF Pending
<1>6. ASSUME NEW a \in Seq(Message), NEW b \in Seq(Message)
      PROVE  (<<m>> \o a) \o b = <<m>> \o (a \o b) /\ a \o b \in Seq(Message)
  <2> HIDE DEF m, om
  <2>1. QED BY <1>4, ConcatAssociative, ConcatProperties
<1> HIDE DEF m, om, oe, eh, f
<1>7. (<<m>> \o Tail(om)) \o oe = <<m>> \o (Tail(om) \o oe) /\ Tail(om) \o oe \in Seq(Message)
  BY <1>3, <1>4, <1>6
<1>8. /\ (<<m>> \o (Tail(om) \o oe)) \o eh = <<m>> \o (Tail(om) \o oe \o eh)
      /\ Tail(om) \o oe \o eh \in Seq(Message)
  BY <1>3, <1>6, <1>7
<1>9. /\ (<<m>> \o (Tail(om) \o oe \o eh)) \o f = <<m>> \o (Tail(om) \o oe \o eh \o f)
      /\ Tail(om) \o oe \o eh \o f \in Seq(Message)
  BY <1>3, <1>6, <1>8
<1>10. Pending = <<m>> \o (Tail(om) \o oe \o eh \o f)
  BY <1>4, <1>7, <1>8, <1>9 DEF Pending, om, oe, eh, f
<1>11. QED BY <1>2, <1>5, <1>9, <1>10 DEF m, om

-----------------------------------------------------------------------------
(* The inductive invariant *)

\* The channels that the consumer of this game reads.
Channels == IF scenario.consumer = "game" THEN {"move"} ELSE Channel

\* One consumer at a time: the desktop's task leaves the channels of a
\* DemuxedSequencer alone, and only that task ever stops.
ConsumerInv ==
    /\ scenario.consumer = "game" => recieve = [c \in Channel |-> <<>>]
    /\ scenario.consumer = "demux" => game_pc = "playing"

\* What was sequenced is what was delivered and what is on its way, per kind of
\* action; when the desktop's task has met another action, it keeps what it has.
PipelineInv ==
    /\ game_pc = "playing" =>
         \A c \in Channels :
            Select(Flow(count), OfKind({c})) = Delivered[c] \o Select(Pending, OfKind({c}))
    /\ game_pc = "done" => IsPrefix(played, Select(Flow(count), OfKind({"move"})))

\* The connected rows of the host's chain are those up to some height.
RowsInv == \E n \in 0..Len(HostChain) : host_connected = 1..n

IndInv == TypeOK /\ BatchDone /\ ConsumerInv /\ PipelineInv /\ RowsInv

\* What each channel has delivered, by kind.
LEMMA DeliveredFacts ==
    ASSUME TypeOK
    PROVE  /\ DOMAIN Delivered = Channel
           /\ Delivered["move"] = played \o recieve["move"]
           /\ \A c \in Channel : c # "move" => Delivered[c] = recieve[c]
           /\ \A c \in Channel : Delivered[c] \in Seq(Message)
<1>1. Parsed \subseteq Message
  BY ScenarioFacts DEF TypeOK, Parsed, OfKind
<1>2. played \in Seq(Message) /\ \A c \in Channel : recieve[c] \in Seq(Message)
  BY <1>1, SeqMonotonic DEF TypeOK
<1>3. recieve \in [Channel -> Seq(Message)] /\ "move" \in Channel
  BY <1>2 DEF TypeOK, Channel
<1>4. played \o recieve["move"] \in Seq(Message)
  BY <1>2, <1>3, ConcatProperties
<1>5. Delivered = [recieve EXCEPT !["move"] = played \o recieve["move"]]
  BY DEF Delivered
<1>6. QED BY <1>2, <1>3, <1>4, <1>5

\* Steps that neither sequence nor deliver anything.
LEMMA QuietStep ==
    ASSUME IndInv,
           UNCHANGED <<scenario, count, game_pc, played, Pending, Delivered>>
    PROVE  PipelineInv'
<1>1. HostChain' = HostChain /\ \A K : OfKind(K)' = OfKind(K)
  BY DEF HostChain, OfKind, Messages, kind
<1>2. Flow(count)' = Flow(count)
  BY <1>1 DEF Flow
<1>3. Channels' = Channels
  BY DEF Channels
<1>4. QED BY <1>1, <1>2, <1>3 DEF IndInv, PipelineInv

\* A batch that is read is on its way.
LEMMA SequencerStep ==
    ASSUME IndInv, start_sequencer, ~shutdown
    PROVE  PipelineInv'
<1> DEFINE b == batch(HostChain[count + 1])
<1>1. TypeOK
  BY DEF IndInv
<1>2. /\ Pending' = Pending \o b /\ b \in Seq(Message)
      /\ count + 1 \in 1..Len(HostChain) /\ count' = count + 1
  BY <1>1, SequencerAppends
<1>3. UNCHANGED <<scenario, game_pc, played, Delivered>>
  BY DEF start_sequencer, database, game, Delivered
<1>4. HostChain' = HostChain /\ \A K : OfKind(K)' = OfKind(K)
  BY <1>3 DEF HostChain, OfKind, Messages, kind
<1>5. HostChain \in Seq(HostMessage) /\ count \in 0..Len(HostChain)
  BY <1>1, ScenarioFacts DEF TypeOK
<1>6. Flow(count) \in Seq(Message) /\ Flow(count + 1) = Flow(count) \o b
  BY <1>2, <1>5, FlowType, FlowNext
<1>7. Flow(count)' = Flow(count) \o b
  BY <1>2, <1>4, <1>6 DEF Flow
<1> HIDE DEF b
<1>8. Pending \in Seq(Message)
  BY <1>1, PendingType
<1>9. CASE game_pc = "playing"
  <2>1. SUFFICES ASSUME NEW c \in Channels
                 PROVE  Select(Flow(count), OfKind({c}))' = (Delivered[c] \o Select(Pending, OfKind({c})))'
    BY <1>3, <1>9 DEF PipelineInv, Channels
  <2> DEFINE S == OfKind({c})
             x == Select(Flow(count), S)
             y == Select(Pending, S)
             z == Select(b, S)
             d == Delivered[c]
  <2>2. x = d \o y
    BY <1>9 DEF IndInv, PipelineInv
  <2>3. c \in Channel
    BY DEF Channels, Channel
  <2>4. d \in Seq(Message)
    BY <1>1, <2>3, DeliveredFacts
  <2> HIDE DEF S
  <2>5. Select(Flow(count) \o b, S) = x \o z /\ Select(Pending \o b, S) = y \o z
    BY <1>2, <1>6, <1>8, SelectConcat
  <2>6. y \in Seq(Message) /\ z \in Seq(Message)
    <3>1. y \in Seq(Message \cap S) /\ z \in Seq(Message \cap S)
      BY <1>2, <1>8, SelectType
    <3> HIDE DEF y, z
    <3>2. QED BY <3>1, SeqMonotonic
  <2> HIDE DEF x, y, z, d
  <2>7. x \o z = d \o (y \o z)
    BY <2>2, <2>4, <2>6, Associative
  <2>8. Select(Flow(count), OfKind({c}))' = x \o z
    BY <1>4, <1>7, <2>5 DEF S
  <2>9. (Delivered[c] \o Select(Pending, OfKind({c})))' = d \o (y \o z)
    BY <1>2, <1>3, <1>4, <2>5 DEF S, d
  <2>10. QED BY <2>7, <2>8, <2>9
<1>10. CASE game_pc = "done"
  <2> DEFINE S == OfKind({"move"})
             x == Select(Flow(count), S)
             z == Select(b, S)
  <2>1. IsPrefix(played, x)
    BY <1>10 DEF IndInv, PipelineInv
  <2>2. played \in Seq(Message)
    <3>1. played \in Seq(Parsed) /\ Parsed \subseteq Message
      BY <1>1, ScenarioFacts DEF TypeOK, Parsed, OfKind
    <3>2. QED BY <3>1, SeqMonotonic
  <2> HIDE DEF S
  <2>3. Select(Flow(count) \o b, S) = x \o z
    BY <1>2, <1>6, SelectConcat
  <2>4. x \in Seq(Message) /\ z \in Seq(Message)
    <3>1. x \in Seq(Message \cap S) /\ z \in Seq(Message \cap S)
      BY <1>2, <1>6, SelectType
    <3> HIDE DEF x, z
    <3>2. QED BY <3>1, SeqMonotonic
  <2> HIDE DEF x, z
  <2>5. IsPrefix(x, x \o z) /\ x \o z \in Seq(Message)
    BY <2>4, PrefixOfConcat, ConcatProperties
  <2>6. IsPrefix(played, x \o z)
    BY <2>1, <2>2, <2>4, <2>5, PrefixTransitive
  <2>7. Select(Flow(count), OfKind({"move"}))' = x \o z
    BY <1>4, <1>7, <2>3 DEF S
  <2>8. QED BY <1>3, <1>10, <2>6, <2>7 DEF PipelineInv
<1>11. QED BY <1>1, <1>9, <1>10 DEF TypeOK

\* q is m, then p.
Starts(q, m, p) == q = <<m>> \o p

\* m is taken from q to d, if it is in S; p is left.
Takes(S, d, m, p, q) ==
    /\ m \in S => d \o Select(q, S) = Append(d, m) \o Select(p, S)
    /\ m \notin S => d \o Select(q, S) = d \o Select(p, S)

\* One message moves from what is pending to what is delivered.
LEMMA Take ==
    ASSUME NEW M, NEW S, NEW d \in Seq(M), NEW m \in M, NEW p \in Seq(M),
           NEW q, Starts(q, m, p)
    PROVE  Takes(S, d, m, p, q)
<1> DEFINE z == Select(p, S)
<1>1. <<m>> \in Seq(M) /\ <<>> \in Seq(M) /\ Append(<<>>, m) = <<m>>
  OBVIOUS
<1>2. Select(<<m>>, S) = IF m \in S THEN <<m>> ELSE <<>>
  <2> DEFINE e == <<>>
  <2>1. e \in Seq(M) /\ Append(e, m) = <<m>> /\ Select(e, S) = e
    BY SelectEmpty
  <2> HIDE DEF e
  <2>2. Select(Append(e, m), S) = IF m \in S THEN Append(Select(e, S), m) ELSE Select(e, S)
    <3>1. e \in Seq(M)
      BY <2>1
    <3>2. QED BY ONLY <3>1, m \in M, SelectAppend
  <2>3. QED BY <2>1, <2>2 DEF e
<1>3. Select(q, S) = Select(<<m>>, S) \o z
  <2> DEFINE l == <<m>>
  <2>1. l \in Seq(M) /\ q = l \o p
    BY DEF Starts
  <2> HIDE DEF l
  <2>2. QED BY <2>1, SelectConcat DEF l
<1>4. z \in Seq(M)
  <2>1. z \in Seq(M \cap S)
    BY SelectType
  <2> HIDE DEF z
  <2>2. QED BY <2>1, SeqMonotonic
<1> HIDE DEF z
<1>5. CASE m \in S
  <2>1. Select(q, S) = <<m>> \o z
    BY <1>2, <1>3, <1>5
  <2>2. d \o (<<m>> \o z) = (d \o <<m>>) \o z
    BY <1>1, <1>4, Associative, SMTT(30)
  <2>3. d \o <<m>> = Append(d, m)
    BY AppendIsConcat
  <2>4. QED BY <1>5, <2>1, <2>2, <2>3 DEF z, Takes
<1>6. CASE m \notin S
  <2>1. Select(q, S) = <<>> \o z
    BY <1>2, <1>3, <1>6
  <2>2. <<>> \o z = z
    BY <1>4, ConcatEmptySeq
  <2>3. QED BY <1>6, <2>1, <2>2 DEF z, Takes
<1>7. QED BY <1>5, <1>6

\* The desktop's task plays a move, or ends at anything else.
LEMMA GameStep ==
    ASSUME IndInv, start_game
    PROVE  /\ PipelineInv' /\ ConsumerInv'
           /\ \/ Delivered' = Delivered
              \/ \E c \in Channel, m \in Parsed :
                    Delivered' = [Delivered EXCEPT ![c] = Append(@, m)]
<1> DEFINE m == Head(output_move)
           S == OfKind({"move"})
           x == Select(Flow(count), S)
           z == Select(Pending', S)
<1>1. TypeOK
  BY DEF IndInv
<1>2. m \in Parsed /\ Pending = <<m>> \o Pending' /\ Pending' \in Seq(Message)
  BY <1>1, ConsumerTakes
<1>3. /\ scenario.consumer = "game" /\ game_pc = "playing"
      /\ UNCHANGED <<scenario, count, recieve>>
      /\ IF kind(m) = "move" THEN played' = Append(played, m) /\ UNCHANGED game_pc
         ELSE game_pc' = "done" /\ UNCHANGED played
  BY DEF start_game, database, sequencer
<1>4. HostChain' = HostChain /\ \A K : OfKind(K)' = OfKind(K)
  BY <1>3 DEF HostChain, OfKind, Messages, kind
<1>5. recieve = [c \in Channel |-> <<>>] /\ recieve["move"] = <<>>
  BY <1>3 DEF IndInv, ConsumerInv, Channel
<1>6. played \in Seq(Message) /\ m \in Message
  <2>1. played \in Seq(Parsed) /\ Parsed \subseteq Message
    BY <1>1, ScenarioFacts DEF TypeOK, Parsed, OfKind
  <2>2. QED BY <1>2, <2>1, SeqMonotonic
<1> HIDE DEF m
<1>7. Append(played, m) \in Seq(Message)
  BY <1>6, AppendProperties
<1>8. Channels = {"move"} /\ Channels' = {"move"}
  BY <1>3 DEF Channels
<1>9. Delivered = [recieve EXCEPT !["move"] = played]
      /\ Delivered' = [recieve EXCEPT !["move"] = played']
  <2>1. played \o <<>> = played /\ played' \o <<>> = played'
    BY <1>3, <1>6, <1>7, ConcatEmptySeq
  <2>2. QED BY <1>3, <1>5, <2>1 DEF Delivered
<1>10. Delivered["move"] = played /\ Delivered'["move"] = played'
  BY <1>5, <1>9 DEF Channel
<1>11. x = played \o Select(Pending, S)
  BY <1>2, <1>3, <1>8, <1>10 DEF IndInv, PipelineInv
<1>12. m \in S <=> kind(m) = "move"
  BY <1>2 DEF OfKind, Parsed
<1>13. x = (IF m \in S THEN Append(played, m) ELSE played) \o z
  <2> DEFINE p == Pending'
  <2> HIDE DEF p, S
  <2>1. p \in Seq(Message)
    BY <1>2 DEF p
  <2>2. Pending = <<m>> \o p
    BY <1>2 DEF p
  <2> DEFINE q == Pending
             d == played
  <2>3. Starts(q, m, p) /\ d \in Seq(Message)
    BY <1>6, <2>2 DEF Starts
  <2> HIDE DEF q, d
  <2>4. Takes(S, d, m, p, q)
    BY <1>6, <2>1, <2>3, Take
  <2>5. QED BY <1>11, <2>4 DEF p, q, d, Takes
<1>14. Select(Flow(count), OfKind({"move"}))' = x
       /\ Select(Pending, OfKind({"move"}))' = z
  BY <1>3, <1>4 DEF Flow
<1>15. z \in Seq(Message)
  <2> DEFINE p == Pending'
  <2>1. Select(p, S) \in Seq(Message \cap S)
    <3> HIDE DEF p, S
    <3>1. p \in Seq(Message)
      BY <1>2 DEF p
    <3>2. QED BY <3>1, SelectType
  <2> HIDE DEF z
  <2>2. z \in Seq(Message \cap S)
    BY <2>1 DEF z
  <2>3. QED BY <2>2, SeqMonotonic
<1>16. ConsumerInv'
  BY <1>3, <1>5 DEF ConsumerInv
<1>17. CASE kind(m) = "move"
  <2>1. PipelineInv'
    BY <1>3, <1>8, <1>10, <1>12, <1>13, <1>14, <1>17 DEF PipelineInv
  <2>2. Delivered' = [Delivered EXCEPT !["move"] = Append(@, m)]
    BY <1>3, <1>5, <1>9, <1>17
  <2>3. "move" \in Channel
    BY DEF Channel
  <2>4. QED BY <1>2, <1>16, <2>1, <2>2, <2>3
<1>18. CASE kind(m) # "move"
  <2>1. x = played \o z
    BY <1>12, <1>13, <1>18
  <2> HIDE DEF x, z
  <2>2. IsPrefix(played, x)
    BY <1>6, <1>15, <2>1, PrefixOfConcat
  <2>3. PipelineInv'
    BY <1>3, <1>14, <1>18, <2>2 DEF PipelineInv
  <2>4. Delivered' = Delivered
    BY <1>3, <1>9, <1>18
  <2>5. QED BY <1>16, <2>3, <2>4
<1>19. QED BY <1>17, <1>18

\* DemuxedSequencer puts each action into the channel of its kind.
LEMMA DemuxStep ==
    ASSUME IndInv, demux
    PROVE  /\ PipelineInv' /\ ConsumerInv'
           /\ \E c \in Channel, m \in Parsed :
                 Delivered' = [Delivered EXCEPT ![c] = Append(@, m)]
<1> DEFINE m == Head(output_move)
           k == kind(m)
<1>1. TypeOK
  BY DEF IndInv
<1>2. m \in Parsed /\ Pending = <<m>> \o Pending' /\ Pending' \in Seq(Message)
  BY <1>1, ConsumerTakes
<1>3. /\ scenario.consumer = "demux"
      /\ UNCHANGED <<scenario, count, game_pc, played>>
      /\ recieve' = [recieve EXCEPT ![k] = Append(@, m)]
  BY DEF demux, database, sequencer
<1>4. HostChain' = HostChain /\ \A K : OfKind(K)' = OfKind(K)
  BY <1>3 DEF HostChain, OfKind, Messages, kind
<1>5. game_pc = "playing" /\ game_pc' = "playing" /\ Channels = Channel /\ Channels' = Channel
  BY <1>3 DEF IndInv, ConsumerInv, Channels
<1>6. /\ k \in Channel /\ m \in Message
      /\ \A c \in Channel : m \in OfKind({c}) <=> c = k
  BY <1>1, <1>2, ScenarioFacts DEF Parsed, OfKind, TypeOK
<1>7. /\ recieve \in [Channel -> Seq(Message)] /\ played \in Seq(Message)
      /\ \A c \in Channel : Delivered[c] \in Seq(Message)
  <2>1. Parsed \subseteq Message
    BY <1>1, ScenarioFacts DEF TypeOK, Parsed, OfKind
  <2>2. played \in Seq(Message) /\ \A c \in Channel : recieve[c] \in Seq(Message)
    BY <1>1, <2>1, SeqMonotonic DEF TypeOK
  <2>3. QED BY <1>1, <2>2, DeliveredFacts DEF TypeOK
<1> HIDE DEF m, k
<1>8. Delivered' = [Delivered EXCEPT ![k] = Append(@, m)]
  <2>1. Delivered = [recieve EXCEPT !["move"] = played \o recieve["move"]]
        /\ Delivered' = [recieve' EXCEPT !["move"] = played \o recieve'["move"]]
    BY <1>3 DEF Delivered
  <2>2. CASE k = "move"
    <3>1. played \o Append(recieve["move"], m) = Append(played \o recieve["move"], m)
      <4> DEFINE r == recieve["move"]
      <4>1. r \in Seq(Message)
        BY <1>6, <1>7, <2>2
      <4> HIDE DEF r
      <4>2. Append(r, m) = r \o <<m>> /\ <<m>> \in Seq(Message) /\ played \o r \in Seq(Message)
        BY <1>6, <1>7, <4>1, AppendIsConcat, ConcatProperties
      <4>3. Append(played \o r, m) = (played \o r) \o <<m>>
        BY <1>6, <4>2, AppendIsConcat
      <4>4. played \o (r \o <<m>>) = (played \o r) \o <<m>>
        BY <1>7, <4>1, <4>2, Associative
      <4>5. QED BY <4>2, <4>3, <4>4 DEF r
    <3>2. QED BY <1>3, <1>6, <1>7, <2>1, <2>2, <3>1
  <2>3. CASE k # "move"
    BY <1>3, <1>6, <1>7, <2>1, <2>3
  <2>4. QED BY <2>2, <2>3
<1>9. ASSUME NEW c \in Channel
      PROVE  Select(Flow(count), OfKind({c}))' = (Delivered[c] \o Select(Pending, OfKind({c})))'
  <2> DEFINE S == OfKind({c})
             p == Pending'
             d == Delivered[c]
  <2>1. Select(Flow(count), S) = d \o Select(Pending, S)
    BY <1>5 DEF IndInv, PipelineInv
  <2>2. /\ p \in Seq(Message) /\ d \in Seq(Message) /\ Pending = <<m>> \o p
        /\ (m \in S <=> c = k)
    BY <1>2, <1>6, <1>7
  <2>3. Delivered'[c] = IF c = k THEN Append(d, m) ELSE d
    BY <1>1, <1>8, DeliveredFacts
  <2>4. Select(Flow(count), OfKind({c}))' = Select(Flow(count), S)
    BY <1>3, <1>4 DEF Flow
  <2>5. (Delivered[c] \o Select(Pending, OfKind({c})))' = Delivered'[c] \o Select(p, S)
    BY <1>4
  <2> HIDE DEF S, p, d
  <2> DEFINE q == Pending
  <2>6. Takes(S, d, m, p, q)
    <3>1. Starts(q, m, p)
      BY <2>2 DEF Starts
    <3> HIDE DEF q
    <3>2. QED BY <1>6, <2>2, <3>1, Take
  <2>7. QED BY <2>1, <2>2, <2>3, <2>4, <2>5, <2>6 DEF Takes
<1>10. PipelineInv'
  BY <1>5, <1>9 DEF PipelineInv
<1>11. ConsumerInv'
  BY <1>3, <1>5 DEF ConsumerInv
<1>12. QED BY <1>2, <1>6, <1>8, <1>10, <1>11

\* The batcher asks for the next batch with none in work.
LEMMA BatchDoneNext == IndInv /\ [Next]_vars => BatchDone'
<1>1. SUFFICES ASSUME IndInv, [Next]_vars PROVE BatchDone'
  OBVIOUS
<1>2. ASSUME batcher_drain PROVE BatchDone'
  BY <1>2 DEF batcher_drain, BatchDone
<1>3. ASSUME batcher_recv \/ batcher_await \/ batcher_wake PROVE BatchDone'
  BY <1>3 DEF batcher_recv, batcher_await, batcher_wake, BatchDone
<1>4. ASSUME UNCHANGED <<batcher_pc, envelope_hashes>> PROVE BatchDone'
  BY <1>1, <1>4 DEF IndInv, BatchDone
<1>5. QED
  BY <1>1, <1>2, <1>3, <1>4 DEF Next, vars, batcher, store, store_host, attach_tips,
     request_shutdown, start_sequencer, start_envelope_db_fetcher, fetcher_shutdown,
     fetcher_fails, start_envelope_batcher, start_move_deserializer, start_game, demux,
     litigator_start_game

\* An insert connects only above the connected rows, attach_tips up to the first
\* missing one.
LEMMA RowsNext == IndInv /\ [Next]_vars => RowsInv'
<1>1. SUFFICES ASSUME IndInv, [Next]_vars PROVE RowsInv'
  OBVIOUS
<1>2. TypeOK /\ HostChain \in Seq(HostMessage) /\ DOMAIN HostChain = 1..Len(HostChain)
      /\ Len(HostChain) \in Nat
  <2>1. TypeOK /\ HostChain \in Seq(HostMessage)
    BY <1>1, ScenarioFacts DEF IndInv, TypeOK
  <2>2. QED BY <2>1
<1>3. HostChain' = HostChain
  BY <1>1 DEF Next, vars, database, HostChain, store, store_host, attach_tips,
     request_shutdown, start_sequencer, start_envelope_db_fetcher, fetcher_shutdown,
     fetcher_fails, start_envelope_batcher, batcher_recv, batcher_drain, batcher_await,
     batcher_wake, start_move_deserializer, start_game, demux, litigator_start_game
<1> DEFINE N == Len(HostChain)
<1>4. PICK n \in 0..N : host_connected = 1..n
  BY <1>1 DEF IndInv, RowsInv
<1>5. host_connected \subseteq host_rows /\ host_rows \subseteq 1..N
  BY <1>2 DEF TypeOK
<1> HIDE DEF N
<1>6. N \in Nat
  BY <1>2 DEF N
<1>7. ASSUME NEW h \in DOMAIN HostChain, store_host(h) PROVE RowsInv'
  <2>1. h \in 1..N /\ h \notin 1..n
    BY <1>2, <1>4, <1>5, <1>7 DEF store_host, N
  <2>2. CASE Connects(h)
    <3>1. h = n + 1
      BY <1>4, <1>6, <2>1, <2>2 DEF Connects
    <3>2. host_connected' = 1..(n + 1)
      BY <1>4, <1>7, <2>2, <3>1 DEF store_host
    <3>3. n + 1 \in 0..N
      BY <2>1, <3>1
    <3>4. QED BY <1>3, <3>2, <3>3 DEF RowsInv, N
  <2>3. CASE ~Connects(h)
    BY <1>3, <1>4, <1>7, <2>3 DEF store_host, RowsInv, N
  <2>4. QED BY <2>2, <2>3
<1>8. ASSUME attach_tips PROVE RowsInv'
  <2>1. N + 1 \notin host_rows
    BY <1>5, <1>6
  <2>2. PICK k \in 0..N : 1..k \subseteq host_rows /\ k + 1 \notin host_rows
    BY <1>6, <2>1, Boundary
  <2>3. \A h \in host_rows : 1..h \subseteq host_rows <=> h \in 1..k
    BY <1>5, <1>6, <2>2
  <2>4. host_connected' = 1..k
    BY <1>8, <2>2, <2>3 DEF attach_tips
  <2>5. QED BY <1>3, <2>4 DEF RowsInv, N
<1>9. ASSUME UNCHANGED host_connected PROVE RowsInv'
  BY <1>3, <1>4, <1>9 DEF RowsInv, N
<1>10. QED
  BY <1>1, <1>7, <1>8, <1>9 DEF Next, vars, database, store,
     request_shutdown, start_sequencer, start_envelope_db_fetcher, fetcher_shutdown,
     fetcher_fails, start_envelope_batcher, batcher_recv, batcher_drain, batcher_await,
     batcher_wake, start_move_deserializer, start_game, demux, litigator_start_game

\* Nothing is sequenced or delivered at first.
LEMMA IndInvInit == Init => IndInv
<1>1. SUFFICES ASSUME Init PROVE IndInv
  OBVIOUS
<1>2. TypeOK
  BY <1>1, TypeInit
<1>3. BatchDone /\ ConsumerInv
  BY <1>1 DEF Init, BatchDone, ConsumerInv
<1>4. RowsInv
  <2>1. HostChain \in Seq(HostMessage) /\ host_connected = 1..0
    BY <1>1, ScenarioFacts DEF Init
  <2>2. 0 \in 0..Len(HostChain)
    BY <2>1
  <2>3. QED BY <2>1, <2>2 DEF RowsInv
<1>5. PipelineInv
  <2>1. Flow(0) = <<>>
    <3> DEFINE bs == Batches(HostChain)
    <3>1. bs \in Seq(Seq(Message))
      BY <1>1, ScenarioFacts, BatchesType DEF Init
    <3> HIDE DEF bs
    <3>2. SubSeq(bs, 1, 0) = <<>>
      BY <3>1
    <3>3. QED BY <3>2, FlattenEmpty DEF Flow, bs
  <2>2. Pending = <<>>
    <3>1. Pending = ((<<>> \o <<>>) \o <<>>) \o <<>>
      BY <1>1, FlattenEmpty DEF Init, Pending
    <3>2. <<>> \o <<>> = <<>>
      OBVIOUS
    <3>3. QED BY <3>1, <3>2
  <2>3. \A c \in Channel : Delivered[c] = <<>>
    <3>1. recieve = [c \in Channel |-> <<>>] /\ played = <<>>
      BY <1>1 DEF Init
    <3>2. played \o recieve["move"] = <<>>
      BY <3>1 DEF Channel
    <3>3. QED BY <1>2, <3>1, <3>2, DeliveredFacts
  <2>4. Channels \subseteq Channel /\ count = 0 /\ game_pc = "playing"
    BY <1>1 DEF Init, Channels, Channel
  <2>5. \A S : Select(Flow(count), S) = <<>> /\ Select(Pending, S) = <<>>
    BY <2>1, <2>2, <2>4, SelectEmpty
  <2>6. <<>> \o <<>> = <<>>
    OBVIOUS
  <2>7. QED BY <2>3, <2>4, <2>5, <2>6 DEF PipelineInv
<1>6. QED BY <1>2, <1>3, <1>4, <1>5 DEF IndInv

\* The litigator's task takes what has been delivered already.
LEMMA LitigatorStep ==
    ASSUME IndInv, litigator_start_game
    PROVE  /\ Delivered' = Delivered /\ scenario.consumer = "demux"
           /\ game_pc = "playing" /\ game_pc' = "playing"
<1> DEFINE r == recieve["move"]
<1>1. TypeOK
  BY DEF IndInv
<1>2. /\ r # <<>> /\ played' = Append(played, Head(r))
      /\ recieve' = [recieve EXCEPT !["move"] = Tail(r)]
      /\ UNCHANGED game_pc
  BY DEF litigator_start_game
<1>3. /\ recieve \in [Channel -> Seq(Parsed)] /\ played \in Seq(Parsed)
      /\ r \in Seq(Parsed) /\ "move" \in Channel
  BY <1>1 DEF TypeOK, Channel
<1>4. Append(played, Head(r)) \o Tail(r) = played \o r
  <2>1. ASSUME NEW x \in Seq(Parsed), NEW y \in Seq(Parsed), y # <<>>
        PROVE  Append(x, Head(y)) \o Tail(y) = x \o y
    BY <2>1
  <2> HIDE DEF r
  <2>2. QED BY <1>2, <1>3, <2>1
<1>5. Delivered = [recieve EXCEPT !["move"] = played \o r]
      /\ Delivered' = [recieve' EXCEPT !["move"] = played' \o recieve'["move"]]
  BY DEF Delivered
<1>6. recieve'["move"] = Tail(r)
  BY <1>2, <1>3
<1>7. Delivered' = [recieve' EXCEPT !["move"] = played \o r]
  BY <1>2, <1>4, <1>5, <1>6
<1> HIDE DEF r
<1>8. Delivered' = Delivered
  BY <1>2, <1>3, <1>5, <1>7
<1>9. scenario.consumer # "game"
  BY <1>2, <1>3 DEF IndInv, ConsumerInv, r
<1>10. QED BY <1>1, <1>2, <1>8, <1>9, ScenarioFacts DEF IndInv, ConsumerInv, TypeOK

\* Every step keeps the pipeline, and delivers at most one message.
LEMMA Steps ==
    ASSUME IndInv, [Next]_vars
    PROVE  /\ PipelineInv' /\ ConsumerInv' /\ UNCHANGED scenario
           /\ \/ Delivered' = Delivered
              \/ \E c \in Channel, m \in Parsed :
                    Delivered' = [Delivered EXCEPT ![c] = Append(@, m)]
<1>1. TypeOK /\ BatchDone
  BY DEF IndInv
<1>2. ASSUME UNCHANGED <<scenario, count, game, Pending>>
      PROVE  /\ PipelineInv' /\ ConsumerInv' /\ UNCHANGED scenario
             /\ Delivered' = Delivered
  <2>1. Delivered' = Delivered /\ UNCHANGED <<game_pc, played, recieve>>
    BY <1>2 DEF Delivered, game
  <2>2. PipelineInv'
    BY <1>2, <2>1, QuietStep
  <2>3. QED BY <1>2, <2>1, <2>2 DEF IndInv, ConsumerInv
<1>3. ASSUME UNCHANGED <<scenario, count, game, output_move, output_envelope,
                         envelope_hashes, batches_to_sequence>>
      PROVE  /\ PipelineInv' /\ ConsumerInv' /\ UNCHANGED scenario
             /\ Delivered' = Delivered
  <2>1. UNCHANGED Pending
    BY <1>3 DEF Pending
  <2>2. QED BY <1>2, <1>3, <2>1
<1>4. CASE \/ \E m \in Messages : store(m)
           \/ \E h \in DOMAIN HostChain : store_host(h)
           \/ attach_tips \/ request_shutdown
           \/ start_envelope_db_fetcher \/ fetcher_shutdown \/ fetcher_fails
           \/ batcher_await \/ batcher_wake
           \/ start_sequencer /\ shutdown
           \/ UNCHANGED vars
  <2>1. UNCHANGED <<scenario, count, game, output_move, output_envelope,
                    envelope_hashes, batches_to_sequence>>
    BY <1>4 DEF store, store_host, attach_tips, request_shutdown,
       start_envelope_db_fetcher, fetcher_shutdown, fetcher_fails, batcher_await,
       batcher_wake, start_sequencer, vars, database, sequencer, batcher, game
  <2>2. QED BY <1>3, <2>1
<1>5. CASE start_sequencer /\ ~shutdown
  <2>1. PipelineInv'
    BY <1>5, SequencerStep
  <2>2. UNCHANGED <<scenario, game_pc, played, recieve>> /\ Delivered' = Delivered
    BY <1>5 DEF start_sequencer, database, game, Delivered
  <2>3. QED BY <2>1, <2>2 DEF IndInv, ConsumerInv
<1>6. CASE batcher_recv \/ batcher_drain \/ start_move_deserializer
  <2>1. UNCHANGED <<scenario, count, game>>
    BY <1>6 DEF batcher_recv, batcher_drain, start_move_deserializer, database, sequencer
  <2>2. UNCHANGED Pending
    BY <1>1, <1>6, TasksKeepOrder
  <2>3. QED BY <1>2, <2>1, <2>2
<1>7. CASE start_game
  <2>1. UNCHANGED scenario
    BY <1>7 DEF start_game, database
  <2>2. QED BY <1>7, <2>1, GameStep
<1>8. CASE demux
  <2>1. UNCHANGED scenario
    BY <1>8 DEF demux, database
  <2>2. QED BY <1>8, <2>1, DemuxStep
<1>9. CASE litigator_start_game
  <2>1. UNCHANGED <<scenario, count, Pending>>
    BY <1>9 DEF litigator_start_game, database, sequencer, batcher, Pending
  <2>2. /\ Delivered' = Delivered /\ scenario.consumer = "demux"
        /\ game_pc = "playing" /\ game_pc' = "playing"
    BY <1>9, LitigatorStep
  <2>3. HostChain' = HostChain /\ \A K : OfKind(K)' = OfKind(K)
    BY <2>1 DEF HostChain, OfKind, Messages, kind
  <2>4. Flow(count)' = Flow(count) /\ Channels' = Channels
    BY <2>1, <2>3 DEF Flow, Channels
  <2>5. PipelineInv'
    BY <2>1, <2>2, <2>3, <2>4 DEF IndInv, PipelineInv
  <2>6. ConsumerInv'
    BY <2>1, <2>2 DEF ConsumerInv
  <2>7. QED BY <2>1, <2>2, <2>5, <2>6
<1>10. QED
  BY <1>4, <1>5, <1>6, <1>7, <1>8, <1>9 DEF Next, start_envelope_batcher

\* Every step keeps the inductive invariant.
LEMMA IndInvNext == IndInv /\ [Next]_vars => IndInv'
<1>1. SUFFICES ASSUME IndInv, [Next]_vars PROVE IndInv'
  OBVIOUS
<1>2. TypeOK'
  BY <1>1, TypeNext DEF IndInv
<1>3. QED BY <1>1, <1>2, BatchDoneNext, RowsNext, Steps DEF IndInv

\* The inductive invariant holds in every reachable state.
LEMMA Invariance == Spec => []IndInv
BY IndInvInit, IndInvNext, PTL DEF Spec

-----------------------------------------------------------------------------
(* The results *)

\* What has been delivered is a prefix of what the host's chain orders.
PrefixInv ==
    /\ DOMAIN Order = Channel
    /\ \A c \in Channel : /\ Order[c] \in Seq(Message)
                          /\ IsPrefix(Delivered[c], Order[c])

\* The pipeline puts what is delivered before what is still to come.
LEMMA DeliveredIsPrefix == IndInv => PrefixInv
<1>0. SUFFICES ASSUME IndInv PROVE PrefixInv
  OBVIOUS
<1> DEFINE bs == Batches(HostChain)
<1>1. TypeOK /\ HostChain \in Seq(HostMessage) /\ count \in 0..Len(HostChain)
  BY <1>0, ScenarioFacts DEF IndInv, TypeOK
<1>2. bs \in Seq(Seq(Message)) /\ count \in 0..Len(bs)
  BY <1>1, BatchesType
<1>3. DOMAIN Order = Channel
  BY DEF Order
<1>4. ASSUME NEW c \in Channel
      PROVE  Order[c] \in Seq(Message) /\ IsPrefix(Delivered[c], Order[c])
  <2> DEFINE S == OfKind({c})
             all == Select(FlattenSeq(bs), S)
             x == Select(Flow(count), S)
             d == Delivered[c]
  <2>1. d \in Seq(Message)
    BY <1>1, DeliveredFacts
  <2>2. CASE c \notin Channels
    <3>1. Order[c] = <<>>
      BY <2>2 DEF Channels, Order
    <3>2. d = <<>>
      <4>1. c # "move" /\ recieve = [k \in Channel |-> <<>>]
        BY <1>0, <2>2 DEF Channels, IndInv, ConsumerInv
      <4>2. QED BY <1>1, <4>1, DeliveredFacts
    <3>3. IsPrefix(<<>>, <<>>)
      BY DEF IsPrefix
    <3>4. QED BY <3>1, <3>2, <3>3
  <2>3. CASE c \in Channels
    <3>1. Order[c] = all
      BY <2>3 DEF Channels, Order, Selected
    <3> HIDE DEF bs, S
    <3>2. IsPrefix(x, all)
      BY <1>2, SelectedPrefix DEF Flow, bs
    <3>3. x \in Seq(Message) /\ all \in Seq(Message)
      <4>1. Flow(count) \in Seq(Message) /\ FlattenSeq(bs) \in Seq(Message)
        BY <1>1, <1>2, FlowType, FlattenType
      <4>2. x \in Seq(Message \cap S) /\ all \in Seq(Message \cap S)
        BY <4>1, SelectType
      <4> HIDE DEF x, all
      <4>3. QED BY <4>2, SeqMonotonic
    <3>4. IsPrefix(d, x)
      <4>1. CASE game_pc = "playing"
        <5> DEFINE y == Select(Pending, S)
        <5>1. x = d \o y
          BY <1>0, <2>3, <4>1 DEF IndInv, PipelineInv, S
        <5>2. y \in Seq(Message)
          <6>1. y \in Seq(Message \cap S)
            BY <1>1, PendingType, SelectType
          <6> HIDE DEF y
          <6>2. QED BY <6>1, SeqMonotonic
        <5> HIDE DEF x, y, d
        <5>3. QED BY <2>1, <5>1, <5>2, PrefixOfConcat
      <4>2. CASE game_pc = "done"
        <5>1. c = "move" /\ recieve = [k \in Channel |-> <<>>]
          BY <1>0, <1>1, <2>3, <4>2, ScenarioFacts DEF IndInv, ConsumerInv, Channels, TypeOK
        <5>2. d = played \o <<>>
          BY <1>1, <5>1, DeliveredFacts
        <5>3. d = played
          BY <1>1, <5>2, ConcatEmptySeq DEF TypeOK
        <5>4. QED BY <1>0, <4>2, <5>1, <5>3 DEF IndInv, PipelineInv, S
      <4>3. QED BY <1>1, <4>1, <4>2 DEF TypeOK
    <3> HIDE DEF x, all, d
    <3>5. IsPrefix(d, all)
      BY <2>1, <3>2, <3>3, <3>4, PrefixTransitive
    <3>6. QED BY <3>1, <3>3, <3>5 DEF d
  <2>4. QED BY <2>2, <2>3
<1>5. QED BY <1>3, <1>4 DEF PrefixInv

\* A delivery is the one that OrderedDelivery expects next.
LEMMA DeliveryStep ==
    ASSUME IndInv, PrefixInv, PrefixInv', [Next]_vars
    PROVE  [\E c \in DOMAIN Order : Delivery!Deliver(c)]_<<Order, Delivered>>
<1>1. UNCHANGED scenario
      /\ \/ Delivered' = Delivered
         \/ \E c \in Channel, m \in Parsed :
               Delivered' = [Delivered EXCEPT ![c] = Append(@, m)]
  BY Steps
<1>2. Order' = Order
  BY <1>1 DEF Order, HostChain, Selected, OfKind, Messages, kind
<1>3. TypeOK
  BY DEF IndInv
<1>4. ASSUME NEW c \in Channel, NEW m \in Parsed,
             Delivered' = [Delivered EXCEPT ![c] = Append(@, m)]
      PROVE  Delivery!Deliver(c)
  <2> DEFINE d == Delivered[c]
             o == Order[c]
  <2>1. DOMAIN Delivered = Channel /\ d \in Seq(Message)
    BY <1>3, DeliveredFacts
  <2>2. m \in Message
    BY <1>3, ScenarioFacts DEF Parsed, OfKind, TypeOK
  <2>3. Delivered'[c] = Append(d, m)
    BY <1>4, <2>1
  <2>4. o \in Seq(Message) /\ IsPrefix(Append(d, m), o)
    <3>1. IsPrefix(Delivered[c], Order[c])'
      BY DEF PrefixInv
    <3>2. QED BY <1>2, <2>3, <3>1 DEF PrefixInv
  <2> HIDE DEF d, o
  <2>5. Append(d, m) \in Seq(Message) /\ Len(Append(d, m)) = Len(d) + 1
        /\ Append(d, m)[Len(d) + 1] = m /\ Len(d) \in Nat /\ Len(o) \in Nat
    BY <2>1, <2>2, <2>4, AppendProperties
  <2>6. Len(d) + 1 <= Len(o) /\ m = o[Len(d) + 1]
    <3> DEFINE e == Append(d, m)
    <3> HIDE DEF e
    <3>1. Len(e) <= Len(o) /\ \A i \in 1..Len(e) : e[i] = o[i]
      BY <2>4, <2>5, PrefixElements, ZenonT(30) DEF e
    <3>2. QED BY <2>5, <3>1 DEF e
  <2>7. Len(Delivered[c]) < Len(Order[c]) /\ m = Order[c][Len(Delivered[c]) + 1]
    BY <2>5, <2>6 DEF d, o
  <2>8. Delivered' = [Delivered EXCEPT ![c] = Append(@, Order[c][Len(@) + 1])]
    BY <1>4, <2>7
  <2>9. QED BY <1>2, <2>7, <2>8 DEF Delivery!Deliver
<1>5. DOMAIN Order = Channel
  BY DEF PrefixInv
<1>6. QED BY <1>1, <1>2, <1>4, <1>5

\* The online sequencer with its consumer implements OrderedDelivery: for any
\* chain, any order in which rows arrive and any interleaving of the tasks of
\* start_sequencer, start_envelope_batcher and their readers, each channel gives
\* the host's order, none twice and none skipped.
THEOREM DeliversInHostOrder == Spec => DeliversInOrder
<1>1. Init => Delivery!Init
  <2>1. SUFFICES ASSUME Init PROVE Delivery!Init
    OBVIOUS
  <2>2. recieve = [c \in Channel |-> <<>>] /\ played = <<>> /\ DOMAIN Order = Channel
    BY <2>1 DEF Init, Order
  <2>3. Delivered = [c \in Channel |-> <<>>]
    <3>1. played \o recieve["move"] = <<>>
      BY <2>2 DEF Channel
    <3>2. Delivered = [recieve EXCEPT !["move"] = <<>>]
      BY <3>1 DEF Delivered
    <3>3. QED BY <2>2, <3>2
  <2>4. QED BY <2>2, <2>3 DEF Delivery!Init
<1>2. IndInv /\ PrefixInv /\ PrefixInv' /\ [Next]_vars
        => [\E c \in DOMAIN Order : Delivery!Deliver(c)]_<<Order, Delivered>>
  BY DeliveryStep
<1>3. QED
  BY <1>1, <1>2, Invariance, DeliveredIsPrefix, PTL DEF Spec, DeliversInOrder, Delivery!Spec, Delivery!vars

\* A reader of the database never meets a missing tip or a gap (TryFrom of
\* OfflineSequencer), and what it sequences and what is played agree.
THEOREM SnapshotsAgreeAlways == Spec => []SnapshotsAgree
<1>1. IndInv => SnapshotsAgree
  <2>1. SUFFICES ASSUME IndInv PROVE SnapshotsAgree
    OBVIOUS
  <2> DEFINE bs == Batches(HostChain)
             S == OfKind({"move"})
  <2>2. TypeOK /\ HostChain \in Seq(HostMessage) /\ Len(HostChain) \in Nat
    BY <2>1, ScenarioFacts, LenProperties DEF IndInv, TypeOK
  <2>3. PICK n \in 0..Len(HostChain) : host_connected = 1..n
    BY <2>1 DEF IndInv, RowsInv
  <2> DEFINE hs == [i \in 1..n |-> i]
  <2>4. Ascending(host_connected) = hs
    BY <2>3, AscendingInterval
  <2>5. /\ DOMAIN hs = 1..n /\ Len(hs) = n /\ n \in Nat
        /\ \A i \in 1..n : hs[i] = i
        /\ hs # <<>> => hs[1] = 1
    BY <2>2
  <2> HIDE DEF hs
  <2>6. OfflineSequencer(hs) =
          [error |-> "none", batches |-> [i \in 1..n |-> batch(HostChain[i])]]
    <3>1. ~(hs # <<>> /\ hs[1] # 1)
      BY <2>5
    <3>2. ~(\E i \in 1..Len(hs) - 1 : hs[i] + 1 # hs[i + 1])
      BY <2>5
    <3>3. [i \in DOMAIN hs |-> batch(HostChain[hs[i]])] = [i \in 1..n |-> batch(HostChain[i])]
      BY <2>5
    <3>4. QED BY <3>1, <3>2, <3>3 DEF OfflineSequencer
  <2>7. snapshot.error = "none" /\ snapshot.batches = [i \in 1..n |-> batch(HostChain[i])]
    BY <2>4, <2>6 DEF snapshot
  <2>8. /\ bs \in Seq(Seq(Message)) /\ Len(bs) = Len(HostChain)
        /\ \A h \in 1..Len(HostChain) : bs[h] = batch(HostChain[h])
    BY <2>2, BatchesType
  <2>9. [i \in 1..n |-> batch(HostChain[i])] = SubSeq(bs, 1, n)
    <3> HIDE DEF bs
    <3>1. SubSeq(bs, 1, n) = [i \in 1..n |-> bs[i]]
      BY <2>2, <2>3, <2>8
    <3>2. QED BY <2>2, <2>3, <2>8, <3>1
  <2>. SUFFICES ASSUME SnapshotMoves.error = "none"
                PROVE  IsPrefix(played, SnapshotMoves.selected)
                       \/ IsPrefix(SnapshotMoves.selected, played)
    BY <2>7 DEF SnapshotsAgree
  <2> DEFINE moves == SnapshotMoves.selected
  <2>10. moves = Select(FlattenSeq(SubSeq(bs, 1, n)), S)
    <3>1. moves = Selected(snapshot.batches, {"move"})
      BY DEF SnapshotMoves, directly_sequence_map
    <3>2. QED BY <2>7, <2>9, <3>1 DEF Selected
  <2> HIDE DEF moves
  <2> DEFINE all == Select(FlattenSeq(bs), S)
  <2>11. IsPrefix(moves, all) /\ moves \in Seq(Message)
    <3> HIDE DEF bs, S
    <3>1. n \in 0..Len(bs)
      BY <2>3, <2>8
    <3>2. IsPrefix(moves, all)
      BY <2>8, <2>10, <3>1, SelectedPrefix
    <3> DEFINE cs == SubSeq(bs, 1, n)
               D == Seq(Message)
    <3>3. cs \in Seq(D)
      <4> HIDE DEF D
      <4>1. bs \in Seq(D)
        BY <2>8 DEF D
      <4>2. QED BY <3>1, <4>1
    <3> HIDE DEF cs
    <3>4. Select(FlattenSeq(cs), S) \in Seq(Message \cap S)
      BY <3>3, FlattenType, SelectType
    <3>5. moves \in Seq(Message)
      BY <2>10, <3>4, SeqMonotonic DEF cs
    <3>6. QED BY <3>2, <3>5
  <2>12. IsPrefix(played, all) /\ played \in Seq(Message) /\ all \in Seq(Message)
    <3>1. Order["move"] = all /\ "move" \in Channel
      BY DEF Order, Selected, Channel
    <3>2. IsPrefix(Delivered["move"], all) /\ all \in Seq(Message)
      BY <2>1, <3>1, DeliveredIsPrefix DEF PrefixInv
    <3>3. Delivered["move"] = played \o recieve["move"]
      BY <2>2, DeliveredFacts
    <3>4. played \in Seq(Message) /\ recieve["move"] \in Seq(Message)
      <4>1. Parsed \subseteq Message
        BY <2>2, ScenarioFacts DEF TypeOK, Parsed, OfKind
      <4>2. played \in Seq(Parsed) /\ recieve["move"] \in Seq(Parsed)
        BY <2>2, <3>1 DEF TypeOK
      <4>3. QED BY <4>1, <4>2, SeqMonotonic
    <3> DEFINE r == recieve["move"]
    <3> HIDE DEF all, r
    <3>5. IsPrefix(played, played \o r) /\ played \o r \in Seq(Message)
      BY <3>4, PrefixOfConcat, ConcatProperties DEF r
    <3>6. IsPrefix(played \o r, all)
      BY <3>2, <3>3 DEF r
    <3>7. QED BY <3>2, <3>4, <3>5, <3>6, PrefixTransitive
  <2> HIDE DEF all
  <2>13. IsPrefix(played, moves) \/ IsPrefix(moves, played)
    BY <2>11, <2>12, PrefixesCompare
  <2>14. QED BY <2>13 DEF moves
<1>2. QED BY <1>1, Invariance, PTL

=============================================================================
