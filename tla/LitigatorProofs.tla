---------------------------- MODULE LitigatorProofs ----------------------------
(***************************************************************************)
(* What Litigator's run checks on small instances, proved for every set of   *)
(* requests, every sequence of batches, any number of crashes and every      *)
(* interleaving of the host's handlers, the reader, the event loop and the   *)
(* extractors.  IndInv is the inductive invariant.  Its parts: the host's     *)
(* locks (HostType, RegistryInv, ChainInv), what a tag says of its row and   *)
(* the order of a group's first events (LogInv), the transaction that is     *)
(* open while the loop posts (InstanceInv, EmissionsInv), how much of the log *)
(* was sent to the loop and handled (ReplayInv), and what the extractors made  *)
(* of the delivered messages (WorldInv, GameInv, PsbtsInv).                   *)
(***************************************************************************)
EXTENDS Litigator, WellFoundedInduction, SequenceTheorems, FiniteSetTheorems, TLAPS
\* The values of the model's data.
Envelope == [key : STRING, kind : EnvelopeKind]
Metadata == [st : {"AddingPlayers", "WaitingForSetup", "Setup"}, envelopes : Seq(Envelope)]
Working == {"chain", "contract", "log1", "log2", "log3", "log4", "send"}
Group == {ModuleRepo} \cup Code
Literal == {"", "ModuleRepo", "ModuleBytes", "CreateArgs", "Rebind", "TransactionFinalized",
            "EmittedPSBTVia", "SyntheticPeriodicActions", "NewRecompileTriggeringObservation",
            "default", "win", "lose", "dlog", "base", "hash", "module", "InitModule",
            "FirstBind", "funding_tx", "game_move", "psbts", "signed_psbt"}
Text == STRING \cup Literal    \* the provers do not find a literal in STRING
Ev == [t : Text, v : Text, w : Text]
TagItem == Text \cup Nat
Entry == [group_id : Group, ev : Ev, unique_tag : Seq(TagItem)]

\* The host: by_time holds games in the order in which they were created; a game
\* has a chain only if it is set up, and whoever sets it up holds its lock.
HostType ==
    /\ scenario \in Scenario /\ host \in {"up", "down"} /\ host_faults \in Nat
    /\ created \in 0..MaxGames + 1 /\ game \in [Code -> Metadata]
    /\ states \subseteq Code /\ by_time \in Seq(Code) /\ Len(by_time) <= MaxGames
    /\ db_lock \in Handler \cup {NoHandler}
    /\ state_lock \in [Code -> Handler \cup {NoHandler}]
    /\ request \in [Handler -> {"new", "found", "answered"} \cup Working]
    /\ chains \in [Code -> Nat]
RegistryInv ==
    /\ states = ToSet(by_time)
    /\ \A i, j \in DOMAIN by_time : i < j => by_time[i] < by_time[j]
    /\ \A i \in DOMAIN by_time : by_time[i] <= created
    /\ \A c \in Code : /\ Len(game[c].envelopes) <= MAX_PLAYERS
                       /\ game[c].st = "AddingPlayers" => Len(game[c].envelopes) < MAX_PLAYERS
ChainInv ==
    /\ \A c \in Code : /\ chains[c] <= 1
                       /\ c > created => game[c].st # "Setup"
                       /\ game[c].st # "Setup" => chains[c] = 0
    /\ \A r \in Handler :
          /\ request[r] = "found" => arg(r).code \in 1..created
          /\ request[r] \in Working =>
                /\ host = "up"
                /\ arg(r).code \in Code /\ state_lock[arg(r).code] = r
                /\ game[arg(r).code].st = "Setup"
          /\ request[r] = "chain" => chains[arg(r).code] = 0

\* The log: what its tags say, and the order in which a group's first events come.
Earlier(i, t) == \E j \in 1..i - 1 : occurrences[j].group_id = occurrences[i].group_id
                                     /\ Row(j).t = t
LogInv ==
    /\ groups \subseteq Group /\ occurrences \in Seq(Entry)
    /\ EventLogTypeOK
    /\ \A i \in DOMAIN occurrences :
          /\ occurrences[i].unique_tag = <<"InitModule">> => Row(i).t = "ModuleBytes"
          /\ occurrences[i].unique_tag = <<"CreateArgs">> <=> Row(i).t = "CreateArgs"
          /\ Row(i).t = "ModuleBytes" => AlreadyExists(ModuleRepo, module_tag)
          /\ Row(i).t = "CreateArgs" => Earlier(i, "ModuleBytes")
          /\ Row(i).t = "Rebind" => Earlier(i, "CreateArgs")
    /\ host = "up" => AlreadyExists(ModuleRepo, module_tag)
    /\ \A r \in Handler :
          /\ request[r] \in {"log1", "log2", "log3", "log4"} => arg(r).code \in groups
          /\ request[r] = "log2" => AlreadyExists(arg(r).code, <<"InitModule">>)
          /\ request[r] = "log3" => AlreadyExists(arg(r).code, <<"CreateArgs">>)

\* The instance is in memory, and a transaction of the loop is open while it emits.
Memory ==
    /\ lives \in Nat
    /\ task \in {"off", "absent", "spawned", "running", "finished", "taken"}
    /\ task \in {"off", "absent", "spawned"} =>
          /\ reader = Idle("off") /\ channel = <<>> /\ loop = Loop("off")
          /\ state = NotLoaded /\ extractor = NoTasks
    /\ task \notin {"off", "absent"} => key \in groups
    /\ loop \in [pc : {"off", "recv", "emit", "spin", "error", "dropped"}, counter : Nat,
                 queue : SUBSET Pair, fault : BOOLEAN]
    /\ reader \in [pc : {"off", "sleep", "send", "ended"}, last : Nat, rows : Seq(Nat),
                   notified : BOOLEAN]
    /\ extractor \in [time : BOOLEAN, dlog : BOOLEAN, known : SUBSET STRING,
                      game : {"off", "play", "ended"}, moves : Nat,
                      snapshot : {"none", "pending", "made", "lost"},
                      psbts : BOOLEAN, received : Nat, psbt_counter : Nat]
    /\ budget \in [ticks : Nat, faults : Nat]
Open ==
    /\ writer \in Pair \cup {NoWriter}
    /\ writer # NoWriter => loop.pc = "emit" /\ writer \in loop.queue /\ ~Emitted(writer)
InstanceInv == Memory /\ Open
EmissionsInv ==
    /\ torn \in [Pair -> Nat] /\ world.posted \in [Pair -> Nat]
    /\ EmissionsAgree

\* What was sent to the loop is a prefix of the group's occurrences, and what the
\* loop took from it is what the state means.
Ids == occurrences_for_group_after_id(key, 0)
Rows == occurrences_for_group(key)
Taken == loop.counter + (IF loop.pc \in {"emit", "error"} THEN 1 ELSE 0)
Sent == Taken + Len(channel)
ReaderInv ==
    /\ Sent \in 0..Len(Ids)
    /\ reader.last = IF Sent = 0 THEN 0 ELSE Ids[Sent]
    /\ \A j \in DOMAIN reader.rows : Sent + j <= Len(Ids) /\ reader.rows[j] = Ids[Sent + j]
    /\ reader.pc = "send" => reader.rows # <<>>
    /\ channel = <<>> \/ channel = <<Row(Ids[Sent])>>
LoopInv ==
    /\ state = Meaning(SubSeq(Rows, 1, loop.counter))
    /\ state.compiled \/ state.effects = {}
    /\ loop.pc = "emit" => Row(Ids[Taken]).t = "SyntheticPeriodicActions"
    /\ EndsOnlyForCause
\* A loop that counts on without a reader is past what it knew of the log.
ReplayInv == IF loop.pc = "spin" THEN reader.pc = "ended" /\ channel = <<>>
             ELSE ReaderInv /\ LoopInv

\* The extractors: what was delivered of a kind is what comes first of it.
AllOf(kind) == FirstOf(kind, Len(Batches))
Result(n) == AllOf("move")[n].result
EndsAt(n) == n \in DOMAIN AllOf("move") /\ Result(n) # "" /\ \A m \in 1..n - 1 : Result(m) = ""
MergedOf(n) ==
    LET same(i) == AllOf("psbt")[i].channel = AllOf("psbt")[n].channel
    IN AllOf("psbt")[CHOOSE i \in 1..n : same(i) /\ \A j \in 1..i - 1 : ~same(j)].tx
Finalized(n) == {i \in 1..n : Verifies(MergedOf(i))}
WorldInv ==
    /\ world \in [genesis : BOOLEAN, batches : Nat, have : SUBSET Message,
                  equivocated : SUBSET STRING, posted : [Pair -> Nat]]
    /\ world.batches \in 0..Len(Batches)
    /\ world.equivocated \subseteq scenario.equivocators
GameInv ==
    /\ extractor.moves \in 0..Len(Of("move"))
    /\ extractor.game = "play" => \A m \in 1..extractor.moves : Result(m) = ""
    /\ extractor.snapshot # "none" => EndsAt(extractor.moves) /\ extractor.game # "play"
    /\ \A i \in DOMAIN occurrences :
          Row(i).t = "NewRecompileTriggeringObservation" /\ Row(i).v \in {"win", "lose"} =>
             /\ occurrences[i].group_id = key
             /\ \E n \in Nat : EndsAt(n) /\ occurrences[i].unique_tag = <<"game_move", n>>
PsbtsInv ==
    /\ extractor.received \in 0..Len(Of("psbt"))
    /\ extractor.psbt_counter = Cardinality(Finalized(extractor.received))
    /\ \A i \in DOMAIN occurrences : \A n \in Nat :
          occurrences[i].group_id = key /\ occurrences[i].unique_tag = <<"psbts", n>> =>
             \E m \in DOMAIN AllOf("psbt") :
                /\ m \in Finalized(m) /\ n = Cardinality(Finalized(m))
                /\ Row(i).t = "TransactionFinalized" /\ Row(i).w = MergedOf(m)
    /\ \A n \in Finalized(extractor.received) :
          AlreadyExists(key, <<"psbts", Cardinality(Finalized(n))>>)

IndInv ==
    /\ HostType /\ RegistryInv /\ ChainInv
    /\ LogInv /\ InstanceInv /\ EmissionsInv /\ ReplayInv
    /\ WorldInv /\ GameInv /\ PsbtsInv
-----------------------------------------------------------------------------
(* Induction and recursion on the natural numbers.  The library states them   *)
(* with an operator parameter; here the property is a set, the step a         *)
(* function.                                                                  *)

\* A set with 0 and the successor of each of its numbers has them all.
LEMMA Induction ==
    ASSUME NEW S, 0 \in S, \A n \in Nat : n \in S => n + 1 \in S
    PROVE  Nat \subseteq S
<1> DEFINE T == {n \in Nat : n \notin S}
           R == {p \in Nat \X Nat : p[1] < p[2]}
<1>1. SUFFICES ASSUME T # {} PROVE FALSE
  OBVIOUS
<1>2. IsWellFoundedOn(R, Nat)
  BY NatLessThanWellFounded DEF OpToRel
<1>3. PICK x \in T : \A y \in T : ~(<<y, x>> \in R)
  <2>1. T \subseteq Nat
    OBVIOUS
  <2> HIDE DEF T, R
  <2>2. QED BY ONLY <1>1, <1>2, <2>1, WFMin
<1>4. x # 0 /\ x \in Nat /\ x - 1 \in Nat
  OBVIOUS
<1>5. <<x - 1, x>> \in R
  BY <1>4
<1>6. QED BY <1>3, <1>4, <1>5

\* g iterates the step G, N times, from b.
Iterates(g, b, G, N) == g[0] = b /\ \A k \in 1..N : g[k] = G[k][g[k - 1]]

\* The values of a recursive function up to a bound exist.
LEMMA Recursion ==
    ASSUME NEW D, NEW b \in D, NEW G \in [Nat -> [D -> D]], NEW N \in Nat
    PROVE  \E g \in [0..N -> D] : Iterates(g, b, G, N)
<1> DEFINE Approx(n) == {g \in [0..n -> D] : Iterates(g, b, G, n)}
           S == {n \in Nat : Approx(n) # {}}
<1>1. 0 \in S
  <2>1. [k \in 0..0 |-> b] \in Approx(0)
    BY DEF Iterates
  <2>2. QED BY <2>1
<1>2. ASSUME NEW n \in Nat, n \in S PROVE n + 1 \in S
  <2>1. PICK g : g \in Approx(n)
    BY <1>2
  <2>2. g \in [0..n -> D] /\ g[0] = b /\ \A k \in 1..n : g[k] = G[k][g[k - 1]]
    BY <2>1 DEF Iterates
  <2> DEFINE h == [k \in 0..(n + 1) |-> IF k <= n THEN g[k] ELSE G[n + 1][g[n]]]
  <2>3. g[n] \in D /\ n + 1 \in Nat
    BY <2>2
  <2>4. G[n + 1][g[n]] \in D
    BY <2>3
  <2>5. h \in [0..(n + 1) -> D] /\ h[0] = b
    BY <2>2, <2>4
  <2>6. ASSUME NEW k \in 1..(n + 1) PROVE h[k] = G[k][h[k - 1]]
    <3>1. CASE k = n + 1
      BY <3>1
    <3>2. CASE k \in 1..n
      BY <3>2, <2>2
    <3>3. QED BY <3>1, <3>2
  <2>7. h \in Approx(n + 1)
    <3> HIDE DEF h
    <3>1. QED BY <2>5, <2>6 DEF Iterates
  <2> HIDE DEF Approx
  <2>8. QED BY <2>7
<1>3. N \in S
  <2> HIDE DEF S
  <2>1. QED BY <1>1, <1>2, Induction
<1>4. QED BY <1>3

\* Induction up to a bound: two such functions that agree on b agree.
LEMMA InductionTo ==
    ASSUME NEW N \in Nat, NEW T, 0 \in T, \A k \in 1..N : k - 1 \in T => k \in T
    PROVE  0..N \subseteq T
<1> DEFINE S == {n \in Nat : n <= N => n \in T}
<1>1. 0 \in S
  OBVIOUS
<1>2. ASSUME NEW n \in Nat, n \in S PROVE n + 1 \in S
  <2>1. SUFFICES ASSUME n + 1 <= N PROVE n + 1 \in T
    OBVIOUS
  <2>2. n + 1 \in 1..N /\ (n + 1) - 1 = n /\ n \in T
    BY <2>1, <1>2
  <2>3. QED BY <2>2
<1>3. Nat \subseteq S
  <2> HIDE DEF S
  <2>1. QED BY <1>1, <1>2, Induction
<1>4. QED BY <1>3

\* Induction over sequences.
LEMMA SequenceInduction ==
    ASSUME NEW M, NEW T, <<>> \in T,
           \A s \in Seq(M), e \in M : s \in T => Append(s, e) \in T
    PROVE  Seq(M) \subseteq T
<1> DEFINE S == {n \in Nat : \A s \in Seq(M) : Len(s) = n => s \in T}
<1>1. 0 \in S
  BY EmptySeq
<1>2. ASSUME NEW n \in Nat, n \in S PROVE n + 1 \in S
  <2>1. SUFFICES ASSUME NEW s \in Seq(M), Len(s) = n + 1 PROVE s \in T
    OBVIOUS
  <2>2. s # <<>>
    BY <2>1
  <2>3. PICK r \in Seq(M), e \in M : s = Append(r, e)
    BY <2>2, SequenceEmptyOrAppend
  <2>4. Len(r) = n
    BY <2>1, <2>3, AppendProperties, LenProperties
  <2>5. QED BY <1>2, <2>3, <2>4
<1>3. Nat \subseteq S
  <2> HIDE DEF S
  <2>1. QED BY <1>1, <1>2, Induction
<1>4. QED BY <1>3, LenProperties

-----------------------------------------------------------------------------
(* The ids of a group's occurrences in a log, and the log extended.           *)

\* The operators of EventLog over any log.
IdsOf(log, g, a) ==
    LET ids[n \in 0..Len(log)] ==
            IF n = 0 THEN <<>>
            ELSE IF n > a /\ log[n].group_id = g
            THEN Append(ids[n - 1], n) ELSE ids[n - 1]
    IN ids[Len(log)]
Exists(log, g, t) ==
    t # NoTag /\ \E i \in DOMAIN log : log[i].group_id = g /\ log[i].unique_tag = t

\* k[n] are the ids among the first n.
RecursiveIds(k, log, g, a) ==
    /\ k[0] = <<>>
    /\ \A n \in 1..Len(log) :
          k[n] = IF n > a /\ log[n].group_id = g THEN Append(k[n - 1], n) ELSE k[n - 1]

\* The ids are collected from left to right.
LEMMA IdsValues ==
    ASSUME NEW R, NEW log \in Seq(R), NEW g, NEW a
    PROVE  \E k \in [0..Len(log) -> Seq(Nat)] :
               RecursiveIds(k, log, g, a) /\ IdsOf(log, g, a) = k[Len(log)]
<1> DEFINE D == Seq(Nat)
           N == Len(log)
           Step(n, t) == IF n > a /\ log[n].group_id = g THEN Append(t, n) ELSE t
           G == [n \in Nat |-> [t \in D |-> Step(n, t)]]
           Body(k) == [n \in 0..N |->
                         IF n = 0 THEN <<>>
                         ELSE IF n > a /\ log[n].group_id = g
                         THEN Append(k[n - 1], n) ELSE k[n - 1]]
<1>1. N \in Nat /\ <<>> \in D
  OBVIOUS
<1>2. G \in [Nat -> [D -> D]]
  <2>1. ASSUME NEW n \in Nat, NEW t \in D
        PROVE  Step(n, t) \in D
    OBVIOUS
  <2> HIDE DEF D, Step
  <2>2. QED BY <2>1
<1>3. PICK h \in [0..N -> D] : Iterates(h, <<>>, G, N)
  <2> HIDE DEF D, N, G
  <2>1. QED BY <1>1, <1>2, Recursion
<1>4. ASSUME NEW n \in 1..N
      PROVE  h[n] = IF n > a /\ log[n].group_id = g THEN Append(h[n - 1], n) ELSE h[n - 1]
  <2>1. n \in Nat /\ n - 1 \in 0..N
    BY <1>1
  <2>2. h[n - 1] \in D
    BY <2>1
  <2>3. h[n] = G[n][h[n - 1]]
    BY <1>3 DEF Iterates
  <2> HIDE DEF D
  <2>4. h[n] = Step(n, h[n - 1])
    BY <2>1, <2>2, <2>3
  <2>5. QED BY <2>4
<1>5. h[0] = <<>>
  BY <1>3 DEF Iterates
<1>6. h = Body(h)
  <2> HIDE DEF D, N
  <2>1. ASSUME NEW n \in 0..N PROVE h[n] = Body(h)[n]
    <3>1. CASE n = 0
      BY <3>1, <1>5, <1>1
    <3>2. CASE n \in 1..N
      <4>1. Body(h)[n] = IF n > a /\ log[n].group_id = g THEN Append(h[n - 1], n) ELSE h[n - 1]
        BY <3>2, <1>1
      <4> HIDE DEF Body
      <4>2. QED BY <4>1, <3>2, <1>4
    <3>3. QED BY <3>1, <3>2, <1>1
  <2>2. Body(h) = [n \in 0..N |-> Body(h)[n]]
    OBVIOUS
  <2> HIDE DEF Body
  <2>3. QED BY <2>1, <2>2
<1> DEFINE ids == CHOOSE k : k = Body(k)
<1>7. ids = Body(ids)
  <2> HIDE DEF Body
  <2>1. QED BY <1>6
<1>8. IdsOf(log, g, a) = ids[N]
  BY DEF IdsOf
<1>9. RecursiveIds(ids, log, g, a)
  <2> HIDE DEF ids
  <2>1. \A n \in 0..N : ids[n] =
          IF n = 0 THEN <<>>
          ELSE IF n > a /\ log[n].group_id = g THEN Append(ids[n - 1], n) ELSE ids[n - 1]
    BY <1>7
  <2>2. 0 \in 0..N /\ \A n \in 1..N : n \in 0..N /\ n # 0
    BY <1>1
  <2>3. QED BY <2>1, <2>2 DEF RecursiveIds
<1>10. RecursiveIds(h, log, g, a)
  BY <1>4, <1>5 DEF RecursiveIds
<1>11. \A n \in 0..N : ids[n] = h[n]
  <2> DEFINE T == {n \in 0..N : ids[n] = h[n]}
  <2> HIDE DEF ids, D, G
  <2>1. 0 \in T
    BY <1>1, <1>9, <1>10 DEF RecursiveIds
  <2>2. \A n \in 1..N : n - 1 \in T => n \in T
    BY <1>1, <1>9, <1>10 DEF RecursiveIds
  <2> HIDE DEF T, N
  <2>3. 0..N \subseteq T
    BY <1>1, <2>1, <2>2, InductionTo
  <2>4. QED BY <2>3 DEF T
<1>12. IdsOf(log, g, a) = h[N]
  <2> HIDE DEF ids, N
  <2>1. QED BY <1>1, <1>8, <1>11
<1>13. QED BY <1>10, <1>12

\* The id of a new occurrence comes last.
LEMMA IdsAppend ==
    ASSUME NEW R, NEW log \in Seq(R), NEW o \in R, NEW g, NEW a
    PROVE  IdsOf(Append(log, o), g, a) =
               IF Len(log) + 1 > a /\ o.group_id = g
               THEN Append(IdsOf(log, g, a), Len(log) + 1) ELSE IdsOf(log, g, a)
<1> DEFINE N == Len(log)
           t == Append(log, o)
<1>1. t \in Seq(R) /\ N \in Nat /\ Len(t) = N + 1 /\ t[N + 1] = o
      /\ \A i \in 1..N : t[i] = log[i]
  BY AppendProperties, LenProperties
<1>2. PICK k \in [0..N -> Seq(Nat)] : RecursiveIds(k, log, g, a) /\ IdsOf(log, g, a) = k[N]
  BY IdsValues
<1>3. PICK l \in [0..(N + 1) -> Seq(Nat)] : RecursiveIds(l, t, g, a) /\ IdsOf(t, g, a) = l[N + 1]
  <2> HIDE DEF t
  <2>1. QED BY <1>1, IdsValues
<1> HIDE DEF t
<1>4. \A n \in 0..N : k[n] = l[n]
  <2> DEFINE T == {n \in 0..N : k[n] = l[n]}
  <2>1. 0 \in T
    BY <1>1, <1>2, <1>3 DEF RecursiveIds
  <2>2. ASSUME NEW n \in 1..N, n - 1 \in T PROVE n \in T
    <3>1. n \in 1..(N + 1) /\ n \in 0..N /\ t[n] = log[n]
      BY <1>1
    <3>2. k[n - 1] = l[n - 1]
      BY <2>2
    <3>3. k[n] = IF n > a /\ log[n].group_id = g THEN Append(k[n - 1], n) ELSE k[n - 1]
      BY <1>2 DEF RecursiveIds
    <3>4. l[n] = IF n > a /\ t[n].group_id = g THEN Append(l[n - 1], n) ELSE l[n - 1]
      BY <1>1, <1>3, <3>1 DEF RecursiveIds
    <3>5. k[n] = l[n]
      BY <3>1, <3>2, <3>3, <3>4
    <3>6. QED BY <3>1, <3>5
  <2> HIDE DEF T
  <2>3. 0..N \subseteq T
    BY <1>1, <2>1, <2>2, InductionTo
  <2>4. QED BY <2>3 DEF T
<1>5. k[N] = l[N] /\ N + 1 \in 1..(N + 1) /\ (N + 1) - 1 = N
  BY <1>1, <1>4
<1>6. l[N + 1] = IF N + 1 > a /\ o.group_id = g THEN Append(l[N], N + 1) ELSE l[N]
  BY <1>1, <1>3, <1>5 DEF RecursiveIds
<1>7. QED BY <1>2, <1>3, <1>5, <1>6 DEF t

\* The ids of the group ascend and are all there are; those after one of them are
\* the rest.
Enumerates(I, log, g) ==
    /\ I \in Seq(1..Len(log))
    /\ \A m, n \in DOMAIN I : m < n => I[m] < I[n]
    /\ \A n \in DOMAIN I : log[I[n]].group_id = g
    /\ \A i \in DOMAIN log : log[i].group_id = g => \E n \in DOMAIN I : I[n] = i
Cursor(I, k) == IF k = 0 THEN 0 ELSE I[k]
Continues(J, I, k) ==
    /\ J \in Seq(Nat) /\ Len(J) = Len(I) - k
    /\ \A j \in 1..Len(J) : J[j] = I[k + j]
IdsRight(log, g) ==
    /\ Enumerates(IdsOf(log, g, 0), log, g)
    /\ \A a \in Nat : a >= Len(log) => IdsOf(log, g, a) = <<>>
    /\ \A k \in 0..Len(IdsOf(log, g, 0)) :
          Continues(IdsOf(log, g, Cursor(IdsOf(log, g, 0), k)), IdsOf(log, g, 0), k)

\* The ids of an empty log.
LEMMA IdsRightEmpty ==
    ASSUME NEW g
    PROVE  IdsRight(<<>>, g)
<1> DEFINE log == <<>>
<1>1. log \in Seq({}) /\ Len(log) = 0
  OBVIOUS
<1>2. ASSUME NEW a PROVE IdsOf(log, g, a) = <<>>
  <2> HIDE DEF log
  <2>1. PICK k \in [0..Len(log) -> Seq(Nat)] : RecursiveIds(k, log, g, a) /\ IdsOf(log, g, a) = k[Len(log)]
    BY <1>1, IdsValues
  <2>2. QED BY <1>1, <2>1 DEF RecursiveIds
<1> HIDE DEF log
<1>3. IdsOf(log, g, 0) = <<>>
  BY <1>2
<1>4. Enumerates(<<>>, log, g)
  BY <1>1 DEF Enumerates
<1>5. Continues(<<>>, <<>>, 0)
  BY DEF Continues
<1>6. IdsRight(log, g)
  BY <1>1, <1>2, <1>3, <1>4, <1>5 DEF IdsRight
<1>7. QED BY <1>6 DEF log

\* One more row: its id, if it is the group's, comes last.
LEMMA IdsRightAppend ==
    ASSUME NEW R, NEW log \in Seq(R), NEW o \in R, NEW g, IdsRight(log, g)
    PROVE  IdsRight(Append(log, o), g)
<1> DEFINE N == Len(log)
           t == Append(log, o)
           I == IdsOf(log, g, 0)
           J == IdsOf(t, g, 0)
<1>1. t \in Seq(R) /\ N \in Nat /\ Len(t) = N + 1 /\ t[N + 1] = o
      /\ \A i \in 1..N : t[i] = log[i]
  BY AppendProperties, LenProperties
<1>2. \A a : IdsOf(t, g, a) = IF N + 1 > a /\ o.group_id = g
                              THEN Append(IdsOf(log, g, a), N + 1) ELSE IdsOf(log, g, a)
  BY IdsAppend
<1>3. /\ I \in Seq(1..N)
      /\ \A m, n \in DOMAIN I : m < n => I[m] < I[n]
      /\ \A n \in DOMAIN I : log[I[n]].group_id = g
      /\ \A i \in 1..N : log[i].group_id = g => \E n \in DOMAIN I : I[n] = i
      /\ DOMAIN I = 1..Len(I) /\ Len(I) \in Nat
      /\ \A n \in DOMAIN I : I[n] \in 1..N
  BY <1>1 DEF IdsRight, Enumerates
<1>4. J = IF o.group_id = g THEN Append(I, N + 1) ELSE I
  BY <1>1, <1>2
<1>5. J \in Seq(1..(N + 1))
  <2>1. I \in Seq(1..(N + 1))
    BY <1>1, <1>3, SeqMonotonic
  <2> HIDE DEF I, J, N
  <2>2. N + 1 \in 1..(N + 1)
    BY <1>1
  <2>3. Append(I, N + 1) \in Seq(1..(N + 1))
    BY <2>1, <2>2, AppendProperties
  <2>4. QED BY <1>4, <2>1, <2>3
<1>6. Enumerates(J, t, g)
  <2> HIDE DEF I, J, t, N
  <2>1. CASE o.group_id # g
    <3>1. J = I
      BY <1>4, <2>1
    <3>2. \A n \in DOMAIN I : t[I[n]].group_id = g
      BY <1>1, <1>3
    <3>3. ASSUME NEW i \in DOMAIN t, t[i].group_id = g PROVE \E n \in DOMAIN I : I[n] = i
      <4>1. i \in 1..N
        BY <1>1, <2>1, <3>3
      <4>2. QED BY <4>1, <1>1, <1>3, <3>3
    <3>4. QED BY <1>1, <1>3, <1>5, <3>1, <3>2, <3>3 DEF Enumerates
  <2>2. CASE o.group_id = g
    <3>1. /\ Len(J) = Len(I) + 1 /\ DOMAIN J = 1..(Len(I) + 1) /\ J[Len(I) + 1] = N + 1
          /\ \A n \in 1..Len(I) : J[n] = I[n]
      BY <1>1, <1>3, <1>4, <2>2
    <3>2. \A m, n \in DOMAIN J : m < n => J[m] < J[n]
      BY <1>1, <1>3, <3>1
    <3>3. ASSUME NEW n \in DOMAIN J PROVE t[J[n]].group_id = g
      <4>1. CASE n = Len(I) + 1
        BY <4>1, <1>1, <3>1, <2>2
      <4>2. CASE n \in 1..Len(I)
        <5>1. J[n] = I[n] /\ I[n] \in 1..N /\ log[I[n]].group_id = g
          BY <4>2, <1>3, <3>1
        <5>2. QED BY <5>1, <1>1
      <4>3. QED BY <4>1, <4>2, <3>1, <1>3
    <3>4. ASSUME NEW i \in 1..(N + 1), t[i].group_id = g PROVE \E n \in DOMAIN J : J[n] = i
      <4>1. CASE i = N + 1
        <5>1. Len(I) + 1 \in DOMAIN J
          BY <1>3, <3>1
        <5>2. QED BY <4>1, <3>1, <5>1
      <4>2. CASE i \in 1..N
        <5>1. PICK n \in DOMAIN I : I[n] = i
          BY <4>2, <1>1, <1>3, <3>4
        <5>2. n \in DOMAIN J /\ J[n] = i
          BY <5>1, <1>3, <3>1
        <5>3. QED BY <5>2
      <4>3. QED BY <4>1, <4>2, <1>1
    <3>5. DOMAIN t = 1..(N + 1)
      BY <1>1
    <3>6. QED BY <1>1, <1>5, <3>2, <3>3, <3>4, <3>5 DEF Enumerates
  <2>3. QED BY <2>1, <2>2
<1>7. ASSUME NEW a \in Nat, a >= Len(t) PROVE IdsOf(t, g, a) = <<>>
  <2>1. a >= Len(log) /\ ~(N + 1 > a)
    BY <1>1, <1>7
  <2>2. IdsOf(log, g, a) = <<>>
    BY <2>1 DEF IdsRight
  <2>3. QED BY <1>2, <2>1, <2>2
<1>8. ASSUME NEW k \in 0..Len(J) PROVE Continues(IdsOf(t, g, Cursor(J, k)), J, k)
  <2> DEFINE a == Cursor(J, k)
             A == IdsOf(log, g, a)
             B == IdsOf(t, g, a)
  <2>1. B = IF N + 1 > a /\ o.group_id = g THEN Append(A, N + 1) ELSE A
    BY <1>2
  <2>2. CASE k \in 0..Len(I)
    <3>1. a = Cursor(I, k)
      <4> HIDE DEF J, I
      <4>1. QED BY <1>3, <1>4, <2>2 DEF Cursor
    <3>2. a \in 0..N
      <4> HIDE DEF J, I
      <4>1. QED BY <1>1, <1>3, <3>1, <2>2 DEF Cursor
    <3>3. A \in Seq(Nat) /\ Len(A) = Len(I) - k /\ \A j \in 1..Len(A) : A[j] = I[k + j]
      BY <3>1, <2>2 DEF IdsRight, Continues
    <3> HIDE DEF I, J, A, B, a, t, N
    <3>4. B = IF o.group_id = g THEN Append(A, N + 1) ELSE A
      BY <1>1, <2>1, <3>2
    <3>5. CASE o.group_id # g
      BY <3>3, <3>4, <3>5, <1>4 DEF Continues, a, B
    <3>6. CASE o.group_id = g
      <4>1. /\ Len(J) = Len(I) + 1 /\ J[Len(I) + 1] = N + 1
            /\ \A n \in 1..Len(I) : J[n] = I[n]
        BY <1>1, <1>3, <1>4, <3>6
      <4>2. /\ B \in Seq(Nat) /\ Len(B) = Len(A) + 1 /\ B[Len(A) + 1] = N + 1
            /\ \A n \in 1..Len(A) : B[n] = A[n]
        <5>1. N + 1 \in Nat /\ B = Append(A, N + 1)
          BY <1>1, <3>4, <3>6
        <5>2. QED BY <5>1, <3>3, AppendProperties
      <4>3. ASSUME NEW j \in 1..Len(B) PROVE B[j] = J[k + j]
        <5>1. Len(A) \in Nat /\ k \in Nat /\ Len(I) \in Nat /\ Len(A) = Len(I) - k
          BY <3>3, <1>3, <2>2
        <5>2. CASE j = Len(A) + 1
          BY <5>1, <5>2, <4>1, <4>2
        <5>3. CASE j \in 1..Len(A)
          <6>1. k + j \in 1..Len(I)
            BY <5>1, <5>3
          <6>2. QED BY <5>3, <6>1, <3>3, <4>1, <4>2
        <5>4. QED BY <5>1, <5>2, <5>3, <4>2
      <4>4. Len(B) = Len(J) - k
        BY <4>1, <4>2, <3>3, <1>3, <2>2
      <4>5. Continues(B, J, k)
        BY <4>2, <4>3, <4>4 DEF Continues
      <4>6. QED BY <4>5 DEF B, a
    <3>7. QED BY <3>5, <3>6
  <2>3. CASE k \notin 0..Len(I)
    <3> HIDE DEF I, J, A, B, t, N
    <3>1. o.group_id = g /\ k = Len(I) + 1 /\ J[k] = N + 1 /\ Len(J) = k /\ k \in Nat
      <4>1. Len(I) \in Nat /\ k \in 0..Len(J)
        BY <1>3
      <4>2. o.group_id = g
        BY <1>4, <2>3, <4>1
      <4>3. J = Append(I, N + 1)
        BY <1>4, <4>2
      <4>4. Len(J) = Len(I) + 1 /\ J[Len(I) + 1] = N + 1
        BY <4>3, <1>3, AppendProperties
      <4>5. QED BY <4>1, <4>2, <4>4, <2>3
    <3>2. a = N + 1
      BY <3>1, <1>3 DEF Cursor
    <3> HIDE DEF a
    <3>3. B = <<>>
      BY <3>2, <1>1, <1>7 DEF B
    <3>4. Continues(B, J, k)
      BY <3>1, <3>3 DEF Continues
    <3>5. QED BY <3>4 DEF B, a
  <2>4. QED BY <2>2, <2>3
<1>9. IdsRight(t, g)
  <2> HIDE DEF t
  <2>1. QED BY <1>6, <1>7, <1>8 DEF IdsRight
<1>10. QED BY <1>9

\* occurrences_for_group_after_id enumerates the group's rows, from any cursor.
LEMMA IdsAreRight ==
    ASSUME NEW R, NEW log \in Seq(R), NEW g
    PROVE  IdsRight(log, g)
<1> DEFINE T == {l \in Seq(R) : IdsRight(l, g)}
<1>1. <<>> \in T
  BY IdsRightEmpty, EmptySeq
<1>2. ASSUME NEW l \in Seq(R), NEW e \in R, l \in T PROVE Append(l, e) \in T
  <2>1. Append(l, e) \in Seq(R) /\ IdsRight(l, g)
    BY <1>2
  <2>2. QED BY <2>1, IdsRightAppend
<1>3. Seq(R) \subseteq T
  <2> HIDE DEF T
  <2>1. QED BY <1>1, <1>2, SequenceInduction
<1>4. QED BY <1>3

-----------------------------------------------------------------------------
(* The host.                                                                  *)

HostInv == HostType /\ RegistryInv /\ ChainInv

\* What a request is, and what it is not.
LEMMA RequestFacts ==
    ASSUME scenario \in Scenario
    PROVE  /\ scenario.requests \in Seq(Request)
           /\ Handler = 1..Len(scenario.requests) /\ Len(scenario.requests) \in Nat
           /\ NoHandler \notin Handler
           /\ \A r \in Handler : /\ arg(r) \in Request
                                 /\ arg(r).op = "add" => arg(r).envelope \in Envelope
<1>1. scenario.requests \in Seq(Request)
  BY GameInitAssumption
<1>2. Handler = 1..Len(scenario.requests) /\ Len(scenario.requests) \in Nat
  BY <1>1 DEF Handler
<1>3. NoHandler \notin Handler
  BY <1>2 DEF NoHandler
<1>4. ASSUME NEW r \in Handler PROVE arg(r) \in Request
  BY <1>1, <1>4 DEF Handler, arg
<1>5. ASSUME NEW q \in Request, q.op = "add" PROVE q.envelope \in Envelope
  BY <1>5 DEF Request, Envelope
<1>6. QED BY <1>1, <1>2, <1>3, <1>4, <1>5

\* The host, before its first request.
LEMMA HostInit == Init => HostInv
<1>1. SUFFICES ASSUME Init PROVE HostInv
  OBVIOUS
<1>2. GameInitInit /\ scenario \in Scenario
  BY <1>1 DEF Init, GameInitInit
<1>3. HostType
  <2>1. scenario.host \in {"up", "down"} /\ scenario.host_faults \in Nat /\ MaxGames \in Nat
    BY <1>2, GameInitAssumption
  <2>2. Fresh \in Metadata /\ <<>> \in Seq(Code) /\ Len(<<>>) = 0 /\ 0 \in 0..MaxGames + 1
    BY <2>1 DEF Fresh, Metadata
  <2>3. QED BY <1>2, <2>1, <2>2 DEF GameInitInit, HostType, NoHandler
<1>4. RegistryInv
  BY <1>2, GameInitAssumption DEF GameInitInit, RegistryInv, Fresh, ToSet
<1>5. ChainInv
  BY <1>2 DEF GameInitInit, ChainInv, Fresh, Working
<1>6. QED BY <1>3, <1>4, <1>5 DEF HostInv

\* A new game takes the next code, and the place of the oldest if there is none.
LEMMA CreateStep ==
    ASSUME HostInv, NEW r \in Handler, create_new_game_instance(r)
    PROVE  HostInv'
<1> USE DEF HostInv
<1>1. CASE arg(r).minutes > 300
  <2>1. HostType'
    BY <1>1 DEF create_new_game_instance, At, Answer, registry, locks, evlog, HostType, Handler, Working
  <2>2. RegistryInv'
    BY <1>1 DEF create_new_game_instance, registry, locks, RegistryInv
  <2>3. ChainInv'
    BY <1>1 DEF create_new_game_instance, At, Answer, registry, locks, ChainInv, HostType, Handler, Working, arg
  <2>4. QED BY <2>1, <2>2, <2>3
<1>2. CASE ~(arg(r).minutes > 300)
  <2> DEFINE code == created + 1
             old == IF evicts THEN Tail(by_time) ELSE by_time
  <2>1. /\ request' = [request EXCEPT ![r] = "answered"] /\ request[r] = "new" /\ host' = host
        /\ code \in Code /\ created' = code /\ game' = [game EXCEPT ![code] = Fresh]
        /\ by_time' = Append(old, code)
        /\ states' = (states \ (IF evicts THEN {Head(by_time)} ELSE {})) \cup {code}
        /\ scenario' = scenario /\ host_faults' = host_faults /\ chains' = chains
        /\ db_lock' = db_lock /\ state_lock' = state_lock
    BY <1>2 DEF create_new_game_instance, At, Answer, locks
  <2>2. /\ by_time \in Seq(Code) /\ Len(by_time) \in Nat /\ Len(by_time) <= MaxGames
        /\ DOMAIN by_time = 1..Len(by_time) /\ \A i \in 1..Len(by_time) : by_time[i] \in Code
        /\ MaxGames \in Nat \ {0} /\ MAX_PLAYERS \in Nat \ {0} /\ created \in Nat
        /\ Code \subseteq Nat /\ created \in 0..MaxGames + 1
        /\ game \in [Code -> Metadata]
    BY GameInitAssumption DEF HostType, Code
  <2>3. /\ old \in Seq(Code) /\ Len(old) \in Nat /\ Len(old) < MaxGames
        /\ old = by_time \/ /\ evicts /\ Len(by_time) > 0 /\ Len(old) = Len(by_time) - 1
                            /\ \A i \in 1..Len(old) : old[i] = by_time[i + 1]
    <3>1. CASE evicts
      <4>1. by_time # <<>> /\ old = Tail(by_time)
        BY <3>1, <2>2 DEF evicts
      <4>2. QED BY <4>1, <3>1, <2>2 DEF evicts
    <3>2. CASE ~evicts
      <4>1. old = by_time
        BY <3>2
      <4>2. Len(by_time) # MaxGames
        BY <3>2 DEF evicts
      <4> HIDE DEF old
      <4>3. Len(by_time) < MaxGames
        <5>1. Len(by_time) \in Nat /\ MaxGames \in Nat /\ Len(by_time) <= MaxGames
          BY <2>2
        <5>2. QED BY <5>1, <4>2
      <4>4. QED BY <4>1, <4>3, <2>2
    <3>3. QED BY <3>1, <3>2
  <2>4. /\ by_time' \in Seq(Code) /\ Len(by_time') = Len(old) + 1
        /\ \A i \in 1..Len(old) : by_time'[i] = old[i]
        /\ by_time'[Len(old) + 1] = code /\ DOMAIN by_time' = 1..(Len(old) + 1)
    <3> HIDE DEF old, code
    <3>1. QED BY <2>1, <2>3, AppendProperties
  <2>5. Fresh \in Metadata /\ Len(Fresh.envelopes) = 0 /\ Fresh.st = "AddingPlayers"
    BY DEF Fresh, Metadata
  <2>6. game' \in [Code -> Metadata]
    BY <2>1, <2>2, <2>5
  <2>7. HostType'
    <3> HIDE DEF code, old
    <3>1. states' \subseteq Code
      BY <2>1 DEF HostType
    <3>2. created' \in 0..MaxGames + 1
      BY <2>1, <2>2 DEF Code, code
    <3>3. request' \in [Handler -> {"new", "found", "answered"} \cup Working]
      BY <2>1 DEF HostType
    <3>4. Len(by_time') <= MaxGames
      <4>1. Len(old) \in Nat /\ Len(old) < MaxGames /\ MaxGames \in Nat
        BY <2>2, <2>3
      <4>2. QED BY <2>4, <4>1
    <3>5. QED BY <2>1, <2>4, <2>6, <3>1, <3>2, <3>3, <3>4 DEF HostType, Handler
  <2>8. RegistryInv'
    <3>1. \A i, j \in DOMAIN by_time : i < j => by_time[i] < by_time[j]
      BY DEF RegistryInv
    <3>2. \A i \in 1..Len(by_time) : by_time[i] <= created
      BY <2>2 DEF RegistryInv
    <3>a. ASSUME NEW i \in 1..Len(old)
          PROVE  \E d \in {0, 1} : \A j \in 1..Len(old) :
                    j + d \in 1..Len(by_time) /\ old[j] = by_time[j + d]
      <4> HIDE DEF old
      <4>1. CASE old = by_time
        <5>1. \A j \in 1..Len(old) : j + 0 \in 1..Len(by_time) /\ old[j] = by_time[j + 0]
          BY <4>1
        <5>2. QED BY <5>1
      <4>2. CASE old # by_time
        <5>1. \A j \in 1..Len(old) : j + 1 \in 1..Len(by_time) /\ old[j] = by_time[j + 1]
          <6>1. /\ Len(old) \in Nat /\ Len(by_time) \in Nat /\ Len(old) = Len(by_time) - 1
                /\ \A j \in 1..Len(old) : old[j] = by_time[j + 1]
            BY <4>2, <2>2, <2>3
          <6>2. \A j \in 1..Len(old) : j + 1 \in 1..Len(by_time)
            BY <6>1
          <6>3. QED BY <6>1, <6>2
        <5>2. QED BY <5>1
      <4>3. QED BY <4>1, <4>2
    <3> HIDE DEF old
    <3>3. \A i, j \in 1..Len(old) : i < j => old[i] < old[j]
      <4>1. SUFFICES ASSUME NEW i \in 1..Len(old), NEW j \in 1..Len(old), i < j
                     PROVE  old[i] < old[j]
        OBVIOUS
      <4>2. PICK d \in {0, 1} : \A h \in 1..Len(old) :
                    h + d \in 1..Len(by_time) /\ old[h] = by_time[h + d]
        BY <3>a
      <4>3. i + d \in DOMAIN by_time /\ j + d \in DOMAIN by_time /\ i + d < j + d
        BY <4>1, <4>2, <2>2
      <4>4. by_time[i + d] < by_time[j + d]
        BY <4>3, <3>1
      <4>5. QED BY <4>2, <4>4
    <3>4. ASSUME NEW i \in 1..Len(old) PROVE old[i] <= created /\ old[i] \in Nat
      <4>1. PICK d \in {0, 1} : \A h \in 1..Len(old) :
                    h + d \in 1..Len(by_time) /\ old[h] = by_time[h + d]
        BY <3>a
      <4>2. QED BY <4>1, <2>2, <3>2
    <3>5. \A i, j \in DOMAIN by_time' : i < j => by_time'[i] < by_time'[j]
      <4>1. SUFFICES ASSUME NEW i \in DOMAIN by_time', NEW j \in DOMAIN by_time', i < j
                     PROVE  by_time'[i] < by_time'[j]
        OBVIOUS
      <4>2. i \in 1..Len(old) /\ by_time'[i] = old[i]
        BY <4>1, <2>3, <2>4
      <4>3. CASE j = Len(old) + 1
        BY <4>2, <4>3, <2>2, <2>4, <3>4
      <4>4. CASE j \in 1..Len(old)
        BY <4>1, <4>2, <4>4, <2>4, <3>3
      <4>5. QED BY <4>3, <4>4, <2>3, <2>4
    <3>6. \A i \in DOMAIN by_time' : by_time'[i] <= created'
      <4>1. ASSUME NEW i \in 1..Len(old) PROVE by_time'[i] <= created'
        BY <2>1, <2>2, <2>4, <3>4
      <4>2. by_time'[Len(old) + 1] <= created'
        BY <2>1, <2>2, <2>4
      <4>3. QED BY <4>1, <4>2, <2>3, <2>4
    <3>7. ToSet(old) = states \ (IF evicts THEN {Head(by_time)} ELSE {})
      <4>1. states = {by_time[i] : i \in 1..Len(by_time)} /\ ToSet(old) = {old[i] : i \in 1..Len(old)}
        <5>1. DOMAIN old = 1..Len(old)
          BY <2>3
        <5>2. QED BY <2>2, <5>1 DEF RegistryInv, ToSet
      <4>2. CASE evicts
        <5>1. Len(by_time) > 0 /\ Head(by_time) = by_time[1] /\ Len(old) = Len(by_time) - 1
              /\ \A i \in 1..Len(old) : old[i] = by_time[i + 1]
          BY <4>2, <2>2, <2>3 DEF evicts, old
        <5>2. \A i \in 1..Len(by_time) : i # 1 => by_time[i] # by_time[1]
          <6>1. SUFFICES ASSUME NEW i \in 1..Len(by_time), i # 1 PROVE by_time[1] < by_time[i]
            BY <2>2
          <6>2. 1 \in DOMAIN by_time /\ i \in DOMAIN by_time /\ 1 < i
            BY <2>2, <6>1
          <6>3. QED BY <6>2, <3>1
        <5>3. \A i \in 1..Len(by_time) : i # 1 => i - 1 \in 1..Len(old) /\ by_time[i] = old[i - 1]
          BY <5>1, <2>2
        <5>4. \A i \in 1..Len(old) : i + 1 \in 1..Len(by_time) /\ i + 1 # 1 /\ old[i] = by_time[i + 1]
          BY <5>1, <2>2
        <5>5. ASSUME NEW x \in ToSet(old) PROVE x \in states \ {by_time[1]}
          <6>1. PICK i \in 1..Len(old) : x = old[i]
            BY <4>1
          <6>2. QED BY <6>1, <4>1, <5>2, <5>4
        <5>6. ASSUME NEW x \in states \ {by_time[1]} PROVE x \in ToSet(old)
          <6>1. PICK i \in 1..Len(by_time) : x = by_time[i]
            BY <4>1
          <6>2. QED BY <6>1, <4>1, <5>3
        <5>7. QED BY <4>2, <5>1, <5>5, <5>6
      <4>3. CASE ~evicts
        BY <4>1, <4>3 DEF old
      <4>4. QED BY <4>2, <4>3
    <3>8. ToSet(by_time') = ToSet(old) \cup {code}
      <4>1. ToSet(old) = {old[i] : i \in 1..Len(old)} /\ ToSet(by_time') = {by_time'[i] : i \in 1..Len(old) + 1}
        BY <2>3, <2>4 DEF ToSet
      <4>2. 1..Len(old) + 1 = 1..Len(old) \cup {Len(old) + 1}
        BY <2>3
      <4>3. QED BY <4>1, <4>2, <2>4
    <3>9. states' = ToSet(by_time')
      BY <2>1, <3>7, <3>8
    <3>10. \A c \in Code : /\ Len(game'[c].envelopes) <= MAX_PLAYERS
                           /\ game'[c].st = "AddingPlayers" => Len(game'[c].envelopes) < MAX_PLAYERS
      BY <2>1, <2>2, <2>5 DEF RegistryInv
    <3>11. QED BY <3>5, <3>6, <3>9, <3>10 DEF RegistryInv
  <2>9. ChainInv'
    <3>1. \A c \in Code : game'[c] = game[c] \/ (c = code /\ game'[c] = Fresh)
      BY <2>1, <2>2
    <3>2. game[code].st # "Setup" /\ chains[code] = 0
      BY <2>1, <2>2 DEF ChainInv
    <3>3. ASSUME NEW c \in Code
          PROVE  /\ chains'[c] <= 1
                 /\ c > created' => game'[c].st # "Setup"
                 /\ game'[c].st # "Setup" => chains'[c] = 0
      <4>1. chains[c] <= 1 /\ (game[c].st # "Setup" => chains[c] = 0)
        BY DEF ChainInv
      <4>2. c > created' => game[c].st # "Setup"
        BY <2>1, <2>2 DEF ChainInv
      <4>3. QED BY <2>1, <2>5, <3>1, <3>2, <4>1, <4>2
    <3>4. ASSUME NEW q \in Handler
          PROVE  /\ request'[q] = "found" => arg(q)'.code \in 1..created'
                 /\ request'[q] \in Working =>
                       /\ host' = "up" /\ arg(q)'.code \in Code /\ state_lock'[arg(q)'.code] = q
                       /\ game'[arg(q)'.code].st = "Setup"
                 /\ request'[q] = "chain" => chains'[arg(q)'.code] = 0
      <4>1. arg(q)' = arg(q) /\ (q # r => request'[q] = request[q]) /\ request'[r] = "answered"
        BY <2>1 DEF arg, HostType
      <4>2. "answered" \notin Working /\ "answered" # "found" /\ "answered" # "chain"
        BY DEF Working
      <4>3. arg(q).code \in 1..created => arg(q).code \in 1..created'
        BY <2>1, <2>2
      <4>4. request[q] \in Working => arg(q).code # code
        BY <3>2 DEF ChainInv
      <4>5. request[q] \in Working => game'[arg(q).code] = game[arg(q).code]
        BY <4>4, <3>1 DEF ChainInv
      <4>6. QED BY <2>1, <4>1, <4>2, <4>3, <4>5 DEF ChainInv
    <3>5. Handler' = Handler
      BY <2>1 DEF Handler
    <3> HIDE DEF HostInv
    <3>6. ChainInv'
      <4>1. \A q \in Handler' :
               /\ request'[q] = "found" => arg(q)'.code \in 1..created'
               /\ request'[q] \in Working =>
                     /\ host' = "up" /\ arg(q)'.code \in Code /\ state_lock'[arg(q)'.code] = q
                     /\ game'[arg(q)'.code].st = "Setup"
               /\ request'[q] = "chain" => chains'[arg(q)'.code] = 0
        BY <3>4, <3>5
      <4>2. QED BY <3>3, <4>1 DEF ChainInv
    <3>7. QED BY <3>6
  <2>10. QED BY <2>7, <2>8, <2>9
<1>3. QED BY <1>1, <1>2

\* A player is added only to a game that still takes one.
LEMMA AddStep ==
    ASSUME HostInv, NEW r \in Handler, add_player(r)
    PROVE  HostInv'
<1> USE DEF HostInv
<1> DEFINE c == arg(r).code
           e == arg(r).envelope
<1>1. /\ request[r] = "found" /\ arg(r).op = "add" /\ host = "up"
      /\ game' = IF Accepts(game[c], e) THEN [game EXCEPT ![c] = Added(@, e)] ELSE game
      /\ request' = [request EXCEPT ![r] = "answered"]
      /\ db_lock' = NoHandler
      /\ UNCHANGED <<scenario, host, host_faults, created, states, by_time, state_lock, chains>>
  BY DEF add_player, At, Answer
<1>2. /\ game \in [Code -> Metadata] /\ MAX_PLAYERS \in Nat \ {0} /\ e \in Envelope
      /\ request \in [Handler -> {"new", "found", "answered"} \cup Working]
  BY <1>1, RequestFacts, GameInitAssumption DEF HostType
<1>3. ASSUME NEW d \in Code
      PROVE  /\ game'[d] \in Metadata
             /\ Len(game'[d].envelopes) <= MAX_PLAYERS
             /\ game'[d].st = "AddingPlayers" => Len(game'[d].envelopes) < MAX_PLAYERS
             /\ game'[d].st = "Setup" <=> game[d].st = "Setup"
  <2>1. /\ game[d] \in Metadata /\ Len(game[d].envelopes) <= MAX_PLAYERS
        /\ game[d].st = "AddingPlayers" => Len(game[d].envelopes) < MAX_PLAYERS
    BY <1>2 DEF RegistryInv
  <2>2. CASE game'[d] = game[d]
    BY <2>1, <2>2
  <2>3. CASE game'[d] # game[d]
    <3>1. d = c /\ game[d].st = "AddingPlayers" /\ game'[d] = Added(game[d], e)
      BY <1>1, <1>2, <2>3 DEF Accepts
    <3> DEFINE v == Append(game[d].envelopes, e)
    <3>2. v \in Seq(Envelope) /\ Len(v) = Len(game[d].envelopes) + 1 /\ Len(v) \in Nat
      BY <2>1, <1>2 DEF Metadata
    <3>3. Len(v) <= MAX_PLAYERS
      BY <3>1, <3>2, <2>1, <1>2
    <3> HIDE DEF v
    <3>4. game'[d] = [envelopes |-> v, st |-> IF Len(v) = MAX_PLAYERS THEN "WaitingForSetup" ELSE game[d].st]
      BY <3>1 DEF Added, v
    <3>5. QED BY <3>1, <3>2, <3>3, <3>4, <2>1, <1>2 DEF Metadata
  <2>4. QED BY <2>2, <2>3
<1>4. game' \in [Code -> Metadata]
  <2>1. DOMAIN game' = Code /\ game' = [d \in DOMAIN game' |-> game'[d]]
    BY <1>1, <1>2
  <2>2. QED BY <2>1, <1>3
<1>5. HostType'
  BY <1>1, <1>4 DEF HostType, Handler
<1>6. RegistryInv'
  BY <1>1, <1>3 DEF RegistryInv
<1>7. ChainInv'
  BY <1>1, <1>2, <1>3, SMTT(30) DEF ChainInv, Handler, arg, Working
<1>8. QED BY <1>5, <1>6, <1>7

\* The rest of the handlers' steps leave the registry as it is, or set up a game.
LEMMA FindStep ==
    ASSUME HostInv, NEW r \in Handler, add_player_finds(r) \/ finish_setup_finds(r)
    PROVE  HostInv'
<1> USE DEF HostInv
<1>1. /\ request[r] = "new" /\ host = "up"
      /\ \/ request' = [request EXCEPT ![r] = "answered"]
         \/ request' = [request EXCEPT ![r] = "found"] /\ arg(r).code \in states
      /\ db_lock' \in {r, db_lock}
      /\ UNCHANGED <<scenario, host, host_faults, created, game, states, by_time, state_lock, chains>>
  BY DEF add_player_finds, finish_setup_finds, At, Answer, Go, registry, locks
<1>2. arg(r).code \in states => arg(r).code \in 1..created
  <2>1. SUFFICES ASSUME arg(r).code \in states PROVE arg(r).code \in 1..created
    OBVIOUS
  <2>2. PICK i \in DOMAIN by_time : arg(r).code = by_time[i]
    BY <2>1 DEF RegistryInv, ToSet
  <2>3. by_time[i] \in Code /\ by_time[i] <= created
    BY DEF HostType, RegistryInv
  <2>4. QED BY <2>2, <2>3, GameInitAssumption DEF Code, HostType
<1>3. HostType'
  BY <1>1 DEF HostType, Handler
<1>4. RegistryInv'
  BY <1>1 DEF RegistryInv
<1>5. ChainInv'
  BY <1>1, <1>2 DEF ChainInv, Handler, arg, Working, HostType
<1>6. QED BY <1>3, <1>4, <1>5

\* finish_setup locks the game it works for, and sets it up once.
LEMMA FinalizeStep ==
    ASSUME HostInv, NEW r \in Handler, finalize_setup(r)
    PROVE  HostInv'
<1> USE DEF HostInv
<1> DEFINE c == arg(r).code
<1>1. /\ request[r] = "found" /\ host = "up" /\ state_lock[c] = NoHandler
      /\ game' = IF MayFinalize(game[c]) THEN [game EXCEPT ![c].st = "Setup"] ELSE game
      /\ \/ /\ MayFinalize(game[c]) /\ request' = [request EXCEPT ![r] = "chain"]
            /\ state_lock' = [state_lock EXCEPT ![c] = r]
         \/ request' = [request EXCEPT ![r] = "answered"] /\ UNCHANGED state_lock
      /\ UNCHANGED <<scenario, host, host_faults, created, states, by_time, db_lock, chains>>
  BY DEF finalize_setup, At, Answer, Go
<1>2. /\ game \in [Code -> Metadata] /\ state_lock \in [Code -> Handler \cup {NoHandler}]
      /\ request \in [Handler -> {"new", "found", "answered"} \cup Working]
      /\ NoHandler \notin Handler
  BY RequestFacts DEF HostType
<1>3. c \in 1..created /\ created \in 0..MaxGames + 1 /\ c \in Code
  <2>1. c \in 1..created /\ created \in 0..MaxGames + 1
    BY <1>1 DEF ChainInv, HostType
  <2>2. MaxGames \in Nat
    BY GameInitAssumption
  <2>3. QED BY <2>1, <2>2 DEF Code
<1>4. MayFinalize(game[c]) => game[c].st # "Setup" /\ chains[c] = 0
  BY <1>3 DEF MayFinalize, ChainInv
<1>5. ASSUME NEW d \in Code
      PROVE  /\ game'[d] \in Metadata /\ game'[d].envelopes = game[d].envelopes
             /\ d # c => game'[d] = game[d]
             /\ game'[d].st = game[d].st \/ (game'[d].st = "Setup" /\ d = c)
  BY <1>1, <1>2, <1>3 DEF Metadata
<1>6. game' \in [Code -> Metadata]
  <2>1. DOMAIN game' = Code /\ game' = [d \in DOMAIN game' |-> game'[d]]
    BY <1>1, <1>2
  <2>2. QED BY <2>1, <1>5
<1>7. HostType'
  <2>1. request' \in [Handler -> {"new", "found", "answered"} \cup Working]
    BY <1>1, <1>2 DEF Working
  <2>2. state_lock' \in [Code -> Handler \cup {NoHandler}]
    BY <1>1, <1>2
  <2>3. /\ scenario' = scenario /\ Handler' = Handler
        /\ UNCHANGED <<host, host_faults, created, states, by_time, db_lock, chains>>
    BY <1>1 DEF Handler
  <2>4. QED BY <1>6, <2>1, <2>2, <2>3 DEF HostType, Working
<1>8. RegistryInv'
  BY <1>1, <1>5 DEF RegistryInv
<1>9. ChainInv'
  <2>1. ASSUME NEW d \in Code
        PROVE  /\ chains'[d] <= 1
               /\ d > created' => game'[d].st # "Setup"
               /\ game'[d].st # "Setup" => chains'[d] = 0
    <3>1. /\ chains[d] <= 1
          /\ d > created => game[d].st # "Setup"
          /\ game[d].st # "Setup" => chains[d] = 0
      BY DEF ChainInv
    <3>2. ~(c > created)
      BY <1>3
    <3>3. QED BY <3>1, <3>2, <1>1, <1>5
  <2>2. ASSUME NEW q \in Handler'
        PROVE  /\ request'[q] = "found" => arg(q)'.code \in 1..created'
               /\ request'[q] \in Working =>
                     /\ host' = "up"
                     /\ arg(q)'.code \in Code /\ state_lock'[arg(q)'.code] = q
                     /\ game'[arg(q)'.code].st = "Setup"
               /\ request'[q] = "chain" => chains'[arg(q)'.code] = 0
    <3>1. arg(q)' = arg(q) /\ q \in Handler
      BY <1>1 DEF arg, Handler
    <3>2. CASE q = r
      <4>1. MayFinalize(game[c]) => \/ game'[c].st = "Setup" /\ state_lock'[c] = r
                                    \/ request'[r] = "answered"
        BY <1>1, <1>2, <1>3, <1>5
      <4>2. request'[r] \in {"chain", "answered"} /\ (request'[r] = "chain" => MayFinalize(game[c]))
        BY <1>1, <1>2
      <4>3. request'[r] = "chain" => state_lock'[c] = r /\ game'[c].st = "Setup"
        BY <1>1, <1>2, <1>3
      <4>4. QED BY <3>1, <3>2, <4>2, <4>3, <1>1, <1>3, <1>4 DEF Working
    <3>3. CASE q # r
      <4>1. request'[q] = request[q]
        BY <1>1, <1>2, <3>1, <3>3
      <4>2. request[q] \in Working => arg(q).code \in Code /\ arg(q).code # c
        BY <1>1, <1>2, <3>1 DEF ChainInv
      <4>3. request[q] \in Working => state_lock'[arg(q).code] = state_lock[arg(q).code]
                                      /\ game'[arg(q).code] = game[arg(q).code]
        BY <4>2, <1>1, <1>2, <1>5
      <4>4. QED BY <1>1, <3>1, <4>1, <4>3 DEF ChainInv
    <3>4. QED BY <3>2, <3>3
  <2>3. QED BY <2>1, <2>2 DEF ChainInv
<1>10. QED BY <1>7, <1>8, <1>9

\* The litigator does not touch the host.
LEMMA HostUntouched == LitigatorNext => UNCHANGED host_vars
<1>1. litigator_starts \/ litigator_crashes \/ scan_for_new_contracts \/ litigate_contract
      \/ instance_ends => UNCHANGED host_vars
  BY DEF litigator_starts, litigator_crashes, scan_for_new_contracts, litigate_contract,
         instance_ends
<1>2. event_log_processor_wakes \/ event_log_processor_fails \/ event_log_processor_sends
      => UNCHANGED host_vars
  BY DEF event_log_processor_wakes, event_log_processor_fails, event_log_processor_sends
<1>3. Handle => UNCHANGED host_vars
  <2>1. (Counted => UNCHANGED host_vars) /\ (Fails => UNCHANGED host_vars)
        /\ (Unread => UNCHANGED host_vars)
    BY DEF Counted, Fails, Unread
  <2>2. recv_record \/ recv_none \/ handle_rebind => UNCHANGED host_vars
    BY <2>1 DEF recv_record, recv_none, handle_rebind
  <2>3. handle_module_bytes \/ handle_create_args => UNCHANGED host_vars
    BY <2>1 DEF handle_module_bytes, handle_create_args
  <2>4. handle_synthetic_periodic => UNCHANGED host_vars
    BY <2>1 DEF handle_synthetic_periodic
  <2>5. handle_new_information => UNCHANGED host_vars
    BY <2>1 DEF handle_new_information
  <2>6. QED BY <2>2, <2>3, <2>4, <2>5 DEF Handle
<1>4. Emits \/ (\E p \in Pair : emit_fails(p) \/ emit_commit_fails(p)) => UNCHANGED host_vars
  BY DEF Emits, emit_finds, emit_posts, emit_commits, emit_ends, emit_fails, emit_commit_fails, Unread
<1>5. Extract => UNCHANGED host_vars
  BY DEF Extract, time_event_extractor, start_game, make_snapshot, handle_psbts,
         dlog_extractor, Extracted
<1>6. attestations_arrive => UNCHANGED host_vars
  BY DEF attestations_arrive, World
<1>7. HandlerFails => UNCHANGED host_vars
  BY DEF HandlerFails, module_bytes_fail, create_args_fail, new_information_fails,
         synthetic_periodic_fails, Breaks
<1>8. QED BY <1>1, <1>2, <1>3, <1>4, <1>5, <1>6, <1>7 DEF LitigatorNext

\* A handler that sets up its game goes on, or answers and unlocks it.
LEMMA SetupStep ==
    ASSUME HostInv, NEW r \in Handler,
           request[r] \in Working, host' = host, host_faults' \in Nat,
           \/ \E pc \in Working \ {"chain"} : request' = [request EXCEPT ![r] = pc] /\ UNCHANGED state_lock
           \/ Answer(r) /\ Unlock(r),
           \/ UNCHANGED chains
           \/ request[r] = "chain" /\ chains' = [chains EXCEPT ![arg(r).code] = @ + 1],
           UNCHANGED <<scenario, registry, db_lock>>
    PROVE  HostInv'
<1> USE DEF HostInv
<1> DEFINE c == arg(r).code
<1>1. UNCHANGED <<scenario, created, game, states, by_time, db_lock>>
  BY DEF registry
<1>2. /\ state_lock \in [Code -> Handler \cup {NoHandler}] /\ chains \in [Code -> Nat]
      /\ request \in [Handler -> {"new", "found", "answered"} \cup Working]
      /\ NoHandler \notin Handler
  BY RequestFacts DEF HostType
<1>3. host = "up" /\ c \in Code /\ state_lock[c] = r /\ game[c].st = "Setup"
  BY DEF ChainInv
<1>4. /\ request'[r] \in (Working \ {"chain"}) \cup {"answered"}
      /\ request' \in [Handler -> {"new", "found", "answered"} \cup Working]
      /\ \A q \in Handler : q # r => request'[q] = request[q]
  BY <1>2 DEF Answer
<1>5. /\ state_lock' \in [Code -> Handler \cup {NoHandler}]
      /\ \A d \in Code : d # c => state_lock'[d] = state_lock[d]
      /\ request'[r] # "answered" => state_lock'[c] = r
  BY <1>2, <1>3 DEF Answer, Unlock, Working
<1>6. /\ chains' \in [Code -> Nat]
      /\ \A d \in Code : d # c => chains'[d] = chains[d]
      /\ chains'[c] <= 1
  BY <1>2, <1>3 DEF ChainInv
<1>7. HostType'
  BY <1>1, <1>4, <1>5, <1>6 DEF HostType, Handler
<1>8. RegistryInv'
  BY <1>1 DEF RegistryInv
<1>9. ChainInv'
  <2>1. ASSUME NEW d \in Code
        PROVE  /\ chains'[d] <= 1
               /\ d > created' => game'[d].st # "Setup"
               /\ game'[d].st # "Setup" => chains'[d] = 0
    BY <1>1, <1>3, <1>6 DEF ChainInv
  <2>2. ASSUME NEW q \in Handler'
        PROVE  /\ request'[q] = "found" => arg(q)'.code \in 1..created'
               /\ request'[q] \in Working =>
                     /\ host' = "up"
                     /\ arg(q)'.code \in Code /\ state_lock'[arg(q)'.code] = q
                     /\ game'[arg(q)'.code].st = "Setup"
               /\ request'[q] = "chain" => chains'[arg(q)'.code] = 0
    <3>1. arg(q)' = arg(q) /\ q \in Handler
      BY <1>1 DEF arg, Handler
    <3>2. CASE q = r
      <4>1. request'[r] # "found" /\ request'[r] # "chain"
        BY <1>4 DEF Working
      <4>2. request'[r] \in Working => request'[r] # "answered"
        BY DEF Working
      <4>3. QED BY <3>1, <3>2, <4>1, <4>2, <1>1, <1>3, <1>5
    <3>3. CASE q # r
      <4>1. request'[q] = request[q]
        BY <1>4, <3>1, <3>3
      <4>2. request[q] \in Working => arg(q).code \in Code /\ arg(q).code # c
        BY <1>3, <3>1, <3>3 DEF ChainInv
      <4>3. "chain" \in Working
        BY DEF Working
      <4>4. request[q] = "chain" => chains'[arg(q).code] = 0
        BY <4>2, <4>3, <1>6, <3>1 DEF ChainInv
      <4>5. request[q] \in Working => state_lock'[arg(q).code] = q
        BY <4>2, <1>5, <3>1 DEF ChainInv
      <4>6. QED BY <1>1, <3>1, <4>1, <4>4, <4>5 DEF ChainInv
    <3>4. QED BY <3>2, <3>3
  <2>3. QED BY <2>1, <2>2 DEF ChainInv
<1>10. QED BY <1>7, <1>8, <1>9

\* The host keeps its registry, its locks and one chain for a game.
LEMMA HostNext == HostInv /\ [Next]_vars => HostInv'
<1>1. SUFFICES ASSUME HostInv, [Next]_vars PROVE HostInv'
  OBVIOUS
<1>2. CASE UNCHANGED host_vars
  <2>1. UNCHANGED <<scenario, host, host_faults, created, game, states, by_time, db_lock,
                    state_lock, request, chains, funded>>
    BY <1>2 DEF host_vars, registry, locks
  <2>2. QED BY <1>1, <2>1 DEF HostInv, HostType, RegistryInv, ChainInv, Handler, arg
<1>3. CASE host_starts
  <2>1. /\ host = "down" /\ host' \in {"up", "down"}
        /\ UNCHANGED <<scenario, host_faults, created, game, states, by_time, db_lock,
                       state_lock, request, chains>>
    BY <1>3 DEF host_starts, registry, locks
  <2>2. \A r \in Handler : request[r] \notin Working
    BY <1>1, <2>1 DEF HostInv, ChainInv
  <2>3. HostType' /\ RegistryInv'
    BY <1>1, <2>1 DEF HostInv, HostType, RegistryInv, Handler
  <2>4. ChainInv'
    BY <1>1, <2>1, <2>2 DEF HostInv, ChainInv, Handler, arg
  <2>5. QED BY <2>3, <2>4 DEF HostInv
<1>4. CASE host_crashes
  <2>1. /\ host' = "down" /\ host_faults' = host_faults - 1 /\ host_faults > 0
        /\ request' = [r \in Handler |-> IF request[r] = "new" THEN "new" ELSE "answered"]
        /\ states' = {} /\ by_time' = <<>> /\ db_lock' = NoHandler
        /\ state_lock' = [c \in Code |-> NoHandler]
        /\ UNCHANGED <<scenario, created, game, chains>>
    BY <1>4 DEF host_crashes
  <2>2. MaxGames \in Nat
    BY GameInitAssumption
  <2>3. HostType'
    BY <1>1, <2>1, <2>2 DEF HostInv, HostType, Handler
  <2>4. RegistryInv'
    BY <1>1, <2>1 DEF HostInv, RegistryInv, ToSet
  <2>5. ChainInv'
    BY <1>1, <2>1 DEF HostInv, ChainInv, Handler, arg, Working
  <2>6. QED BY <2>3, <2>4, <2>5 DEF HostInv
<1>5. ASSUME NEW r \in Handler, Handles(r) \/ finish_setup_fails(r) PROVE HostInv'
  <2>1. CASE create_new_game_instance(r)
    BY <1>1, <2>1, CreateStep
  <2>2. CASE add_player_finds(r) \/ finish_setup_finds(r)
    BY <1>1, <2>2, FindStep
  <2>3. CASE add_player(r)
    BY <1>1, <2>3, AddStep
  <2>4. CASE finalize_setup(r)
    BY <1>1, <2>4, FinalizeStep
  <2>5. host_faults \in Nat
    BY <1>1 DEF HostInv, HostType
  <2>6. CASE finish_setup_fails(r)
    <3>1. request[r] \in Working /\ host_faults' \in Nat
      BY <2>5, <2>6 DEF finish_setup_fails, Working, LogStep, FirstEvents
    <3>2. QED BY <1>1, <2>6, <3>1, SetupStep DEF finish_setup_fails
  <2>7. CASE create_new_attestation_chain(r) \/ make_contract(r)
    <3>1. /\ request[r] \in Working
          /\ \E pc \in Working \ {"chain"} : request' = [request EXCEPT ![r] = pc]
      BY <2>7 DEF create_new_attestation_chain, make_contract, At, Go, Working
    <3>2. /\ host' = host /\ host_faults' = host_faults /\ UNCHANGED <<scenario, registry, db_lock, state_lock>>
          /\ \/ UNCHANGED chains
             \/ request[r] = "chain" /\ chains' = [chains EXCEPT ![arg(r).code] = @ + 1]
      BY <2>7 DEF create_new_attestation_chain, make_contract, At, locks
    <3>3. QED BY <1>1, <2>5, <3>1, <3>2, SetupStep
  <2>8. ASSUME NEW i \in DOMAIN FirstEvents, log_event(r, i) PROVE HostInv'
    <3>1. i \in 1..4 /\ LogStep[i] \in Working /\ LogStep[i + 1] \in Working \ {"chain"}
      BY DEF FirstEvents, LogStep, Working
    <3>2. request[r] \in Working
      BY <2>8, <3>1 DEF log_event, At
    <3>3. \/ \E pc \in Working \ {"chain"} : request' = [request EXCEPT ![r] = pc] /\ UNCHANGED state_lock
          \/ Answer(r) /\ Unlock(r)
      BY <2>8, <3>1 DEF log_event, Go
    <3>4. /\ host' = host /\ host_faults' = host_faults
          /\ UNCHANGED <<scenario, registry, db_lock>> /\ UNCHANGED chains
      BY <2>8 DEF log_event
    <3>5. QED BY <1>1, <2>5, <3>2, <3>3, <3>4, SetupStep
  <2>9. CASE send_raw_transaction(r)
    <3>1. request[r] \in Working /\ host_faults' \in Nat
      BY <2>5, <2>9 DEF send_raw_transaction, At, Working
    <3>2. QED BY <1>1, <2>9, <3>1, SetupStep DEF send_raw_transaction
  <2>10. QED BY <1>5, <2>1, <2>2, <2>3, <2>4, <2>6, <2>7, <2>8, <2>9 DEF Handles
<1>6. LitigatorNext => UNCHANGED host_vars
  BY HostUntouched
<1>7. QED
  BY <1>1, <1>2, <1>3, <1>4, <1>5, <1>6 DEF Next, GameInitNext, vars

-----------------------------------------------------------------------------
(* What the sequencer delivers, of each kind.                                 *)

\* k[n] are the messages of the kind in the first n batches.
Gathered(k, kind) ==
    k[0] = <<>> /\ \A n \in 1..Len(Batches) : k[n] = k[n - 1] \o Batches[n][kind]

\* What comes first of a kind is a sequence of messages, batch by batch.
LEMMA FirstOfValues ==
    ASSUME scenario \in Scenario, NEW kind \in Kind
    PROVE  /\ Len(Batches) \in Nat
           /\ \E k \in [0..Len(Batches) -> Seq(Message)] :
                 Gathered(k, kind) /\ \A n \in 0..Len(Batches) : FirstOf(kind, n) = k[n]
<1> DEFINE D == Seq(Message)
           N == Len(Batches)
           Join(n, t) == t \o Batches[n][kind]
           Step(n, t) == IF n \in 1..N THEN Join(n, t) ELSE t
           G == [n \in Nat |-> [t \in D |-> Step(n, t)]]
           Body(k) == [n \in 0..N |-> IF n = 0 THEN <<>> ELSE Join(n, k[n - 1])]
<1>1. /\ Batches \in Seq([Kind -> Seq(Message)]) /\ N \in Nat /\ <<>> \in D
      /\ \A n \in 1..N : Batches[n][kind] \in D
  BY LitigatorAssumption DEF Batches
<1>a. N \in Nat
  BY <1>1
<1>2. G \in [Nat -> [D -> D]]
  <2>1. ASSUME NEW n \in Nat, NEW t \in D
        PROVE  Step(n, t) \in D
    <3>1. CASE n \in 1..N
      BY <1>1, <3>1, ConcatProperties
    <3>2. CASE n \notin 1..N
      BY <3>2
    <3>3. QED BY <3>1, <3>2
  <2> HIDE DEF D, Step
  <2>2. QED BY <2>1
<1>3. PICK h \in [0..N -> D] : Iterates(h, <<>>, G, N)
  <2> HIDE DEF D, N, G
  <2>1. QED BY <1>1, <1>2, Recursion
<1>4. ASSUME NEW n \in 1..N
      PROVE  h[n] = Join(n, h[n - 1])
  <2>1. n \in Nat /\ n - 1 \in 0..N
    BY <1>1
  <2>2. h[n - 1] \in D
    BY <2>1
  <2>3. h[n] = G[n][h[n - 1]]
    BY <1>3 DEF Iterates
  <2> HIDE DEF D, Join
  <2>4. h[n] = Step(n, h[n - 1])
    BY <2>1, <2>2, <2>3
  <2>5. QED BY <2>4
<1>5. h[0] = <<>>
  BY <1>3 DEF Iterates
<1>6. h = Body(h)
  <2> HIDE DEF D, N, Join
  <2>1. ASSUME NEW n \in 0..N PROVE h[n] = Body(h)[n]
    <3>1. CASE n = 0
      BY <3>1, <1>5, <1>a
    <3>2. CASE n \in 1..N
      <4>1. Body(h)[n] = Join(n, h[n - 1])
        BY <3>2, <1>a
      <4> HIDE DEF Body
      <4>2. QED BY <4>1, <3>2, <1>4
    <3>3. QED BY <3>1, <3>2, <1>a
  <2>2. Body(h) = [n \in 0..N |-> Body(h)[n]]
    OBVIOUS
  <2> HIDE DEF Body
  <2>3. QED BY <2>1, <2>2
<1> DEFINE first == CHOOSE k : k = Body(k)
<1>7. first = Body(first)
  <2> HIDE DEF Body
  <2>1. QED BY <1>6
<1>8. \A n : FirstOf(kind, n) = first[n]
  BY DEF FirstOf
<1>9. Gathered(first, kind)
  <2> HIDE DEF first
  <2>1. \A n \in 0..N : first[n] = IF n = 0 THEN <<>> ELSE Join(n, first[n - 1])
    BY <1>7
  <2>2. 0 \in 0..N /\ \A n \in 1..N : n \in 0..N /\ n # 0
    BY <1>1
  <2>3. QED BY <2>1, <2>2 DEF Gathered
<1>10. Gathered(h, kind)
  BY <1>4, <1>5 DEF Gathered
<1>11. \A n \in 0..N : first[n] = h[n]
  <2> DEFINE T == {n \in 0..N : first[n] = h[n]}
  <2> HIDE DEF first, D, G
  <2>1. 0 \in T
    BY <1>1, <1>9, <1>10 DEF Gathered
  <2>2. ASSUME NEW n \in 1..N, n - 1 \in T PROVE n \in T
    <3>1. first[n] = first[n - 1] \o Batches[n][kind] /\ h[n] = h[n - 1] \o Batches[n][kind]
      BY <1>9, <1>10 DEF Gathered
    <3>2. first[n - 1] = h[n - 1] /\ n \in 0..N
      BY <1>a, <2>2
    <3>3. QED BY <3>1, <3>2
  <2> HIDE DEF T, N
  <2>3. 0..N \subseteq T
    BY <1>1, <2>1, <2>2, InductionTo
  <2>4. QED BY <2>3 DEF T
<1>12. \A n \in 0..N : FirstOf(kind, n) = h[n]
  BY <1>8, <1>11
<1>13. QED BY <1>1, <1>10, <1>12

\* t begins with s.
Begins(s, t) == Len(s) <= Len(t) /\ \A i \in 1..Len(s) : s[i] = t[i]

\* More batches continue the sequence.
LEMMA FirstOfGrows ==
    ASSUME scenario \in Scenario, NEW kind \in Kind,
           NEW m \in 0..Len(Batches), NEW n \in m..Len(Batches)
    PROVE  /\ FirstOf(kind, m) \in Seq(Message) /\ FirstOf(kind, n) \in Seq(Message)
           /\ Begins(FirstOf(kind, m), FirstOf(kind, n))
<1> DEFINE N == Len(Batches)
<1>1. N \in Nat
  BY FirstOfValues
<1>2. PICK k \in [0..N -> Seq(Message)] :
          Gathered(k, kind) /\ \A i \in 0..N : FirstOf(kind, i) = k[i]
  BY FirstOfValues
<1> DEFINE T == {i \in 0..N : i >= m => Begins(k[m], k[i])}
<1>3. m \in Nat /\ m <= N /\ n \in 0..N /\ n >= m
  BY <1>1
<1>4. ASSUME NEW i \in 0..N PROVE k[i] \in Seq(Message)
  BY <1>2
<1>5. 0 \in T
  <2>1. 0 >= m => m = 0
    BY <1>3
  <2>2. k[0] \in Seq(Message) /\ 0 \in 0..N
    BY <1>1, <1>4
  <2>3. Begins(k[0], k[0])
    BY <2>2 DEF Begins
  <2>4. QED BY <2>1, <2>2, <2>3
<1>6. ASSUME NEW i \in 1..N, i - 1 \in T PROVE i \in T
  <2>1. i \in 0..N /\ i - 1 \in 0..N
    BY <1>1
  <2>2. SUFFICES ASSUME i >= m PROVE Begins(k[m], k[i])
    BY <2>1
  <2>3. CASE i = m
    <3>1. k[m] \in Seq(Message)
      BY <1>3, <1>4
    <3>2. QED BY <2>3, <3>1 DEF Begins
  <2>4. CASE i # m
    <3>1. Begins(k[m], k[i - 1])
      BY <1>3, <1>6, <2>1, <2>2, <2>4
    <3>2. Batches[i][kind] \in Seq(Message)
      <4>1. Batches \in Seq([Kind -> Seq(Message)])
        BY LitigatorAssumption DEF Batches
      <4>2. QED BY <4>1
    <3>3. k[i] = k[i - 1] \o Batches[i][kind]
      BY <1>2 DEF Gathered
    <3>4. k[m] \in Seq(Message) /\ k[i - 1] \in Seq(Message)
      BY <1>3, <1>4, <2>1
    <3>5. Begins(k[i - 1], k[i])
      <4>1. ASSUME NEW s \in Seq(Message), NEW t \in Seq(Message) PROVE Begins(s, s \o t)
        <5>1. /\ Len(s) \in Nat /\ Len(t) \in Nat /\ Len(s \o t) = Len(s) + Len(t)
              /\ \A j \in 1..Len(s) : (s \o t)[j] = s[j]
          BY ConcatProperties
        <5>2. QED BY <5>1 DEF Begins
      <4>2. QED BY <3>2, <3>3, <3>4, <4>1
    <3>6. Len(k[m]) \in Nat /\ Len(k[i - 1]) \in Nat /\ Len(k[i]) \in Nat
      BY <3>4, <1>4, <2>1
    <3>7. QED BY <3>1, <3>5, <3>6 DEF Begins
  <2>5. QED BY <2>3, <2>4
<1>7. 0..N \subseteq T
  <2> HIDE DEF T, N
  <2>1. QED BY <1>1, <1>5, <1>6, InductionTo
<1>8. QED BY <1>2, <1>3, <1>4, <1>7

\* A bounded set of numbers has a largest one.
LEMMA MaxExists ==
    ASSUME NEW N \in Nat, NEW S \in SUBSET (0..N), 0 \in S
    PROVE  Max(S) \in S /\ \A x \in S : x <= Max(S)
<1> DEFINE T == {n \in 0..N : \E x \in S : x <= n /\ \A y \in S : y <= n => y <= x}
<1>1. 0 \in T
  BY 0 <= 0
<1>2. ASSUME NEW n \in 1..N, n - 1 \in T PROVE n \in T
  <2>1. PICK x \in S : x <= n - 1 /\ \A y \in S : y <= n - 1 => y <= x
    BY <1>2
  <2>2. CASE n \in S
    BY <2>2
  <2>3. CASE n \notin S
    <3>1. x <= n /\ \A y \in S : y <= n => y <= x
      BY <2>1, <2>3
    <3>2. QED BY <3>1
  <2>4. QED BY <2>2, <2>3
<1>3. N \in T
  <2> HIDE DEF T
  <2>1. 0..N \subseteq T
    BY <1>1, <1>2, InductionTo
  <2>2. QED BY <2>1
<1>4. PICK x \in S : \A y \in S : y <= x
  BY <1>3
<1>5. QED BY <1>4 DEF Max

\* What is delivered of a kind is what comes first of it.
LEMMA DeliveredFacts ==
    ASSUME scenario \in Scenario, WorldInv
    PROVE  /\ Delivered \in 0..world.batches /\ Complete(Delivered)
           /\ \A n \in 0..world.batches : Complete(n) => n <= Delivered
           /\ \A kind \in Kind : /\ Of(kind) \in Seq(Message) /\ AllOf(kind) \in Seq(Message)
                                 /\ Begins(Of(kind), AllOf(kind))
<1> DEFINE S == {n \in 0..world.batches : Complete(n)}
<1>1. Len(Batches) \in Nat /\ world.batches \in 0..Len(Batches) /\ world.batches \in Nat
  <2>1. Len(Batches) \in Nat
    BY FirstOfValues DEF Kind
  <2>2. QED BY <2>1 DEF WorldInv
<1>2. 0 \in S
  BY <1>1 DEF Complete
<1>3. Max(S) \in S /\ \A x \in S : x <= Max(S)
  <2>1. S \in SUBSET (0..world.batches)
    OBVIOUS
  <2> HIDE DEF S
  <2>2. QED BY <1>1, <1>2, <2>1, MaxExists
<1>4. Delivered = Max(S)
  BY DEF Delivered
<1>5. Delivered \in 0..Len(Batches) /\ Len(Batches) \in Delivered..Len(Batches)
  BY <1>1, <1>3, <1>4
<1>6. ASSUME NEW kind \in Kind
      PROVE  /\ Of(kind) \in Seq(Message) /\ AllOf(kind) \in Seq(Message)
             /\ Begins(Of(kind), AllOf(kind))
  BY <1>5, FirstOfGrows DEF Of, AllOf
<1>7. QED BY <1>3, <1>4, <1>6

-----------------------------------------------------------------------------
(* What a step adds to the log.                                               *)

Adds(o) ==
    /\ o \in Entry /\ o.group_id \in groups
    /\ ~AlreadyExists(o.group_id, o.unique_tag)
    /\ occurrences' = Append(occurrences, o) /\ writer' = NoWriter
    /\ UNCHANGED groups

\* Who adds it: the host, a request, the clock, the dlog extractor, the snapshot of
\* the game's end, handle_psbts, and the event loop.
ByHost(o) == host = "down" /\ o = Modules
ByRequest(o, r, i) ==
    /\ At(r, LogStep[i])
    /\ o = Occurrence(arg(r).code, FirstEvents[i].ev, FirstEvents[i].tag)
ByClock(o) == o = Occurrence(key, Event("SyntheticPeriodicActions", "", ""), NoTag)
ByDlog(o, k) == o = Occurrence(key, Observation(k, "dlog"), <<"dlog", k>>)
EndResult == Of("move")[extractor.moves].result
ByGame(o) ==
    /\ extractor.snapshot = "pending"
    /\ o = Occurrence(key, Observation(EndResult, EndResult), <<"game_move", extractor.moves>>)
NextPart == extractor.received + 1
ByPsbts(o) ==
    /\ extractor.received < Len(Of("psbt")) /\ Verifies(Merged(NextPart))
    /\ o = Occurrence(key, Event("TransactionFinalized", Of("psbt")[NextPart].channel, Merged(NextPart)),
                      <<"psbts", extractor.psbt_counter + 1>>)
ByLoop(o, p) ==
    /\ writer = p /\ o = Occurrence(key, Event("EmittedPSBTVia", p[1], p[2]), SignedTag(p))
AddedBy(o) ==
    \/ ByHost(o)
    \/ \E r \in Handler : \E i \in 1..4 : ByRequest(o, r, i)
    \/ ByClock(o) \/ ByGame(o) \/ ByPsbts(o)
    \/ \E k \in scenario.equivocators : ByDlog(o, k)
    \/ \E p \in Pair : ByLoop(o, p)

\* The instance knows only a group that exists.
LEMMA InstanceFacts ==
    ASSUME InstanceInv, LogInv
    PROVE  /\ key \in Code /\ key \in Group
           /\ \/ extractor.time \/ extractor.dlog \/ extractor.psbts
              \/ extractor.game # "off" \/ extractor.snapshot # "none"
              \/ loop.pc # "off" \/ reader.pc # "off"
              => key \in groups /\ task \notin {"off", "absent", "spawned"}
<1>1. MaxGames \in Nat
  BY GameInitAssumption
<1>2. key \in Code /\ key \in Group
  BY <1>1 DEF key, Code, Group
<1>3. task \in {"off", "absent", "spawned"} \/ key \in groups
  BY DEF InstanceInv, Memory, Open
<1>4. task \in {"off", "absent", "spawned"} =>
        /\ ~extractor.time /\ ~extractor.dlog /\ ~extractor.psbts
        /\ extractor.game = "off" /\ extractor.snapshot = "none"
        /\ loop.pc = "off" /\ reader.pc = "off"
  BY DEF InstanceInv, Memory, Open, Idle, Loop, NoTasks
<1>5. QED BY <1>2, <1>3, <1>4

\* insert_occurrence adds a row, or finds one.
LEMMA InsertStep ==
    ASSUME NEW g \in Group, g \in groups, NEW e \in Ev, NEW t \in Seq(TagItem),
           insert_occurrence(g, e, t)
    PROVE  UNCHANGED <<occurrences, groups>> \/ Adds(Occurrence(g, e, t))
<1> DEFINE o == Occurrence(g, e, t)
<1>1. o \in Entry /\ o.group_id = g /\ o.unique_tag = t
  BY DEF Occurrence, Entry
<1>2. QED BY <1>1 DEF insert_occurrence, Adds

\* What finish_setup writes.
LEMMA FirstRows ==
    /\ FirstEvents[1].ev = Event("ModuleBytes", "", "") /\ FirstEvents[1].tag = <<"InitModule">>
    /\ FirstEvents[2].ev = Event("CreateArgs", "", "") /\ FirstEvents[2].tag = <<"CreateArgs">>
    /\ FirstEvents[3].ev = Event("Rebind", "", "") /\ FirstEvents[3].tag = <<"FirstBind">>
    /\ FirstEvents[4].ev = Event("TransactionFinalized", "default", "")
    /\ FirstEvents[4].tag = <<"funding_tx">>
<1> DEFINE Is(f, e, g) == f.ev = e /\ f.tag = g
<1>1. \A f, e, g : f = [ev |-> e, tag |-> g] => Is(f, e, g)
  OBVIOUS
<1> HIDE DEF Is
<1>3. /\ FirstEvents[1].ev = Event("ModuleBytes", "", "")
      /\ FirstEvents[1].tag = <<"InitModule">>
  <2>1. FirstEvents[1] = [ev |-> Event("ModuleBytes", "", ""), tag |-> <<"InitModule">>]
    BY DEF FirstEvents
  <2>2. Is(FirstEvents[1], Event("ModuleBytes", "", ""), <<"InitModule">>)
    BY ONLY <1>1, <2>1
  <2>3. QED BY <2>2 DEF Is
<1>4. /\ FirstEvents[2].ev = Event("CreateArgs", "", "")
      /\ FirstEvents[2].tag = <<"CreateArgs">>
  <2>1. FirstEvents[2] = [ev |-> Event("CreateArgs", "", ""), tag |-> <<"CreateArgs">>]
    BY DEF FirstEvents
  <2>2. Is(FirstEvents[2], Event("CreateArgs", "", ""), <<"CreateArgs">>)
    BY ONLY <1>1, <2>1
  <2>3. QED BY <2>2 DEF Is
<1>5. /\ FirstEvents[3].ev = Event("Rebind", "", "")
      /\ FirstEvents[3].tag = <<"FirstBind">>
  <2>1. FirstEvents[3] = [ev |-> Event("Rebind", "", ""), tag |-> <<"FirstBind">>]
    BY DEF FirstEvents
  <2>2. Is(FirstEvents[3], Event("Rebind", "", ""), <<"FirstBind">>)
    BY ONLY <1>1, <2>1
  <2>3. QED BY <2>2 DEF Is
<1>6. /\ FirstEvents[4].ev = Event("TransactionFinalized", "default", "")
      /\ FirstEvents[4].tag = <<"funding_tx">>
  <2>1. FirstEvents[4] = [ev |-> Event("TransactionFinalized", "default", ""), tag |-> <<"funding_tx">>]
    BY DEF FirstEvents
  <2>2. Is(FirstEvents[4], Event("TransactionFinalized", "default", ""), <<"funding_tx">>)
    BY ONLY <1>1, <2>1
  <2>3. QED BY <2>2 DEF Is
<1>7. QED BY ONLY <1>3, <1>4, <1>5, <1>6

\* The tags and events are of the types of the log.
LEMMA EventTypes ==
    /\ \A t, v, w \in Text : Event(t, v, w) \in Ev
    /\ \A k \in Text : <<"dlog", k>> \in Seq(TagItem)
    /\ \A n \in Nat : <<"game_move", n>> \in Seq(TagItem)
                      /\ <<"psbts", n>> \in Seq(TagItem)
    /\ NoTag \in Seq(TagItem) /\ module_tag \in Seq(TagItem)
    /\ \A a, b \in Text : <<"signed_psbt", a, b>> \in Seq(TagItem)
    /\ \A i \in 1..4 : FirstEvents[i].ev \in Ev /\ FirstEvents[i].tag \in Seq(TagItem)
<1>1. \A t, v, w \in Text : Event(t, v, w) \in Ev
  BY DEF Event, Ev
<1>d. \A x \in Literal : x \in Text
  BY DEF Text
<1>e. /\ "" \in Literal /\ "default" \in Literal /\ "ModuleBytes" \in Literal
      /\ "InitModule" \in Literal /\ "CreateArgs" \in Literal /\ "Rebind" \in Literal
      /\ "FirstBind" \in Literal /\ "TransactionFinalized" \in Literal /\ "funding_tx" \in Literal
      /\ "dlog" \in Literal /\ "game_move" \in Literal /\ "psbts" \in Literal
      /\ "hash" \in Literal /\ "module" \in Literal /\ "signed_psbt" \in Literal
  BY DEF Literal
<1>a. \A x \in Text : x \in TagItem
  BY DEF TagItem
<1>b. \A n \in Nat : n \in TagItem
  BY DEF TagItem
<1>c. ASSUME NEW S, NEW a \in S, NEW b \in S, NEW c \in S
      PROVE  <<a>> \in Seq(S) /\ <<a, b>> \in Seq(S) /\ <<a, b, c>> \in Seq(S)
  OBVIOUS
<1>2. ASSUME NEW k \in Text PROVE <<"dlog", k>> \in Seq(TagItem)
  <2>1. "dlog" \in TagItem /\ k \in TagItem
    BY <1>a, <1>d, <1>e
  <2>2. QED BY <2>1, <1>c
<1>3. ASSUME NEW n \in Nat PROVE <<"game_move", n>> \in Seq(TagItem)
                                 /\ <<"psbts", n>> \in Seq(TagItem)
  <2>1. "game_move" \in TagItem /\ "psbts" \in TagItem /\ n \in TagItem
    BY <1>a, <1>b, <1>d, <1>e
  <2>2. QED BY <2>1, <1>c
<1>4. NoTag \in Seq(TagItem) /\ module_tag \in Seq(TagItem)
  <2>1. "hash" \in TagItem /\ "module" \in TagItem
    BY <1>a, <1>d, <1>e
  <2>2. <<"hash", "module">> \in Seq(TagItem)
    BY <2>1, <1>c
  <2>3. QED BY <2>2 DEF NoTag, module_tag
<1>5. ASSUME NEW a \in Text, NEW b \in Text
      PROVE  <<"signed_psbt", a, b>> \in Seq(TagItem)
  <2>1. "signed_psbt" \in TagItem /\ a \in TagItem /\ b \in TagItem
    BY <1>a, <1>d, <1>e
  <2>2. QED BY <2>1, <1>c
<1>6. ASSUME NEW i \in 1..4
      PROVE  FirstEvents[i].ev \in Ev /\ FirstEvents[i].tag \in Seq(TagItem)
  <2>6. /\ "" \in Text /\ "default" \in Text /\ "ModuleBytes" \in Text
        /\ "InitModule" \in Text /\ "CreateArgs" \in Text /\ "Rebind" \in Text
        /\ "FirstBind" \in Text /\ "TransactionFinalized" \in Text /\ "funding_tx" \in Text
    BY <1>d, <1>e
  <2>7. i \in {1, 2, 3, 4}
    OBVIOUS
  <2>1. \A x \in Text : <<x>> \in Seq(TagItem)
    BY <1>a, <1>c
  <2>8. CASE i = 1
    <3>1. Event("ModuleBytes", "", "") \in Ev /\ <<"InitModule">> \in Seq(TagItem)
      BY <1>1, <2>1, <2>6
    <3>2. FirstEvents[i].ev = Event("ModuleBytes", "", "") /\ FirstEvents[i].tag = <<"InitModule">>
      BY FirstRows, <2>8
    <3>3. QED BY <3>1, <3>2
  <2>9. CASE i = 2
    <3>1. Event("CreateArgs", "", "") \in Ev /\ <<"CreateArgs">> \in Seq(TagItem)
      BY <1>1, <2>1, <2>6
    <3>2. FirstEvents[i].ev = Event("CreateArgs", "", "") /\ FirstEvents[i].tag = <<"CreateArgs">>
      BY FirstRows, <2>9
    <3>3. QED BY <3>1, <3>2
  <2>10. CASE i = 3
    <3>1. Event("Rebind", "", "") \in Ev /\ <<"FirstBind">> \in Seq(TagItem)
      BY <1>1, <2>1, <2>6
    <3>2. FirstEvents[i].ev = Event("Rebind", "", "") /\ FirstEvents[i].tag = <<"FirstBind">>
      BY FirstRows, <2>10
    <3>3. QED BY <3>1, <3>2
  <2>11. CASE i = 4
    <3>1. Event("TransactionFinalized", "default", "") \in Ev /\ <<"funding_tx">> \in Seq(TagItem)
      BY <1>1, <2>1, <2>6
    <3>2. FirstEvents[i].ev = Event("TransactionFinalized", "default", "") /\ FirstEvents[i].tag = <<"funding_tx">>
      BY FirstRows, <2>11
    <3>3. QED BY <3>1, <3>2
  <2>12. QED BY <2>7, <2>8, <2>9, <2>10, <2>11
<1>7. QED BY <1>1, <1>2, <1>3, <1>4, <1>5, <1>6

\* What the loop posts is a pair of texts, and never the mark NoWriter.
LEMMA PairType == \A p \in Pair : p[1] \in Text /\ p[2] \in Text /\ p # NoWriter
<1>1. SUFFICES ASSUME NEW p \in Pair PROVE p[1] \in Text /\ p[2] \in Text /\ p # NoWriter
  OBVIOUS
<1>2. \A api \in Points : api.schema \subseteq Text
  BY LitigatorAssumption DEF Text
<1>3. \A s \in Scenario : s.keys \subseteq Text
  BY LitigatorAssumption DEF Text
<1> DEFINE Txs == {"base"} \cup UNION {api.schema : api \in Points}
           Keys == UNION {s.keys : s \in Scenario}
<1>4. PICK a \in Txs, b \in Keys : p = <<a, b>>
  <2>1. p \in Txs \X Keys
    BY DEF Pair
  <2> HIDE DEF Txs, Keys
  <2>2. QED BY <2>1
<1>5. a \in Text /\ b \in Text
  BY <1>2, <1>3, "base" \in Literal DEF Text, Literal
<1>6. p[1] = a /\ p[2] = b /\ p # <<>>
  BY <1>4
<1>7. QED BY <1>5, <1>6 DEF NoWriter

\* The transaction of a part is that of the first part of its channel.
LEMMA MergedType ==
    ASSUME scenario \in Scenario, WorldInv, NEW n \in 1..Len(Of("psbt"))
    PROVE  Merged(n) = MergedOf(n) /\ Merged(n) \in Text
<1> DEFINE s == Of("psbt")
           t == AllOf("psbt")
           same(i) == s[i].channel = s[n].channel
           Sm(i) == t[i].channel = t[n].channel
           First(i) == same(i) /\ \A j \in 1..i - 1 : ~same(j)
           Fst(i) == Sm(i) /\ \A j \in 1..i - 1 : ~Sm(j)
<1>1. /\ s \in Seq(Message) /\ t \in Seq(Message) /\ Len(s) \in Nat
      /\ \A i \in 1..Len(s) : s[i] = t[i]
  BY DeliveredFacts DEF Kind, Begins
<1>2. Merged(n) = s[CHOOSE i \in 1..n : First(i)].tx
  BY DEF Merged
<1>3. MergedOf(n) = t[CHOOSE i \in 1..n : Fst(i)].tx
  BY DEF MergedOf
<1>4. \A i \in 1..n : i \in 1..Len(s) /\ s[i] = t[i]
  BY <1>1
<1>5. \A i \in 1..n : First(i) <=> Fst(i)
  <2> HIDE DEF s, t
  <2>1. \A i \in 1..n : same(i) <=> Sm(i)
    BY <1>1, <1>4
  <2>2. \A i \in 1..n : \A j \in 1..i - 1 : j \in 1..n
    BY <1>1
  <2> HIDE DEF same, Sm
  <2>3. QED BY <2>1, <2>2
<1>6. (CHOOSE i \in 1..n : First(i)) = (CHOOSE i \in 1..n : Fst(i))
  <2> HIDE DEF First, Fst
  <2>1. QED BY <1>5
<1>7. \E i \in 1..n : First(i)
  <2> DEFINE T == {i \in 0..n : (\E j \in 1..i : same(j)) => \E j \in 1..i : First(j)}
  <2>1. 0 \in T /\ n \in Nat
    BY <1>1
  <2>2. ASSUME NEW i \in 1..n, i - 1 \in T PROVE i \in T
    <3>1. CASE \E j \in 1..i - 1 : same(j)
      <4>1. PICK j \in 1..i - 1 : First(j)
        BY <2>2, <3>1
      <4>2. j \in 1..i
        BY <2>1
      <4>3. QED BY <4>1, <4>2, <2>1
    <3>2. CASE ~\E j \in 1..i - 1 : same(j)
      <4>1. same(i) => First(i)
        BY <3>2
      <4>2. i \in 1..i /\ i \in 0..n
        BY <2>1
      <4>3. \A j \in 1..i : j = i \/ j \in 1..i - 1
        BY <2>1
      <4> HIDE DEF same, First
      <4>4. (\E j \in 1..i : same(j)) => \E j \in 1..i : First(j)
        BY <4>1, <4>2, <4>3, <3>2
      <4>5. QED BY <4>4, <4>2
    <3>3. QED BY <3>1, <3>2
  <2>3. n \in T
    <3> HIDE DEF T
    <3>1. 0..n \subseteq T
      BY <2>1, <2>2, InductionTo
    <3>2. QED BY <2>1, <3>1
  <2>4. n \in 1..n /\ same(n)
    BY <1>1
  <2> HIDE DEF same, First
  <2>5. QED BY <2>3, <2>4
<1> DEFINE c == CHOOSE i \in 1..n : First(i)
<1>8. c \in 1..n
  <2> HIDE DEF First
  <2>1. QED BY <1>7
<1>9. Merged(n) = s[c].tx /\ MergedOf(n) = t[c].tx
  BY <1>2, <1>3, <1>6
<1> HIDE DEF c, s, t
<1>10. s[c] = t[c] /\ s[c] \in Message
  BY <1>1, <1>4, <1>8
<1>11. QED BY <1>9, <1>10 DEF Message, Text

\* The loop's handlers read the log only.
LEMMA HandleReads == Handle => UNCHANGED <<host_vars, evlog, lives, task, reader, extractor,
                                           world, budget, torn>>
<1> DEFINE U == UNCHANGED <<host_vars, evlog, lives, task, reader, extractor, world, budget, torn>>
<1>1. (Counted => U) /\ (Fails => U) /\ (Unread => U)
  BY DEF Counted, Fails, Unread
<1> HIDE DEF U
<1>2. recv_record \/ recv_none \/ handle_rebind => U
  BY <1>1 DEF recv_record, recv_none, handle_rebind
<1>3. handle_module_bytes \/ handle_create_args => U
  BY <1>1 DEF handle_module_bytes, handle_create_args
<1>4. handle_synthetic_periodic => U
  BY <1>1 DEF handle_synthetic_periodic
<1>5. handle_new_information => U
  BY <1>1 DEF handle_new_information
<1>6. Handle => U
  BY <1>2, <1>3, <1>4, <1>5 DEF Handle
<1>7. QED BY <1>6 DEF U

\* A handler that breaks off ends the loop and leaves the rest as it was.
LEMMA FailureBreaks == HandlerFails => Breaks
BY DEF HandlerFails, module_bytes_fail, create_args_fail, new_information_fails,
       synthetic_periodic_fails

\* The steps of the litigator that leave the rows of the log alone.
Quiet ==
    \/ litigator_starts \/ litigator_crashes \/ scan_for_new_contracts \/ litigate_contract
    \/ instance_ends \/ event_log_processor_wakes \/ event_log_processor_fails
    \/ event_log_processor_sends \/ Handle \/ HandlerFails
    \/ \E p \in Pair : emit_finds(p) \/ emit_posts(p) \/ emit_fails(p) \/ emit_commit_fails(p)
    \/ emit_ends \/ start_game \/ attestations_arrive

\* The quiet steps do not touch the log.
LEMMA QuietSteps == Quiet => UNCHANGED <<groups, occurrences>>
<1>1. litigator_starts \/ litigator_crashes \/ scan_for_new_contracts \/ litigate_contract
      \/ instance_ends => UNCHANGED <<groups, occurrences>>
  BY DEF litigator_starts, litigator_crashes, scan_for_new_contracts, litigate_contract,
         instance_ends, evlog
<1>2. event_log_processor_wakes \/ event_log_processor_fails \/ event_log_processor_sends
      => UNCHANGED <<groups, occurrences>>
  BY DEF event_log_processor_wakes, event_log_processor_fails, event_log_processor_sends, evlog
<1>3. Handle => UNCHANGED <<groups, occurrences>>
  BY HandleReads DEF evlog
<1>4. ASSUME NEW p \in Pair
      PROVE  emit_finds(p) \/ emit_posts(p) \/ emit_fails(p) \/ emit_commit_fails(p)
             => UNCHANGED <<groups, occurrences>>
  BY DEF emit_finds, emit_posts, emit_fails, emit_commit_fails, AfterFailure, evlog
<1>5. emit_ends \/ start_game \/ attestations_arrive => UNCHANGED <<groups, occurrences>>
  BY DEF emit_ends, Unread, start_game, attestations_arrive, World, evlog
<1>6. HandlerFails => UNCHANGED <<groups, occurrences>>
  BY FailureBreaks DEF Breaks, evlog
<1>7. QED BY <1>1, <1>2, <1>3, <1>4, <1>5, <1>6 DEF Quiet

\* Every other step of the litigator writes.
LEMMA LitigatorSteps ==
    LitigatorNext => \/ Quiet \/ time_event_extractor \/ make_snapshot \/ handle_psbts
                     \/ \E k \in scenario.equivocators : dlog_extractor(k)
                     \/ \E p \in Pair : emit_commits(p)
BY DEF LitigatorNext, Quiet, Emits, Extract

\* A step leaves the rows of the log alone, or adds one.
LEMMA HostWrites ==
    ASSUME HostInv, LogInv, GameInitNext
    PROVE  \/ occurrences' = occurrences
              /\ (groups' = groups \/ \E g \in Group : groups' = groups \cup {g})
           \/ \E o \in Entry : Adds(o) /\ AddedBy(o)
<1> DEFINE Quietly == occurrences' = occurrences
                      /\ (groups' = groups \/ \E g \in Group : groups' = groups \cup {g})
           Writes == \E o \in Entry : Adds(o) /\ AddedBy(o)
<1>1. CASE host_starts
  <2>1. ModuleRepo \in Group /\ module_tag \in Seq(TagItem)
    BY EventTypes DEF Group
  <2>2. Event("ModuleRepo", "", "") \in Ev
    BY EventTypes, "ModuleRepo" \in Literal, "" \in Literal DEF Text, Literal
  <2>3. CASE ModuleRepo \in groups /\ insert_occurrence(ModuleRepo, Event("ModuleRepo", "", ""), module_tag)
    <3>1. UNCHANGED <<occurrences, groups>> \/ Adds(Modules)
      BY <2>1, <2>2, <2>3, InsertStep DEF Modules
    <3>2. host = "down"
      BY <1>1 DEF host_starts
    <3>3. Adds(Modules) => Modules \in Entry /\ AddedBy(Modules)
      BY <3>2 DEF Adds, AddedBy, ByHost
    <3>4. QED BY <3>1, <3>3
  <2>4. CASE get_or_insert_group(ModuleRepo)
    BY <2>1, <2>4 DEF get_or_insert_group
  <2>5. QED BY <1>1, <2>3, <2>4 DEF host_starts
<1>2. CASE host_crashes
  BY <1>2 DEF host_crashes, evlog
<1>3. ASSUME NEW r \in Handler, Handles(r) \/ finish_setup_fails(r)
      PROVE  Quietly \/ Writes
  <2>1. request[r] \in Working => arg(r).code \in Code /\ arg(r).code \in Group
    BY <1>3 DEF HostInv, ChainInv, Group
  <2>2. CASE \/ create_new_game_instance(r) \/ add_player_finds(r) \/ add_player(r)
             \/ finish_setup_finds(r) \/ finalize_setup(r)
    BY <2>2 DEF create_new_game_instance, add_player_finds, add_player, finish_setup_finds,
                finalize_setup, evlog
  <2>3. CASE \/ create_new_attestation_chain(r) \/ send_raw_transaction(r)
             \/ finish_setup_fails(r)
    BY <2>3 DEF create_new_attestation_chain, send_raw_transaction, finish_setup_fails, evlog
  <2>4. CASE make_contract(r)
    <3>1. request[r] \in Working
      BY <2>4 DEF make_contract, At, Working
    <3>2. QED BY <2>1, <2>4, <3>1 DEF make_contract, get_or_insert_group
  <2>5. ASSUME NEW i \in DOMAIN FirstEvents, log_event(r, i) PROVE Quietly \/ Writes
    <3>1. i \in 1..4 /\ LogStep[i] \in {"log1", "log2", "log3", "log4"}
      BY DEF FirstEvents, LogStep
    <3>2. At(r, LogStep[i])
      BY <2>5 DEF log_event
    <3>3. request[r] = LogStep[i] /\ request[r] \in Working
      BY <3>1, <3>2 DEF At, Working
    <3>4. arg(r).code \in groups /\ arg(r).code \in Group
      BY <2>1, <3>1, <3>3 DEF LogInv
    <3> DEFINE o == Occurrence(arg(r).code, FirstEvents[i].ev, FirstEvents[i].tag)
    <3>5. FirstEvents[i].ev \in Ev /\ FirstEvents[i].tag \in Seq(TagItem)
      BY <3>1, EventTypes
    <3>6. insert_occurrence(arg(r).code, FirstEvents[i].ev, FirstEvents[i].tag)
      BY <2>5 DEF log_event
    <3>7. UNCHANGED <<occurrences, groups>> \/ Adds(o)
      BY <3>4, <3>5, <3>6, InsertStep
    <3>8. ByRequest(o, r, i)
      BY <3>2 DEF ByRequest
    <3>9. Adds(o) => o \in Entry /\ AddedBy(o)
      BY <3>1, <3>8 DEF Adds, AddedBy
    <3>10. QED BY <3>7, <3>9
  <2>6. QED BY <1>3, <2>2, <2>3, <2>4, <2>5 DEF Handles
<1>4. QED BY <1>1, <1>2, <1>3 DEF GameInitNext

\* A step leaves the log alone, or adds to it one row of those that AddedBy names.
LEMMA LogSteps ==
    ASSUME IndInv, [Next]_vars
    PROVE  \/ occurrences' = occurrences
              /\ (groups' = groups \/ \E g \in Group : groups' = groups \cup {g})
           \/ \E o \in Entry : Adds(o) /\ AddedBy(o)
<1> DEFINE Writes == \E o \in Entry : Adds(o) /\ AddedBy(o)
           Same == UNCHANGED <<occurrences, groups>>
<1>1. HostInv /\ LogInv /\ InstanceInv /\ WorldInv /\ scenario \in Scenario /\ PsbtsInv /\ GameInv
  BY DEF IndInv, HostInv, HostType
<1>2. key \in Group
  BY <1>1, InstanceFacts
<1>3. CASE UNCHANGED vars
  BY <1>3 DEF vars, evlog
<1>4. CASE GameInitNext
  BY <1>1, <1>4, HostWrites
<1>5. CASE Quiet
  BY <1>5, QuietSteps
<1>6. "SyntheticPeriodicActions" \in Text /\ "" \in Text /\ "dlog" \in Text
      /\ "NewRecompileTriggeringObservation" \in Text /\ "TransactionFinalized" \in Text
      /\ "EmittedPSBTVia" \in Text
  BY DEF Text, Literal
<1>7. ASSUME time_event_extractor PROVE Same \/ Writes
  <2> DEFINE e == Event("SyntheticPeriodicActions", "", "")
  <2>1. key \in groups
    BY <1>1, <1>7, InstanceFacts DEF time_event_extractor
  <2>2. e \in Ev /\ NoTag \in Seq(TagItem) /\ insert_occurrence(key, e, NoTag)
    BY <1>6, <1>7, EventTypes DEF time_event_extractor
  <2>3. Same \/ Adds(Occurrence(key, e, NoTag))
    BY <1>2, <2>1, <2>2, InsertStep
  <2>4. AddedBy(Occurrence(key, e, NoTag))
    BY DEF AddedBy, ByClock
  <2>5. QED BY <2>3, <2>4 DEF Adds
<1>8. ASSUME NEW k \in scenario.equivocators, dlog_extractor(k)
      PROVE  Same \/ Writes
  <2>1. key \in groups
    BY <1>1, <1>8, InstanceFacts DEF dlog_extractor
  <2>2. k \in Text
    BY <1>1, LitigatorAssumption DEF Text
  <2>3. Observation(k, "dlog") \in Ev /\ <<"dlog", k>> \in Seq(TagItem)
    BY <1>6, <2>2, EventTypes DEF Observation
  <2>4. insert_occurrence(key, Observation(k, "dlog"), <<"dlog", k>>)
    BY <1>8 DEF dlog_extractor
  <2>5. Same \/ Adds(Occurrence(key, Observation(k, "dlog"), <<"dlog", k>>))
    BY <1>2, <2>1, <2>3, <2>4, InsertStep
  <2>6. AddedBy(Occurrence(key, Observation(k, "dlog"), <<"dlog", k>>))
    BY DEF AddedBy, ByDlog
  <2>7. QED BY <2>5, <2>6 DEF Adds
<1>9. ASSUME make_snapshot PROVE Same \/ Writes
  <2>1. key \in groups /\ extractor.snapshot = "pending"
    BY <1>1, <1>9, InstanceFacts DEF make_snapshot
  <2>2. EndResult \in Text /\ extractor.moves \in Nat
    <3>1. extractor.moves \in 0..Len(Of("move")) /\ extractor.moves \in DOMAIN AllOf("move")
      BY <1>1, <2>1 DEF GameInv, EndsAt
    <3>2. Of("move") \in Seq(Message) /\ Len(Of("move")) \in Nat /\ AllOf("move") \in Seq(Message)
      BY <1>1, DeliveredFacts DEF Kind
    <3>3. extractor.moves \in 1..Len(Of("move"))
      BY <3>1, <3>2
    <3>4. Of("move")[extractor.moves] \in Message
      BY <3>2, <3>3
    <3>5. EndResult \in {"", "win", "lose"}
      BY <3>4 DEF EndResult, Message
    <3>6. EndResult \in Text
      BY <3>5 DEF Text, Literal
    <3>7. extractor.moves \in Nat
      BY <3>2, <3>3
    <3>8. QED BY <3>6, <3>7
  <2> DEFINE t == <<"game_move", extractor.moves>>
             e == Observation(EndResult, EndResult)
  <2>3. e \in Ev /\ t \in Seq(TagItem)
    BY <1>6, <2>2, EventTypes DEF Observation
  <2>4. insert_occurrence(key, e, t) \/ Same
    BY <1>9 DEF make_snapshot, EndResult, SnapshotTag, evlog
  <2>5. Same \/ Adds(Occurrence(key, e, t))
    BY <1>2, <2>1, <2>3, <2>4, InsertStep
  <2>6. AddedBy(Occurrence(key, e, t))
    BY <2>1 DEF AddedBy, ByGame
  <2>7. QED BY <2>5, <2>6 DEF Adds
<1>10. ASSUME handle_psbts PROVE Same \/ Writes
  <2> DEFINE n == extractor.received + 1
             t == <<"psbts", extractor.psbt_counter + 1>>
             e == Event("TransactionFinalized", Of("psbt")[n].channel, Merged(n))
  <2>1. key \in groups /\ extractor.received < Len(Of("psbt"))
    BY <1>1, <1>10, InstanceFacts DEF handle_psbts
  <2>2. Of("psbt") \in Seq(Message) /\ Len(Of("psbt")) \in Nat /\ extractor.received \in Nat
    BY <1>1, DeliveredFacts DEF Kind, PsbtsInv
  <2>3. n \in 1..Len(Of("psbt"))
    BY <2>1, <2>2
  <2>4. Of("psbt")[n].channel \in Text /\ Merged(n) \in Text
    <3>1. Of("psbt")[n] \in Message
      BY <2>2, <2>3
    <3>2. QED BY <1>1, <2>3, <3>1, MergedType DEF Message, Text
  <2>5. extractor.psbt_counter \in Nat
    <3>1. IsFiniteSet(1..extractor.received)
      BY <2>2, FS_Interval
    <3>2. IsFiniteSet(Finalized(extractor.received))
      BY <3>1, FS_Subset DEF Finalized
    <3>3. QED BY <1>1, <3>2, FS_CardinalityType DEF PsbtsInv
  <2>6. e \in Ev /\ t \in Seq(TagItem)
    <3>1. e \in Ev
      BY <1>6, <2>4, EventTypes
    <3>2. extractor.psbt_counter + 1 \in Nat
      BY <2>5
    <3>3. QED BY <3>1, <3>2, EventTypes
  <2>7. Same \/ (Verifies(Merged(n)) /\ insert_occurrence(key, e, t))
    BY <1>10 DEF handle_psbts, evlog
  <2>8. Same \/ (Verifies(Merged(n)) /\ Adds(Occurrence(key, e, t)))
    BY <1>2, <2>1, <2>6, <2>7, InsertStep
  <2>9. Verifies(Merged(n)) => AddedBy(Occurrence(key, e, t))
    BY <2>1 DEF AddedBy, ByPsbts, NextPart
  <2>10. QED BY <2>8, <2>9 DEF Adds
<1>11. ASSUME NEW p \in Pair, emit_commits(p) PROVE Writes
  <2> DEFINE o == Occurrence(key, Event("EmittedPSBTVia", p[1], p[2]), SignedTag(p))
  <2>1. writer = p /\ writer' = NoWriter /\ occurrences' = Append(occurrences, o)
        /\ UNCHANGED groups
    BY <1>11 DEF emit_commits
  <2>2. p[1] \in Text /\ p[2] \in Text /\ p # NoWriter
    BY PairType
  <2>3. loop.pc = "emit" /\ ~Emitted(p)
    BY <1>1, <2>1, <2>2 DEF InstanceInv, Memory, Open
  <2>4. key \in groups
    BY <1>1, <2>3, InstanceFacts
  <2>5. Event("EmittedPSBTVia", p[1], p[2]) \in Ev /\ SignedTag(p) \in Seq(TagItem)
    BY <1>6, <2>2, EventTypes DEF SignedTag
  <2>6. o \in Entry /\ o.group_id = key /\ o.unique_tag = SignedTag(p)
    BY <1>2, <2>5 DEF Occurrence, Entry
  <2>7. Adds(o)
    BY <2>1, <2>3, <2>4, <2>6 DEF Adds, Emitted
  <2>8. AddedBy(o)
    BY <2>1 DEF AddedBy, ByLoop
  <2>9. QED BY <2>6, <2>7, <2>8
<1>12. LitigatorNext => Same \/ Writes
  <2>1. Quiet => Same
    BY QuietSteps
  <2> HIDE DEF Same, Writes
  <2>2. QED BY <2>1, <1>7, <1>8, <1>9, <1>10, <1>11, LitigatorSteps
<1>13. QED BY <1>3, <1>4, <1>12 DEF Next

-----------------------------------------------------------------------------
(* The log.                                                                   *)

\* A sequence and one more.
LEMMA Appended ==
    ASSUME NEW R, NEW s \in Seq(R), NEW o \in R, NEW t, t = Append(s, o)
    PROVE  /\ Len(s) \in Nat /\ DOMAIN s = 1..Len(s) /\ t \in Seq(R)
           /\ Len(t) = Len(s) + 1 /\ DOMAIN t = 1..Len(s) + 1
           /\ Len(s) + 1 \in 1..Len(s) + 1 /\ t[Len(s) + 1] = o
           /\ \A i \in 1..Len(s) : t[i] = s[i] /\ i \in 1..Len(s) + 1
           /\ \A i \in 1..Len(s) + 1 : i = Len(s) + 1 \/ i \in 1..Len(s)
<1>1. Len(s) \in Nat /\ DOMAIN s = 1..Len(s)
  BY LenProperties
<1>2. t \in Seq(R) /\ Len(t) = Len(s) + 1 /\ t[Len(s) + 1] = o
      /\ \A i \in 1..Len(s) : t[i] = s[i]
  BY <1>1, AppendProperties
<1>3. DOMAIN t = 1..Len(s) + 1
  BY <1>2, LenProperties
<1> DEFINE N == Len(s)
<1>4. \A n \in Nat : /\ n + 1 \in 1..n + 1
                     /\ \A i \in 1..n : i \in 1..n + 1
                     /\ \A i \in 1..n + 1 : i = n + 1 \/ i \in 1..n
  OBVIOUS
<1>5. QED BY <1>1, <1>2, <1>3, <1>4

\* What is in the log stays there.
Grows ==
    /\ occurrences' \in Seq(Entry) /\ Len(occurrences) <= Len(occurrences')
    /\ \A i \in 1..Len(occurrences) : occurrences'[i] = occurrences[i]

\* The log grows at its end: a tag that it has it keeps.
LEMMA LogGrows ==
    ASSUME occurrences \in Seq(Entry),
           occurrences' = occurrences \/ \E o \in Entry : occurrences' = Append(occurrences, o)
    PROVE  /\ Grows
           /\ \A g, t : AlreadyExists(g, t) => AlreadyExists(g, t)'
           /\ \A t : \A i \in 1..Len(occurrences) : Earlier(i, t) => Earlier(i, t)'
<1>1. Grows
  <2>1. CASE occurrences' = occurrences
    BY <2>1 DEF Grows
  <2>2. ASSUME NEW o \in Entry, occurrences' = Append(occurrences, o) PROVE Grows
    BY <2>2, AppendProperties DEF Grows
  <2>3. QED BY <2>1, <2>2
<1>2. \A i \in 1..Len(occurrences) : i \in DOMAIN occurrences /\ i \in DOMAIN occurrences'
                                     /\ occurrences'[i] = occurrences[i]
  BY <1>1, LenProperties DEF Grows
<1>3. DOMAIN occurrences = 1..Len(occurrences)
  BY LenProperties
<1>4. ASSUME NEW g, NEW t, AlreadyExists(g, t) PROVE AlreadyExists(g, t)'
  <2>1. t # NoTag
    BY <1>4 DEF AlreadyExists
  <2>2. PICK i \in 1..Len(occurrences) : occurrences[i].group_id = g /\ occurrences[i].unique_tag = t
    BY <1>3, <1>4 DEF AlreadyExists
  <2>3. i \in DOMAIN occurrences' /\ occurrences'[i].group_id = g /\ occurrences'[i].unique_tag = t
    BY <1>2, <2>2
  <2>4. QED BY <2>1, <2>3 DEF AlreadyExists
<1>5. ASSUME NEW i \in 1..Len(occurrences), NEW t, Earlier(i, t) PROVE Earlier(i, t)'
  <2>1. \A j \in 1..i - 1 : j \in 1..Len(occurrences)
    BY LenProperties
  <2>2. QED BY <1>2, <1>5, <2>1 DEF Earlier, Row
<1>6. QED BY <1>1, <1>4, <1>5

\* Only the setup of a game writes its first events.
Starts(o) == o.ev.t \in {"ModuleBytes", "CreateArgs", "Rebind"}
             \/ o.unique_tag \in {<<"InitModule">>, <<"CreateArgs">>}

\* A group's first events come from finish_setup alone.
LEMMA RequestStarts ==
    ASSUME NEW o, AddedBy(o), Starts(o)
    PROVE  \E r \in Handler : \E i \in 1..3 : ByRequest(o, r, i)
<1> DEFINE Other(t) == t \notin {"ModuleBytes", "CreateArgs", "Rebind"}
           NotFirst(tag) == tag \notin {<<"InitModule">>, <<"CreateArgs">>}
<1>1. /\ Other("SyntheticPeriodicActions") /\ Other("NewRecompileTriggeringObservation")
      /\ Other("TransactionFinalized") /\ Other("EmittedPSBTVia") /\ Other("ModuleRepo")
  OBVIOUS
<1>2. /\ NotFirst(<<>>) /\ NotFirst(<<"funding_tx">>)
      /\ \A a, b, c : NotFirst(<<a, b>>) /\ NotFirst(<<a, b, c>>)
  OBVIOUS
<1>3. \A g, t, v, w, tag :
         Other(t) /\ NotFirst(tag) => ~Starts(Occurrence(g, Event(t, v, w), tag))
  BY DEF Starts, Occurrence, Event
<1> HIDE DEF Other, NotFirst
<1>4. ~ByHost(o)
  BY <1>1, <1>2, <1>3 DEF ByHost, Modules, module_tag
<1>5. ~ByClock(o) /\ ~ByGame(o) /\ ~ByPsbts(o)
  BY <1>1, <1>2, <1>3 DEF ByClock, ByGame, ByPsbts, Observation, NoTag
<1>6. \A k \in scenario.equivocators : ~ByDlog(o, k)
  BY <1>1, <1>2, <1>3 DEF ByDlog, Observation
<1>7. \A p \in Pair : ~ByLoop(o, p)
  BY <1>1, <1>2, <1>3 DEF ByLoop, SignedTag
<1>8. \A r \in Handler : ~ByRequest(o, r, 4)
  BY <1>1, <1>2, <1>3, FirstRows DEF ByRequest
<1>9. \A i \in 1..4 : i = 4 \/ i \in 1..3
  OBVIOUS
<1>10. QED BY <1>4, <1>5, <1>6, <1>7, <1>8, <1>9 DEF AddedBy

\* The rows of the log stay unique by their tags, and in their groups.
LEMMA RowsUnique ==
    ASSUME LogInv, NEW o \in Entry, Adds(o)
    PROVE  EventLogTypeOK'
<1> DEFINE N == Len(occurrences) + 1
<1>1. /\ occurrences \in Seq(Entry) /\ DOMAIN occurrences = 1..Len(occurrences)
      /\ Len(occurrences) \in Nat /\ groups' = groups /\ o.group_id \in groups
  BY LenProperties DEF LogInv, Adds
<1>2. /\ DOMAIN occurrences' = 1..N /\ occurrences'[N] = o
      /\ \A i \in 1..Len(occurrences) : occurrences'[i] = occurrences[i]
  <2>1. occurrences' = Append(occurrences, o)
    BY DEF Adds
  <2>2. QED BY <1>1, <2>1, AppendProperties, LenProperties
<1>3. \A i \in 1..N : i = N \/ i \in 1..Len(occurrences)
  BY <1>1
<1>4. \A i \in DOMAIN occurrences' : occurrences'[i].group_id \in groups'
  BY <1>1, <1>2, <1>3 DEF LogInv, EventLogTypeOK
<1>5. \A i \in 1..Len(occurrences) :
         ~(/\ occurrences[i].group_id = o.group_id
           /\ occurrences[i].unique_tag = o.unique_tag
           /\ o.unique_tag # NoTag)
  BY <1>1 DEF Adds, AlreadyExists
<1>6. ASSUME NEW i \in 1..N, NEW j \in 1..N,
             occurrences'[i].group_id = occurrences'[j].group_id,
             occurrences'[i].unique_tag = occurrences'[j].unique_tag,
             occurrences'[i].unique_tag # NoTag
      PROVE  i = j
  <2>1. CASE i \in 1..Len(occurrences) /\ j \in 1..Len(occurrences)
    BY <1>1, <1>2, <1>6, <2>1 DEF LogInv, EventLogTypeOK
  <2>2. CASE i = N /\ j \in 1..Len(occurrences)
    BY <1>2, <1>5, <1>6, <2>2
  <2>3. CASE j = N /\ i \in 1..Len(occurrences)
    BY <1>2, <1>5, <1>6, <2>3
  <2>4. QED BY <1>3, <2>1, <2>2, <2>3
<1>7. QED BY <1>2, <1>4, <1>6 DEF EventLogTypeOK

\* insert_occurrence leaves its row, if it has a tag, in the log.
LEMMA Inserted ==
    ASSUME occurrences \in Seq(Entry), NEW g \in Group, NEW e \in Ev, NEW t \in Seq(TagItem),
           t # NoTag, insert_occurrence(g, e, t)
    PROVE  AlreadyExists(g, t)'
<1>1. CASE AlreadyExists(g, t)
  BY <1>1 DEF insert_occurrence, AlreadyExists
<1>2. CASE ~AlreadyExists(g, t)
  <2> DEFINE o == Occurrence(g, e, t)
             N == Len(occurrences) + 1
  <2>1. o \in Entry /\ o.group_id = g /\ o.unique_tag = t
    BY DEF Occurrence, Entry
  <2>2. occurrences' = Append(occurrences, o)
    BY <1>2 DEF insert_occurrence
  <2>3. N \in DOMAIN occurrences' /\ occurrences'[N] = o
    BY <2>1, <2>2, AppendProperties, LenProperties
  <2>4. QED BY <2>1, <2>3 DEF AlreadyExists
<1>3. QED BY <1>1, <1>2

\* What the host's handlers have reached, they have written.
LEMMA RequestsWritten ==
    ASSUME HostInv, LogInv, [Next]_vars, groups \subseteq groups',
           \A g, t : AlreadyExists(g, t) => AlreadyExists(g, t)'
    PROVE  /\ host' = "up" => AlreadyExists(ModuleRepo, module_tag)'
           /\ \A r \in Handler :
                 /\ request'[r] \in {"log1", "log2", "log3", "log4"} => arg(r).code \in groups'
                 /\ request'[r] = "log2" => AlreadyExists(arg(r).code, <<"InitModule">>)'
                 /\ request'[r] = "log3" => AlreadyExists(arg(r).code, <<"CreateArgs">>)'
<1> DEFINE Good(r) ==
        /\ request'[r] \in {"log1", "log2", "log3", "log4"} => arg(r).code \in groups'
        /\ request'[r] = "log2" => AlreadyExists(arg(r).code, <<"InitModule">>)'
        /\ request'[r] = "log3" => AlreadyExists(arg(r).code, <<"CreateArgs">>)'
<1>1. scenario \in Scenario /\ request \in [Handler -> {"new", "found", "answered"} \cup Working]
  BY DEF HostInv, HostType
<1>2. \A r \in Handler : scenario' = scenario => arg(r)' = arg(r)
  BY DEF arg
<1>3. ASSUME NEW r \in Handler, scenario' = scenario, request'[r] = request[r]
      PROVE  Good(r)
  BY <1>2, <1>3 DEF LogInv
<1>4. CASE UNCHANGED host_vars
  <2>1. UNCHANGED <<scenario, host, request>>
    BY <1>4 DEF host_vars
  <2>2. \A r \in Handler : Good(r)
    BY <1>3, <2>1
  <2> HIDE DEF Good
  <2>3. host' = "up" => AlreadyExists(ModuleRepo, module_tag)'
    BY <2>1 DEF LogInv
  <2> USE DEF Good
  <2>4. QED BY <2>2, <2>3
<1>5. CASE host_starts
  <2>1. UNCHANGED <<scenario, request>> /\ host = "down"
    BY <1>5 DEF host_starts
  <2>2. \A r \in Handler : Good(r)
    BY <1>3, <2>1
  <2>3. ModuleRepo \in Group /\ Event("ModuleRepo", "", "") \in Ev /\ module_tag \in Seq(TagItem)
    BY EventTypes, "ModuleRepo" \in Literal, "" \in Literal DEF Text, Literal, Group
  <2>4. module_tag # NoTag
    BY DEF module_tag, NoTag
  <2>5. occurrences \in Seq(Entry)
    BY DEF LogInv
  <2>6. insert_occurrence(ModuleRepo, Event("ModuleRepo", "", ""), module_tag)
        => AlreadyExists(ModuleRepo, module_tag)'
    BY <2>3, <2>4, <2>5, Inserted
  <2> HIDE DEF Good
  <2>7. host' = "up" => AlreadyExists(ModuleRepo, module_tag)'
    BY <1>5, <2>1, <2>6 DEF host_starts
  <2> USE DEF Good
  <2>8. QED BY <2>2, <2>7
<1>6. CASE host_crashes
  <2>1. host' = "down" /\ \A r \in Handler : request'[r] \in {"new", "answered"}
    BY <1>6 DEF host_crashes
  <2>2. QED BY <2>1
<1>7. ASSUME NEW r \in Handler, Handles(r) \/ finish_setup_fails(r)
      PROVE  host' = host /\ \A q \in Handler : Good(q)
  <2> DEFINE c == arg(r).code
  <2>1. host' = host /\ scenario' = scenario
    BY <1>7 DEF Handles, create_new_game_instance, add_player_finds, add_player,
                finish_setup_finds, finalize_setup, create_new_attestation_chain, make_contract,
                log_event, send_raw_transaction, finish_setup_fails
  <2>2. \A q \in Handler : q # r => request'[q] = request[q]
    BY <1>1, <1>7 DEF Handles, create_new_game_instance, add_player_finds, add_player,
                finish_setup_finds, finalize_setup, create_new_attestation_chain, make_contract,
                log_event, send_raw_transaction, finish_setup_fails, Answer, Go
  <2>3. Good(r)
    <3>1. CASE \/ create_new_game_instance(r) \/ add_player_finds(r) \/ add_player(r)
               \/ finish_setup_finds(r) \/ finalize_setup(r)
               \/ create_new_attestation_chain(r) \/ send_raw_transaction(r)
               \/ finish_setup_fails(r)
      <4>1. request'[r] \in {"answered", "found", "chain", "contract"}
        BY <1>1, <3>1 DEF create_new_game_instance, add_player_finds, add_player,
               finish_setup_finds, finalize_setup, create_new_attestation_chain,
               send_raw_transaction, finish_setup_fails, Answer, Go
      <4>2. QED BY <4>1
    <3>2. CASE make_contract(r)
      <4>1. request'[r] = "log1" /\ groups' = groups \cup {c}
        BY <1>1, <3>2 DEF make_contract, Go, get_or_insert_group
      <4>2. QED BY <4>1
    <3>3. ASSUME NEW i \in DOMAIN FirstEvents, log_event(r, i) PROVE Good(r)
      <4>1. i \in 1..4
        BY DEF FirstEvents
      <4>2. /\ request[r] = LogStep[i] /\ request'[r] \in {LogStep[i + 1], "answered"}
            /\ insert_occurrence(c, FirstEvents[i].ev, FirstEvents[i].tag)
        BY <1>1, <3>3 DEF log_event, At, Go, Answer
      <4>3. /\ i = 1 => request'[r] \in {"log2", "answered"}
            /\ i = 2 => request'[r] \in {"log3", "answered"}
            /\ i = 3 => request'[r] \in {"log4", "answered"}
            /\ i = 4 => request'[r] \in {"send", "answered"}
            /\ request[r] \in {"log1", "log2", "log3", "log4"}
        BY <4>1, <4>2 DEF LogStep
      <4>4. c \in groups /\ c \in Group
        BY <4>3 DEF LogInv
      <4>5. FirstEvents[i].ev \in Ev /\ FirstEvents[i].tag \in Seq(TagItem)
        BY <4>1, EventTypes
      <4>6. occurrences \in Seq(Entry)
        BY DEF LogInv
      <4>7. FirstEvents[i].tag # NoTag => AlreadyExists(c, FirstEvents[i].tag)'
        <5>1. ASSUME NEW g \in Group, NEW t \in Seq(TagItem), g = c, t = FirstEvents[i].tag,
                     t # NoTag
              PROVE  AlreadyExists(g, t)'
          BY <4>2, <4>5, <4>6, <5>1, Inserted
        <5>2. c' = c
          BY <1>2, <2>1
        <5>3. \A g \in Group, t \in Seq(TagItem) :
                 g = c /\ t = FirstEvents[i].tag /\ t # NoTag => AlreadyExists(g, t)'
          BY <5>1
        <5>4. QED BY <4>4, <4>5, <5>2, <5>3 DEF AlreadyExists
      <4>8. /\ FirstEvents[1].tag = <<"InitModule">> /\ FirstEvents[2].tag = <<"CreateArgs">>
            /\ <<"InitModule">> # NoTag /\ <<"CreateArgs">> # NoTag
        BY FirstRows DEF NoTag
      <4>9. CASE i = 1
        BY <1>2, <2>1, <4>3, <4>4, <4>7, <4>8, <4>9
      <4>10. CASE i = 2
        BY <1>2, <2>1, <4>3, <4>4, <4>7, <4>8, <4>10
      <4>11. CASE i \in {3, 4}
        BY <4>3, <4>4, <4>11
      <4>12. i \in {1, 2, 3, 4}
        BY <4>1
      <4>13. QED BY <4>9, <4>10, <4>11, <4>12
    <3>4. QED BY <1>7, <3>1, <3>2, <3>3 DEF Handles
  <2>4. QED BY <1>3, <2>1, <2>2, <2>3
<1>8. CASE \E r \in Handler : Handles(r) \/ finish_setup_fails(r)
  <2>1. host' = host /\ \A q \in Handler : Good(q)
    BY <1>7, <1>8
  <2> HIDE DEF Good
  <2>2. host' = "up" => AlreadyExists(ModuleRepo, module_tag)'
    BY <2>1 DEF LogInv
  <2> USE DEF Good
  <2>3. QED BY <2>1, <2>2
<1>9. [Next]_vars => \/ UNCHANGED host_vars \/ host_starts \/ host_crashes
                     \/ \E r \in Handler : Handles(r) \/ finish_setup_fails(r)
  BY HostUntouched DEF Next, GameInitNext, vars
<1>10. QED BY <1>4, <1>5, <1>6, <1>8, <1>9

\* Nothing changes what is to happen.
LEMMA ScenarioStays == [Next]_vars => scenario' = scenario
<1>1. UNCHANGED host_vars => scenario' = scenario
  BY DEF host_vars
<1>2. UNCHANGED vars => scenario' = scenario
  BY <1>1 DEF vars
<1>3. LitigatorNext => scenario' = scenario
  BY <1>1, HostUntouched
<1>4. host_starts \/ host_crashes => scenario' = scenario
  BY DEF host_starts, host_crashes
<1>5. ASSUME NEW r \in Handler, Handles(r) \/ finish_setup_fails(r) PROVE scenario' = scenario
  BY <1>5 DEF Handles, create_new_game_instance, add_player_finds, add_player,
              finish_setup_finds, finalize_setup, create_new_attestation_chain, make_contract,
              log_event, send_raw_transaction, finish_setup_fails
<1>6. QED BY <1>2, <1>3, <1>4, <1>5 DEF Next, GameInitNext

\* A first event of a game is written after the one before it.
LEMMA StartsInOrder ==
    ASSUME HostInv, LogInv, NEW o \in Entry, Adds(o), AddedBy(o)
    PROVE  /\ o.unique_tag = <<"InitModule">> => o.ev.t = "ModuleBytes"
           /\ o.unique_tag = <<"CreateArgs">> <=> o.ev.t = "CreateArgs"
           /\ o.ev.t = "ModuleBytes" => AlreadyExists(ModuleRepo, module_tag)
           /\ o.ev.t = "CreateArgs" =>
                 \E j \in 1..Len(occurrences) : /\ occurrences[j].group_id = o.group_id
                                                /\ Row(j).t = "ModuleBytes"
           /\ o.ev.t = "Rebind" =>
                 \E j \in 1..Len(occurrences) : /\ occurrences[j].group_id = o.group_id
                                                /\ Row(j).t = "CreateArgs"
<1>1. CASE ~Starts(o)
  BY <1>1 DEF Starts
<1>2. CASE Starts(o)
  <2>1. PICK r \in Handler, i \in 1..3 : ByRequest(o, r, i)
    BY <1>2, RequestStarts
  <2>2. /\ host = "up" /\ request[r] = LogStep[i]
        /\ o.group_id = arg(r).code /\ o.ev = FirstEvents[i].ev
        /\ o.unique_tag = FirstEvents[i].tag
    BY <2>1 DEF ByRequest, At, Occurrence
  <2>3. \A e, t, v, w : e = Event(t, v, w) => e.t = t
    BY DEF Event
  <2>4. occurrences \in Seq(Entry) /\ DOMAIN occurrences = 1..Len(occurrences)
    BY LenProperties DEF LogInv
  <2>5. CASE i = 1
    <3>1. o.ev.t = "ModuleBytes" /\ o.unique_tag = <<"InitModule">>
      <4>1. o.ev = FirstEvents[1].ev /\ o.unique_tag = FirstEvents[1].tag
        BY <2>2, <2>5
      <4>2. o.ev = Event("ModuleBytes", "", "") /\ o.unique_tag = <<"InitModule">>
        BY <4>1, FirstRows
      <4>3. QED BY <2>3, <4>2
    <3>2. AlreadyExists(ModuleRepo, module_tag)
      BY <2>2 DEF LogInv
    <3>3. QED BY <3>1, <3>2
  <2>6. CASE i = 2
    <3>1. o.ev.t = "CreateArgs" /\ o.unique_tag = <<"CreateArgs">>
      <4>1. o.ev = FirstEvents[2].ev /\ o.unique_tag = FirstEvents[2].tag
        BY <2>2, <2>6
      <4>2. o.ev = Event("CreateArgs", "", "") /\ o.unique_tag = <<"CreateArgs">>
        BY <4>1, FirstRows
      <4>3. QED BY <2>3, <4>2
    <3>2. AlreadyExists(o.group_id, <<"InitModule">>)
      BY <2>2, <2>6 DEF LogInv, LogStep
    <3>3. \E j \in 1..Len(occurrences) : /\ occurrences[j].group_id = o.group_id
                                         /\ Row(j).t = "ModuleBytes"
      BY <2>4, <3>2 DEF AlreadyExists, LogInv
    <3>4. QED BY <3>1, <3>3
  <2>7. CASE i = 3
    <3>1. o.ev.t = "Rebind" /\ o.unique_tag = <<"FirstBind">>
      <4>1. o.ev = FirstEvents[3].ev /\ o.unique_tag = FirstEvents[3].tag
        BY <2>2, <2>7
      <4>2. o.ev = Event("Rebind", "", "") /\ o.unique_tag = <<"FirstBind">>
        BY <4>1, FirstRows
      <4>3. QED BY <2>3, <4>2
    <3>2. AlreadyExists(o.group_id, <<"CreateArgs">>)
      BY <2>2, <2>7 DEF LogInv, LogStep
    <3>3. \E j \in 1..Len(occurrences) : /\ occurrences[j].group_id = o.group_id
                                         /\ Row(j).t = "CreateArgs"
      BY <2>4, <3>2 DEF AlreadyExists, LogInv
    <3>4. QED BY <3>1, <3>3
  <2>8. i \in {1, 2, 3}
    OBVIOUS
  <2>9. QED BY <2>5, <2>6, <2>7, <2>8
<1>3. QED BY <1>1, <1>2

\* The log: tags stay unique and say what their rows are, and the first events of a group
\* come in the order in which finish_setup writes them.
LEMMA LogNext == IndInv /\ [Next]_vars => LogInv'
<1>1. SUFFICES ASSUME IndInv, [Next]_vars PROVE LogInv'
  OBVIOUS
<1>2. HostInv /\ LogInv /\ occurrences \in Seq(Entry) /\ Len(occurrences) \in Nat
      /\ DOMAIN occurrences = 1..Len(occurrences)
  BY <1>1, LenProperties DEF IndInv, HostInv, LogInv
<1>3. \/ occurrences' = occurrences
      \/ \E o \in Entry : Adds(o) /\ AddedBy(o)
  BY <1>1, LogSteps
<1>4. groups \subseteq groups' /\ groups' \subseteq Group
  BY <1>1, <1>2, LogSteps DEF Adds, LogInv
<1>5. /\ Grows
      /\ \A g, t : AlreadyExists(g, t) => AlreadyExists(g, t)'
      /\ \A t : \A i \in 1..Len(occurrences) : Earlier(i, t) => Earlier(i, t)'
  BY <1>2, <1>3, LogGrows DEF Adds
<1>6. EventLogTypeOK'
  <2>1. CASE occurrences' = occurrences
    <3>1. EventLogTypeOK
      BY <1>2 DEF LogInv
    <3>2. QED BY <1>4, <2>1, <3>1 DEF EventLogTypeOK
  <2>2. QED BY <1>2, <1>3, <2>1, RowsUnique
<1>7. ASSUME NEW i \in DOMAIN occurrences'
      PROVE  /\ occurrences'[i].unique_tag = <<"InitModule">> => occurrences'[i].ev.t = "ModuleBytes"
             /\ occurrences'[i].unique_tag = <<"CreateArgs">> <=> occurrences'[i].ev.t = "CreateArgs"
             /\ occurrences'[i].ev.t = "ModuleBytes" => AlreadyExists(ModuleRepo, module_tag)'
             /\ occurrences'[i].ev.t = "CreateArgs" => Earlier(i, "ModuleBytes")'
             /\ occurrences'[i].ev.t = "Rebind" => Earlier(i, "CreateArgs")'
  <2>1. CASE i \in 1..Len(occurrences)
    <3>1. occurrences'[i] = occurrences[i] /\ i \in DOMAIN occurrences
      BY <1>2, <1>5, <2>1 DEF Grows
    <3>2. QED BY <1>2, <1>5, <2>1, <3>1 DEF LogInv, Row
  <2>2. CASE i \notin 1..Len(occurrences)
    <3>1. PICK o \in Entry : Adds(o) /\ AddedBy(o)
      BY <1>2, <1>3, <2>2
    <3>2. i = Len(occurrences) + 1 /\ occurrences'[i] = o
          /\ \A j \in 1..Len(occurrences) : occurrences'[j] = occurrences[j]
      <4>1. occurrences' = Append(occurrences, o)
        BY <3>1 DEF Adds
      <4>2. QED BY <1>2, <2>2, <4>1, AppendProperties, LenProperties
    <3>3. ASSUME NEW j \in 1..Len(occurrences), NEW t,
                 occurrences[j].group_id = o.group_id, Row(j).t = t
          PROVE  Earlier(i, t)'
      <4>1. j \in 1..i - 1
        BY <1>2, <3>2
      <4>2. occurrences'[j].group_id = occurrences'[i].group_id /\ occurrences'[j].ev.t = t
        BY <3>2, <3>3 DEF Row
      <4>3. QED BY <4>1, <4>2 DEF Earlier, Row
    <3>4. QED BY <1>2, <1>5, <3>1, <3>2, <3>3, StartsInOrder
  <2>3. QED BY <2>1, <2>2
<1>8. /\ host' = "up" => AlreadyExists(ModuleRepo, module_tag)'
      /\ \A r \in Handler :
            /\ request'[r] \in {"log1", "log2", "log3", "log4"} => arg(r).code \in groups'
            /\ request'[r] = "log2" => AlreadyExists(arg(r).code, <<"InitModule">>)'
            /\ request'[r] = "log3" => AlreadyExists(arg(r).code, <<"CreateArgs">>)'
  BY <1>1, <1>2, <1>4, <1>5, RequestsWritten
<1>9. scenario' = scenario
  BY <1>1, ScenarioStays
<1>10. Handler' = Handler /\ \A r \in Handler : arg(r)' = arg(r)
  BY <1>9 DEF Handler, arg
<1>11. \A r \in Handler' :
          /\ request'[r] \in {"log1", "log2", "log3", "log4"} => arg(r)'.code \in groups'
          /\ request'[r] = "log2" => AlreadyExists(arg(r).code, <<"InitModule">>)'
          /\ request'[r] = "log3" => AlreadyExists(arg(r).code, <<"CreateArgs">>)'
  BY <1>8, <1>10
<1>12. occurrences' \in Seq(Entry)
  BY <1>5 DEF Grows
<1>13. \A i \in DOMAIN occurrences' : Row(i)' = occurrences'[i].ev
  BY DEF Row
<1>14. QED BY <1>4, <1>6, <1>7, <1>8, <1>11, <1>12, <1>13 DEF LogInv

-----------------------------------------------------------------------------
(* The instance in memory, and what it posts.                                 *)

\* Only the loop opens a transaction and commits it, or fails to; a crash drops it.
LEMMA WriterSteps ==
    ASSUME WorldInv, [Next]_vars
    PROVE  \/ /\ writer' = writer /\ (occurrences' = occurrences \/ writer = NoWriter)
              /\ torn' = torn /\ world'.posted = world.posted
           \/ \E p \in Pair : emit_posts(p) \/ emit_commits(p) \/ emit_commit_fails(p)
           \/ litigator_crashes
<1> DEFINE Calm == /\ writer' = writer /\ (occurrences' = occurrences \/ writer = NoWriter)
                   /\ torn' = torn /\ world'.posted = world.posted
<1>1. CASE UNCHANGED vars
  BY <1>1 DEF vars, evlog, lit_vars
<1>2. CASE GameInitNext /\ UNCHANGED lit_vars
  <2>1. UNCHANGED <<torn, world>>
    BY <1>2 DEF lit_vars
  <2>2. \A g, e, t : insert_occurrence(g, e, t) => writer = NoWriter /\ writer' = writer
    BY DEF insert_occurrence
  <2>3. \A g : get_or_insert_group(g) => occurrences' = occurrences /\ writer' = writer
    BY DEF get_or_insert_group
  <2>4. host_starts => writer' = writer /\ (occurrences' = occurrences \/ writer = NoWriter)
    BY <2>2, <2>3 DEF host_starts
  <2>5. host_crashes => writer' = writer /\ occurrences' = occurrences
    BY DEF host_crashes, evlog
  <2>6. ASSUME NEW r \in Handler, Handles(r) \/ finish_setup_fails(r)
        PROVE  writer' = writer /\ (occurrences' = occurrences \/ writer = NoWriter)
    <3>1. CASE \/ create_new_game_instance(r) \/ add_player_finds(r) \/ add_player(r)
               \/ finish_setup_finds(r) \/ finalize_setup(r) \/ finish_setup_fails(r)
               \/ create_new_attestation_chain(r) \/ send_raw_transaction(r)
      BY <3>1 DEF create_new_game_instance, add_player_finds, add_player, finish_setup_finds,
                  finalize_setup, finish_setup_fails, create_new_attestation_chain,
                  send_raw_transaction, evlog
    <3>2. CASE make_contract(r)
      BY <2>3, <3>2 DEF make_contract
    <3>3. ASSUME NEW i \in DOMAIN FirstEvents, log_event(r, i)
          PROVE  writer' = writer /\ (occurrences' = occurrences \/ writer = NoWriter)
      BY <2>2, <3>3 DEF log_event
    <3>4. QED BY <2>6, <3>1, <3>2, <3>3 DEF Handles
  <2>7. QED BY <1>2, <2>1, <2>4, <2>5, <2>6 DEF GameInitNext
<1>3. litigator_starts \/ scan_for_new_contracts \/ litigate_contract \/ instance_ends => Calm
  BY DEF litigator_starts, scan_for_new_contracts, litigate_contract, instance_ends, evlog
<1>4. event_log_processor_wakes \/ event_log_processor_fails \/ event_log_processor_sends => Calm
  BY DEF event_log_processor_wakes, event_log_processor_fails, event_log_processor_sends, evlog
<1>5. Handle => Calm
  BY HandleReads DEF evlog
<1>6. ASSUME NEW p \in Pair PROVE emit_finds(p) \/ emit_fails(p) => Calm
  BY DEF emit_finds, emit_fails, AfterFailure, evlog
<1>7. emit_ends => Calm
  BY DEF emit_ends, Unread, evlog
<1>8. Extracted => torn' = torn /\ world'.posted = world.posted
  BY DEF Extracted
<1>9. \A g, e, t : insert_occurrence(g, e, t) => writer = NoWriter /\ writer' = writer
  BY DEF insert_occurrence
<1>10. time_event_extractor => Calm
  BY <1>8, <1>9 DEF time_event_extractor
<1>11. ASSUME NEW k PROVE dlog_extractor(k) => Calm
  BY <1>8, <1>9 DEF dlog_extractor
<1>12. start_game => Calm
  BY <1>8 DEF start_game, evlog
<1>13. make_snapshot => Calm
  <2>1. make_snapshot => Extracted /\ (UNCHANGED evlog \/ \E g, e, t : insert_occurrence(g, e, t))
    BY DEF make_snapshot
  <2>2. QED BY <1>8, <1>9, <2>1 DEF evlog
<1>14. handle_psbts => Calm
  <2>1. handle_psbts => Extracted /\ (UNCHANGED evlog \/ \E g, e, t : insert_occurrence(g, e, t))
    BY DEF handle_psbts
  <2>2. QED BY <1>8, <1>9, <2>1 DEF evlog
<1>15. attestations_arrive => Calm
  <2>1. world \in [genesis : BOOLEAN, batches : Nat, have : SUBSET Message,
                   equivocated : SUBSET STRING, posted : [Pair -> Nat]]
    BY DEF WorldInv
  <2> DEFINE Kept(w) == w.posted = world.posted
  <2>2. \A x : /\ Kept([world EXCEPT !.genesis = x]) /\ Kept([world EXCEPT !.batches = x])
               /\ Kept([world EXCEPT !.have = x]) /\ Kept([world EXCEPT !.equivocated = x])
    BY <2>1
  <2>3. \A w : World(w) => /\ world' = w /\ torn' = torn /\ writer' = writer
                           /\ occurrences' = occurrences
    BY DEF World, evlog
  <2>4. attestations_arrive =>
          \E w : World(w) /\ \E x : \/ w = [world EXCEPT !.genesis = x]
                                    \/ w = [world EXCEPT !.batches = x]
                                    \/ w = [world EXCEPT !.have = x]
                                    \/ w = [world EXCEPT !.equivocated = x]
    BY DEF attestations_arrive
  <2>5. ASSUME attestations_arrive PROVE Calm
    <3>1. PICK w : World(w) /\ \E x : \/ w = [world EXCEPT !.genesis = x]
                                     \/ w = [world EXCEPT !.batches = x]
                                     \/ w = [world EXCEPT !.have = x]
                                     \/ w = [world EXCEPT !.equivocated = x]
      BY <2>4, <2>5
    <3>2. PICK x : \/ w = [world EXCEPT !.genesis = x] \/ w = [world EXCEPT !.batches = x]
                   \/ w = [world EXCEPT !.have = x] \/ w = [world EXCEPT !.equivocated = x]
      BY <3>1
    <3>3. Kept(w)
      <4> HIDE DEF Kept
      <4>1. QED BY ONLY <2>2, <3>2
    <3>4. QED BY <2>3, <3>1, <3>3
  <2>6. QED BY <2>5
<1>16. HandlerFails => Calm
  BY FailureBreaks DEF Breaks, evlog
<1> HIDE DEF Calm
<1>17. CASE LitigatorNext
  BY <1>3, <1>4, <1>5, <1>6, <1>7, <1>10, <1>11, <1>12, <1>13, <1>14, <1>15, <1>16, <1>17
     DEF LitigatorNext, Emits, Extract, Calm
<1>18. QED BY <1>1, <1>2, <1>17 DEF Next

\* The tag of what was posted is on nothing else.
LEMMA SignedByLoop ==
    ASSUME NEW o, AddedBy(o), NEW p, o.unique_tag = SignedTag(p), \A q \in Pair : ~ByLoop(o, q)
    PROVE  FALSE
<1> DEFINE Tag(t) == t # SignedTag(p)
<1>1. /\ Tag(<<>>)
      /\ \A a : Tag(<<a>>) /\ \A b : Tag(<<a, b>>)
  BY DEF SignedTag
<1>0. /\ Tag(module_tag) /\ Tag(NoTag)
      /\ \A n : Tag(<<"game_move", n>>) /\ Tag(<<"psbts", n>>) /\ Tag(<<"dlog", n>>)
  BY DEF SignedTag, module_tag, NoTag
<1>2. \A r, g, e, t : r = Occurrence(g, e, t) => r.unique_tag = t
  BY DEF Occurrence
<1> HIDE DEF Tag
<1>3. \A i \in 1..4 : Tag(FirstEvents[i].tag)
  <2>1. Tag(FirstEvents[1].tag) /\ Tag(FirstEvents[2].tag)
    BY <1>1, FirstRows
  <2>2. Tag(FirstEvents[3].tag) /\ Tag(FirstEvents[4].tag)
    BY <1>1, FirstRows
  <2>3. \A i \in 1..4 : i \in {1, 2, 3, 4}
    OBVIOUS
  <2>4. QED BY <2>1, <2>2, <2>3
<1>4. ByHost(o) => Tag(o.unique_tag)
  BY <1>0, <1>2 DEF ByHost, Modules
<1>5. ASSUME NEW r \in Handler, NEW i \in 1..4, ByRequest(o, r, i) PROVE Tag(o.unique_tag)
  BY <1>2, <1>3, <1>5 DEF ByRequest
<1>6. ByClock(o) \/ ByGame(o) \/ ByPsbts(o) => Tag(o.unique_tag)
  <2>1. ByClock(o) => o.unique_tag = NoTag
    BY <1>2 DEF ByClock
  <2>2. ByGame(o) => \E n : o.unique_tag = <<"game_move", n>>
    BY <1>2 DEF ByGame
  <2>3. ByPsbts(o) => \E n : o.unique_tag = <<"psbts", n>>
    BY <1>2 DEF ByPsbts
  <2>4. QED BY ONLY <1>0, <2>1, <2>2, <2>3
<1>7. \A k \in scenario.equivocators : ByDlog(o, k) => Tag(o.unique_tag)
  <2>1. \A k \in scenario.equivocators : ByDlog(o, k) => o.unique_tag = <<"dlog", k>>
    BY <1>2 DEF ByDlog
  <2>2. QED BY ONLY <1>0, <2>1
<1>8. Tag(o.unique_tag)
  BY <1>4, <1>5, <1>6, <1>7 DEF AddedBy
<1>9. QED BY <1>8 DEF Tag

\* Only the loop records what was posted.
LEMMA EmittedStays ==
    ASSUME IndInv, [Next]_vars, occurrences' = occurrences \/ writer = NoWriter, NEW p \in Pair
    PROVE  Emitted(p)' = Emitted(p)
<1>1. CASE occurrences' = occurrences
  BY <1>1 DEF Emitted, AlreadyExists, SignedTag, key
<1>2. ASSUME writer = NoWriter, NEW o \in Entry, Adds(o), AddedBy(o)
      PROVE  Emitted(p)' = Emitted(p)
  <2>1. \A q \in Pair : ~ByLoop(o, q)
    BY <1>2, PairType DEF ByLoop
  <2>2. o.unique_tag # SignedTag(p)
    BY <1>2, <2>1, SignedByLoop
  <2>3. /\ occurrences \in Seq(Entry) /\ DOMAIN occurrences = 1..Len(occurrences)
        /\ Len(occurrences) \in Nat /\ occurrences' = Append(occurrences, o)
    BY <1>2, LenProperties DEF IndInv, LogInv, Adds
  <2>4. /\ DOMAIN occurrences' = 1..Len(occurrences) + 1
        /\ occurrences'[Len(occurrences) + 1] = o
        /\ \A i \in 1..Len(occurrences) : occurrences'[i] = occurrences[i]
    BY <1>2, <2>3, Appended
  <2>5. \A i \in 1..Len(occurrences) + 1 : i = Len(occurrences) + 1 \/ i \in 1..Len(occurrences)
    BY <1>2, <2>3, Appended
  <2>6. \A i \in 1..Len(occurrences) : i \in 1..Len(occurrences) + 1
    BY <1>2, <2>3, Appended
  <2>7. SignedTag(p)' = SignedTag(p) /\ key' = key
    BY DEF SignedTag, key
  <2>8. (\E i \in DOMAIN occurrences' : /\ occurrences'[i].group_id = key
                                        /\ occurrences'[i].unique_tag = SignedTag(p))
        <=> \E i \in DOMAIN occurrences : /\ occurrences[i].group_id = key
                                          /\ occurrences[i].unique_tag = SignedTag(p)
    BY <2>2, <2>3, <2>4, <2>5, <2>6
  <2>9. QED BY <2>7, <2>8 DEF Emitted, AlreadyExists
<1>3. QED BY <1>1, <1>2, LogSteps

\* The posts and the log: process_psbt_fail_ok commits both, or a crash or its second
\* commit tears them.
LEMMA EmissionsNext == IndInv /\ [Next]_vars => EmissionsInv'
<1>1. SUFFICES ASSUME IndInv, [Next]_vars PROVE EmissionsInv'
  OBVIOUS
<1>2. /\ EmissionsInv /\ InstanceInv /\ WorldInv /\ LogInv
      /\ torn \in [Pair -> Nat] /\ world.posted \in [Pair -> Nat]
      /\ \A p \in Pair : world.posted[p] =
            torn[p] + (IF Emitted(p) THEN 1 ELSE 0) + (IF writer = p THEN 1 ELSE 0)
  BY <1>1 DEF IndInv, EmissionsInv, EmissionsAgree
<1>3. SUFFICES /\ torn' \in [Pair -> Nat] /\ world'.posted \in [Pair -> Nat]
               /\ \A p \in Pair : world'.posted[p] =
                     torn'[p] + (IF Emitted(p)' THEN 1 ELSE 0) + (IF writer' = p THEN 1 ELSE 0)
  BY DEF EmissionsInv, EmissionsAgree
<1>4. CASE /\ writer' = writer /\ (occurrences' = occurrences \/ writer = NoWriter)
           /\ torn' = torn /\ world'.posted = world.posted
  BY <1>1, <1>2, <1>4, EmittedStays
<1>5. ASSUME NEW q \in Pair, emit_posts(q)
      PROVE  /\ torn' \in [Pair -> Nat] /\ world'.posted \in [Pair -> Nat]
             /\ \A p \in Pair : world'.posted[p] =
                   torn'[p] + (IF Emitted(p)' THEN 1 ELSE 0) + (IF writer' = p THEN 1 ELSE 0)
  <2>1. /\ writer = NoWriter /\ ~Emitted(q) /\ writer' = q /\ torn' = torn
        /\ occurrences' = occurrences
        /\ world' = [world EXCEPT !.posted[q] = @ + 1]
    BY <1>5 DEF emit_posts
  <2>2. world \in [genesis : BOOLEAN, batches : Nat, have : SUBSET Message,
                   equivocated : SUBSET STRING, posted : [Pair -> Nat]]
    BY <1>2 DEF WorldInv
  <2>3. world'.posted = [world.posted EXCEPT ![q] = @ + 1]
    BY <2>1, <2>2
  <2>4. \A p \in Pair : Emitted(p)' = Emitted(p) /\ p # NoWriter
    BY <1>1, <2>1, EmittedStays, PairType
  <2>5. ASSUME NEW p \in Pair
        PROVE  world'.posted[p] =
                   torn'[p] + (IF Emitted(p)' THEN 1 ELSE 0) + (IF writer' = p THEN 1 ELSE 0)
    BY <1>2, <2>1, <2>3, <2>4
  <2>6. QED BY <1>2, <2>1, <2>3, <2>5
<1>6. ASSUME NEW q \in Pair, emit_commits(q)
      PROVE  /\ torn' \in [Pair -> Nat] /\ world'.posted \in [Pair -> Nat]
             /\ \A p \in Pair : world'.posted[p] =
                   torn'[p] + (IF Emitted(p)' THEN 1 ELSE 0) + (IF writer' = p THEN 1 ELSE 0)
  <2> DEFINE o == Occurrence(key, Event("EmittedPSBTVia", q[1], q[2]), SignedTag(q))
             N == Len(occurrences)
  <2>1. /\ writer = q /\ writer' = NoWriter /\ torn' = torn /\ world' = world
        /\ occurrences' = Append(occurrences, o)
    BY <1>6 DEF emit_commits
  <2>2. \A p \in Pair : p # NoWriter
    BY PairType
  <2>3. ~Emitted(q)
    BY <1>2, <2>1, <2>2 DEF InstanceInv, Memory, Open
  <2>4. o.group_id = key /\ o.unique_tag = SignedTag(q)
    BY DEF Occurrence
  <2>5. /\ DOMAIN occurrences = 1..N /\ N \in Nat
        /\ DOMAIN occurrences' = 1..N + 1 /\ occurrences'[N + 1] = o
        /\ \A i \in 1..N : occurrences'[i] = occurrences[i] /\ i \in 1..N + 1
        /\ \A i \in 1..N + 1 : i = N + 1 \/ i \in 1..N
    <3>1. o \in Entry
      <4>1. q[1] \in Text /\ q[2] \in Text /\ "EmittedPSBTVia" \in Text
        BY PairType DEF Text, Literal
      <4>2. Event("EmittedPSBTVia", q[1], q[2]) \in Ev /\ SignedTag(q) \in Seq(TagItem)
        BY <4>1, EventTypes DEF SignedTag
      <4>3. key \in Group
        BY <1>2, InstanceFacts
      <4>4. QED BY <4>2, <4>3 DEF Occurrence, Entry
    <3>2. occurrences \in Seq(Entry) /\ DOMAIN occurrences = 1..N /\ N \in Nat
      BY <1>2, LenProperties DEF LogInv
    <3>3. QED BY <2>1, <3>1, <3>2, AppendProperties, LenProperties
  <2>6. \A p \in Pair : SignedTag(p)' = SignedTag(p) /\ SignedTag(p) # NoTag
                        /\ (p # q => SignedTag(p) # SignedTag(q))
    <3>1. \A p \in Pair : p = <<p[1], p[2]>>
      BY DEF Pair
    <3>2. \A p \in Pair : SignedTag(p) = SignedTag(q) => p[1] = q[1] /\ p[2] = q[2]
      BY DEF SignedTag
    <3>3. \A p \in Pair : SignedTag(p) # NoTag /\ SignedTag(p)' = SignedTag(p)
      BY DEF SignedTag, NoTag
    <3>4. QED BY <3>1, <3>2, <3>3
  <2>7. ASSUME NEW p \in Pair PROVE Emitted(p)' <=> (Emitted(p) \/ p = q)
    <3>1. Emitted(p)' <=> \E i \in 1..N + 1 : /\ occurrences'[i].group_id = key
                                              /\ occurrences'[i].unique_tag = SignedTag(p)
      BY <2>5, <2>6 DEF Emitted, AlreadyExists, key
    <3>2. Emitted(p) <=> \E i \in 1..N : /\ occurrences[i].group_id = key
                                         /\ occurrences[i].unique_tag = SignedTag(p)
      BY <2>5, <2>6 DEF Emitted, AlreadyExists
    <3>3. CASE p = q
      <4>1. N + 1 \in 1..N + 1
        BY <2>5
      <4>2. QED BY <2>4, <2>5, <3>1, <3>3, <4>1
    <3>4. CASE p # q
      <4>1. o.unique_tag # SignedTag(p)
        BY <2>4, <2>6, <3>4
      <4>2. QED BY <2>5, <3>1, <3>2, <3>4, <4>1
    <3>5. QED BY <3>3, <3>4
  <2>8. ASSUME NEW p \in Pair
        PROVE  world'.posted[p] =
                   torn'[p] + (IF Emitted(p)' THEN 1 ELSE 0) + (IF writer' = p THEN 1 ELSE 0)
    <3>1. writer' # p /\ world'.posted[p] = world.posted[p] /\ torn'[p] = torn[p]
      BY <2>1, <2>2
    <3>2. torn[p] \in Nat
      BY <1>2
    <3>3. CASE p = q
      BY <1>2, <2>1, <2>3, <2>7, <3>1, <3>2, <3>3
    <3>4. CASE p # q
      BY <1>2, <2>1, <2>7, <3>1, <3>2, <3>4
    <3>5. QED BY <3>3, <3>4
  <2>9. QED BY <1>2, <2>1, <2>8
<1>7. CASE litigator_crashes
  <2>1. /\ writer' = NoWriter /\ occurrences' = occurrences /\ world' = world
        /\ torn' = IF writer = NoWriter THEN torn ELSE [torn EXCEPT ![writer] = @ + 1]
    BY <1>7 DEF litigator_crashes
  <2>2. writer \in Pair \cup {NoWriter}
    BY <1>2 DEF InstanceInv, Memory, Open
  <2>3. \A p \in Pair : Emitted(p)' = Emitted(p) /\ p # NoWriter
    BY <1>1, <2>1, EmittedStays, PairType
  <2>4. /\ torn' \in [Pair -> Nat]
        /\ \A p \in Pair : torn'[p] = torn[p] + (IF writer = p THEN 1 ELSE 0)
    BY <1>2, <2>1, <2>2, <2>3
  <2>5. ASSUME NEW p \in Pair
        PROVE  world'.posted[p] =
                   torn'[p] + (IF Emitted(p)' THEN 1 ELSE 0) + (IF writer' = p THEN 1 ELSE 0)
    <3>1. torn[p] \in Nat
      BY <1>2
    <3>2. QED BY <1>2, <2>1, <2>3, <2>4, <3>1
  <2>6. QED BY <1>2, <2>1, <2>4, <2>5
<1>8. ASSUME NEW q \in Pair, emit_commit_fails(q)
      PROVE  /\ torn' \in [Pair -> Nat] /\ world'.posted \in [Pair -> Nat]
             /\ \A p \in Pair : world'.posted[p] =
                   torn'[p] + (IF Emitted(p)' THEN 1 ELSE 0) + (IF writer' = p THEN 1 ELSE 0)
  <2>1. /\ writer = q /\ writer' = NoWriter /\ occurrences' = occurrences /\ world' = world
        /\ torn' = [torn EXCEPT ![q] = @ + 1]
    BY <1>8 DEF emit_commit_fails
  <2>2. \A p \in Pair : Emitted(p)' = Emitted(p) /\ p # NoWriter
    BY <1>1, <2>1, EmittedStays, PairType
  <2>3. /\ torn' \in [Pair -> Nat]
        /\ \A p \in Pair : torn'[p] = torn[p] + (IF writer = p THEN 1 ELSE 0)
    BY <1>2, <2>1
  <2>4. ASSUME NEW p \in Pair
        PROVE  world'.posted[p] =
                   torn'[p] + (IF Emitted(p)' THEN 1 ELSE 0) + (IF writer' = p THEN 1 ELSE 0)
    <3>1. torn[p] \in Nat
      BY <1>2
    <3>2. QED BY <1>2, <2>1, <2>2, <2>3, <3>1
  <2>5. QED BY <1>2, <2>1, <2>3, <2>4
<1>9. QED BY <1>1, <1>2, <1>4, <1>5, <1>6, <1>7, <1>8, WriterSteps

\* The queue of the loop holds transactions of the contract.
LEMMA SignsPairs ==
    ASSUME scenario \in Scenario, LoopInv
    PROVE  ToSign \subseteq Pair
<1>1. ASSUME NEW rows, NEW e \in Meaning(rows).effects
      PROVE  \E api \in Points : e[3] \in api.schema
  <2>1. PICK api \in Points : \E i : /\ Hit(api, rows[i].ev)
                                      /\ e = <<api.path, i - 1, rows[i].ev.v>>
    BY <1>1 DEF Meaning
  <2>2. QED BY <2>1 DEF Hit
<1>2. \A e \in state.effects : \E api \in Points : e[3] \in api.schema
  BY <1>1 DEF LoopInv
<1>3. Templates \subseteq {"base"} \cup UNION {api.schema : api \in Points}
  BY <1>2 DEF Templates
<1>4. scenario.keys \subseteq UNION {s.keys : s \in Scenario}
  OBVIOUS
<1>5. Templates \X scenario.keys \subseteq Pair
  BY <1>3, <1>4 DEF Pair
<1>6. QED BY <1>5 DEF ToSign

\* A query returns ids.
LEMMA RowsAreIds ==
    ASSUME LogInv, NEW a
    PROVE  occurrences_for_group_after_id(key, a) \in Seq(Nat)
<1>1. occurrences \in Seq(Entry) /\ Len(occurrences) \in Nat
  BY LenProperties DEF LogInv
<1>2. PICK k \in [0..Len(occurrences) -> Seq(Nat)] :
         IdsOf(occurrences, key, a) = k[Len(occurrences)]
  BY <1>1, IdsValues
<1>3. QED BY <1>1, <1>2 DEF IdsOf, occurrences_for_group_after_id

\* The steps of main.rs and of the reader.
LEMMA MainSteps ==
    ASSUME IndInv, groups' = groups,
           \/ litigator_starts \/ litigator_crashes \/ scan_for_new_contracts
           \/ litigate_contract \/ instance_ends
    PROVE  Memory'
<1>1. Memory
  BY DEF IndInv, InstanceInv
<1>2. Loop("off").queue = {} /\ \A pc : Loop(pc) = [pc |-> pc, counter |-> 0, queue |-> {}, fault |-> FALSE]
  BY DEF Loop
<1>3. \A pc : Idle(pc) = [pc |-> pc, last |-> 0, rows |-> <<>>, notified |-> FALSE]
  BY DEF Idle
<1>4. <<>> \in Seq(Nat)
  OBVIOUS
<1>5. \A pc \in {"off", "sleep"} :
         Idle(pc) \in [pc : {"off", "sleep", "send", "ended"}, last : Nat, rows : Seq(Nat),
                       notified : BOOLEAN]
  BY <1>3, <1>4
<1>6. \A pc \in {"off", "recv", "dropped"} :
         Loop(pc) \in [pc : {"off", "recv", "emit", "spin", "error", "dropped"}, counter : Nat,
                       queue : SUBSET Pair, fault : BOOLEAN]
  BY <1>2
<1>7. /\ NoTasks \in [time : BOOLEAN, dlog : BOOLEAN, known : SUBSET STRING,
                      game : {"off", "play", "ended"}, moves : Nat,
                      snapshot : {"none", "pending", "made", "lost"},
                      psbts : BOOLEAN, received : Nat, psbt_counter : Nat]
      /\ [NoTasks EXCEPT !.time = TRUE, !.dlog = TRUE, !.game = "play", !.psbts = TRUE]
           \in [time : BOOLEAN, dlog : BOOLEAN, known : SUBSET STRING,
                game : {"off", "play", "ended"}, moves : Nat,
                snapshot : {"none", "pending", "made", "lost"},
                psbts : BOOLEAN, received : Nat, psbt_counter : Nat]
      /\ [NoTasks EXCEPT !.time = TRUE]
           \in [time : BOOLEAN, dlog : BOOLEAN, known : SUBSET STRING,
                game : {"off", "play", "ended"}, moves : Nat,
                snapshot : {"none", "pending", "made", "lost"},
                psbts : BOOLEAN, received : Nat, psbt_counter : Nat]
  BY DEF NoTasks
<1>8. CASE litigator_starts
  BY <1>1, <1>8 DEF litigator_starts, Memory, key
<1>9. CASE litigator_crashes
  BY <1>1, <1>5, <1>6, <1>7, <1>9 DEF litigator_crashes, Memory, key
<1>10. CASE scan_for_new_contracts
  BY <1>1, <1>10 DEF scan_for_new_contracts, Memory, key
<1>11. CASE litigate_contract
  <2>1. /\ task = "spawned" /\ reader' = Idle("sleep") /\ task' \in {"running", "finished"}
        /\ loop' \in {Loop("recv"), Loop("dropped")}
        /\ extractor' \in {[NoTasks EXCEPT !.time = TRUE, !.dlog = TRUE, !.game = "play", !.psbts = TRUE],
                           [NoTasks EXCEPT !.time = TRUE]}
        /\ lives' = lives /\ budget' = budget
    BY <1>11 DEF litigate_contract
  <2>2. reader' \in [pc : {"off", "sleep", "send", "ended"}, last : Nat, rows : Seq(Nat),
                     notified : BOOLEAN]
    BY <1>5, <2>1
  <2>3. loop' \in [pc : {"off", "recv", "emit", "spin", "error", "dropped"}, counter : Nat,
                   queue : SUBSET Pair, fault : BOOLEAN]
    BY <1>6, <2>1
  <2>4. extractor' \in [time : BOOLEAN, dlog : BOOLEAN, known : SUBSET STRING,
                        game : {"off", "play", "ended"}, moves : Nat,
                        snapshot : {"none", "pending", "made", "lost"},
                        psbts : BOOLEAN, received : Nat, psbt_counter : Nat]
    BY <1>7, <2>1
  <2>5. key \in groups' /\ lives' \in Nat /\ budget' \in [ticks : Nat, faults : Nat]
    BY <1>1, <2>1 DEF Memory
  <2>6. QED BY <2>1, <2>2, <2>3, <2>4, <2>5 DEF Memory, key
<1>12. CASE instance_ends
  BY <1>1, <1>12 DEF instance_ends, Memory, key
<1>13. QED BY <1>8, <1>9, <1>10, <1>11, <1>12

\* The reader's steps keep the types.
LEMMA ReaderSteps ==
    ASSUME IndInv, groups' = groups,
           event_log_processor_wakes \/ event_log_processor_fails \/ event_log_processor_sends
    PROVE  Memory'
<1> DEFINE Readers == [pc : {"off", "sleep", "send", "ended"}, last : Nat, rows : Seq(Nat),
                       notified : BOOLEAN]
<1>1. Memory /\ LogInv /\ reader \in Readers
  BY DEF IndInv, InstanceInv, Memory
<1>2. task \notin {"off", "absent", "spawned"}
  BY DEF IndInv, InstanceInv, Memory, Idle, event_log_processor_wakes,
         event_log_processor_fails, event_log_processor_sends
<1>3. SUFFICES reader' \in Readers /\ budget' \in [ticks : Nat, faults : Nat]
               /\ UNCHANGED <<lives, task, loop, extractor>>
  BY <1>1, <1>2 DEF Memory, key
<1>4. CASE event_log_processor_wakes
  <2> DEFINE rows == occurrences_for_group_after_id(key, reader.last)
  <2>1. rows \in Seq(Nat)
    BY <1>1, RowsAreIds
  <2> HIDE DEF rows
  <2>2. \E b \in BOOLEAN, pc \in {"sleep", "send"} :
           reader' = [reader EXCEPT !.rows = rows, !.notified = b, !.pc = pc]
    BY <1>1, <1>4 DEF event_log_processor_wakes, rows
  <2>3. reader' \in Readers
    BY <1>1, <2>1, <2>2
  <2>4. QED BY <1>1, <1>4, <2>3 DEF event_log_processor_wakes, Memory
<1>5. CASE event_log_processor_fails
  <2>1. /\ budget.faults > 0 /\ budget' = [budget EXCEPT !.faults = budget.faults - 1]
        /\ reader' = [reader EXCEPT !.pc = "ended"] /\ UNCHANGED <<lives, task, loop, extractor>>
    BY <1>5 DEF event_log_processor_fails
  <2>2. budget \in [ticks : Nat, faults : Nat]
    BY <1>1 DEF Memory
  <2>3. budget.faults - 1 \in Nat
    BY <2>1, <2>2
  <2>4. budget' \in [ticks : Nat, faults : Nat]
    BY <2>1, <2>2, <2>3
  <2>5. reader' \in Readers
    BY <1>1, <2>1
  <2>6. QED BY <2>1, <2>4, <2>5
<1>6. CASE event_log_processor_sends
  <2>1. reader.rows # <<>> /\ reader.rows \in Seq(Nat)
    BY <1>1, <1>6 DEF event_log_processor_sends, IndInv, ReplayInv, ReaderInv
  <2>2. Head(reader.rows) \in Nat /\ Tail(reader.rows) \in Seq(Nat) /\ <<>> \in Seq(Nat)
    BY <2>1
  <2>3. \/ reader' = [reader EXCEPT !.pc = "ended", !.rows = <<>>]
        \/ \E pc \in {"sleep", "send"} :
              reader' = [reader EXCEPT !.last = Head(reader.rows), !.rows = Tail(reader.rows),
                                       !.pc = pc]
    BY <1>6 DEF event_log_processor_sends, LastSent
  <2>4. reader' \in Readers
    BY <1>1, <2>2, <2>3
  <2>5. UNCHANGED <<lives, task, loop, extractor, budget>>
    BY <1>6 DEF event_log_processor_sends
  <2>6. QED BY <1>1, <2>4, <2>5 DEF Memory
<1>7. QED BY <1>4, <1>5, <1>6

\* The steps of the loop.
LEMMA LoopSteps ==
    ASSUME IndInv, groups' = groups,
           \/ Handle \/ HandlerFails \/ emit_ends
           \/ \E p \in Pair : \/ emit_finds(p) \/ emit_posts(p) \/ emit_fails(p)
                               \/ emit_commits(p) \/ emit_commit_fails(p)
    PROVE  Memory'
<1> DEFINE Loops == [pc : {"off", "recv", "emit", "spin", "error", "dropped"}, counter : Nat,
                     queue : SUBSET Pair, fault : BOOLEAN]
<1>1. Memory /\ loop \in Loops /\ budget \in [ticks : Nat, faults : Nat]
  BY DEF IndInv, InstanceInv, Memory
<1>2. SUFFICES /\ task \notin {"off", "absent", "spawned"}
               /\ loop' \in Loops /\ budget' \in [ticks : Nat, faults : Nat]
               /\ UNCHANGED <<lives, task, reader, extractor>>
  BY <1>1 DEF Memory, key
<1> DEFINE L(c) == [loop EXCEPT !.counter = c]
<1>a. loop.counter + 1 \in Nat /\ \A c \in Nat : L(c) \in Loops
  BY <1>1
<1>3. loop.pc \in {"recv", "emit", "spin"} => task \notin {"off", "absent", "spawned"}
  BY <1>1 DEF Memory, Loop
<1>4. CASE Handle
  <2>1. UNCHANGED <<lives, task, reader, extractor, budget>>
    BY <1>4, HandleReads
  <2>2. loop.pc = "recv" => ToSign \subseteq Pair
    BY SignsPairs DEF IndInv, HostType, ReplayInv
  <2>3. \A t : Received(t) => loop.pc = "recv"
    BY DEF Received
  <2>4. Counted => loop' = L(loop.counter + 1)
    BY DEF Counted
  <2>5. Fails => loop' = [loop EXCEPT !.pc = "error"]
    BY DEF Fails
  <2> DEFINE Fine == /\ loop.pc \in {"recv", "spin"}
                     /\ \/ loop' = L(loop.counter + 1)
                        \/ loop' = [loop EXCEPT !.pc = "error"]
                        \/ loop' = [loop EXCEPT !.pc = "spin", !.counter = loop.counter + 1]
                        \/ loop.pc = "recv" /\ loop' = [loop EXCEPT !.pc = "emit", !.queue = ToSign]
  <2>6. recv_record \/ recv_none \/ handle_rebind => Fine
    BY <2>3, <2>4, <2>5 DEF recv_record, recv_none, handle_rebind
  <2>7. handle_module_bytes \/ handle_create_args => Fine
    BY <2>3, <2>4, <2>5 DEF handle_module_bytes, handle_create_args
  <2>8. handle_new_information => Fine
    BY <2>3, <2>4, <2>5 DEF handle_new_information
  <2>9. handle_synthetic_periodic => Fine
    BY <2>3, <2>4, <2>5 DEF handle_synthetic_periodic
  <2>10. Fine
    <3> HIDE DEF Fine
    <3>1. QED BY <1>4, <2>6, <2>7, <2>8, <2>9 DEF Handle
  <2>11. loop' \in Loops
    <3>1. L(loop.counter + 1) \in Loops
      BY <1>a
    <3>2. [loop EXCEPT !.pc = "error"] \in Loops
          /\ [loop EXCEPT !.pc = "spin", !.counter = loop.counter + 1] \in Loops
      BY <1>1, <1>a
    <3>3. loop.pc = "recv" => [loop EXCEPT !.pc = "emit", !.queue = ToSign] \in Loops
      BY <1>1, <2>2
    <3>4. QED BY <2>10, <3>1, <3>2, <3>3
  <2>12. QED BY <1>1, <1>3, <2>1, <2>10, <2>11
<1>5. CASE emit_ends
  <2>1. loop.pc = "emit" /\ loop' = [loop EXCEPT !.pc = "recv", !.counter = loop.counter + 1]
        /\ UNCHANGED <<lives, task, reader, extractor, budget>>
    BY <1>5 DEF emit_ends, Unread
  <2>2. loop' \in Loops
    BY <1>1, <1>a, <2>1
  <2>3. QED BY <1>1, <1>3, <2>1, <2>2
<1>6. ASSUME NEW p \in Pair, \/ emit_finds(p) \/ emit_posts(p) \/ emit_fails(p)
                               \/ emit_commits(p) \/ emit_commit_fails(p)
      PROVE  /\ task \notin {"off", "absent", "spawned"}
             /\ loop' \in Loops /\ budget' \in [ticks : Nat, faults : Nat]
             /\ UNCHANGED <<lives, task, reader, extractor>>
  <2>1. loop.pc = "emit" /\ (loop' = loop \/ loop' = [loop EXCEPT !.queue = @ \ {p}])
    BY <1>6 DEF emit_finds, emit_posts, emit_fails, emit_commits, emit_commit_fails, Emitting, Pop
  <2>2. UNCHANGED <<lives, task, reader, extractor>>
    BY <1>6 DEF emit_finds, emit_posts, emit_fails, emit_commits, emit_commit_fails
  <2>3. budget' = budget \/ (budget.faults > 0 /\ budget' = [budget EXCEPT !.faults = @ - 1])
    BY <1>6 DEF emit_finds, emit_posts, emit_fails, emit_commits, emit_commit_fails
  <2>4. loop' \in Loops
    BY <1>1, <2>1
  <2>5. budget' \in [ticks : Nat, faults : Nat]
    BY <1>1, <2>3
  <2>6. QED BY <1>3, <2>1, <2>2, <2>4, <2>5
<1>7. CASE HandlerFails
  <2>1. /\ budget.faults > 0 /\ budget' = [budget EXCEPT !.faults = @ - 1]
        /\ loop' = [loop EXCEPT !.pc = "error", !.fault = TRUE]
        /\ UNCHANGED <<lives, task, reader, extractor>>
    BY <1>7, FailureBreaks DEF Breaks
  <2>2. loop.pc = "recv"
    BY <1>7 DEF HandlerFails, module_bytes_fail, create_args_fail, new_information_fails,
                synthetic_periodic_fails, Received
  <2>3. loop' \in Loops
    BY <1>1, <2>1
  <2>4. budget' \in [ticks : Nat, faults : Nat]
    BY <1>1, <2>1
  <2>5. QED BY <1>3, <2>1, <2>2, <2>3, <2>4
<1>8. QED BY <1>4, <1>5, <1>6, <1>7

\* The steps of the extractors.
LEMMA ExtractSteps ==
    ASSUME IndInv, groups' = groups, Extract
    PROVE  Memory'
<1> DEFINE Tasks == [time : BOOLEAN, dlog : BOOLEAN, known : SUBSET STRING,
                     game : {"off", "play", "ended"}, moves : Nat,
                     snapshot : {"none", "pending", "made", "lost"},
                     psbts : BOOLEAN, received : Nat, psbt_counter : Nat]
<1>1. /\ Memory /\ InstanceInv /\ LogInv /\ extractor \in Tasks /\ budget \in [ticks : Nat, faults : Nat]
      /\ reader \in [pc : {"off", "sleep", "send", "ended"}, last : Nat, rows : Seq(Nat),
                     notified : BOOLEAN]
  BY DEF IndInv, InstanceInv, Memory
<1>2. /\ task \notin {"off", "absent", "spawned"} /\ UNCHANGED <<lives, task, loop>>
  <2>1. Extracted => UNCHANGED <<lives, task, loop>>
    BY DEF Extracted
  <2>2. Extract => Extracted /\ (extractor.time \/ extractor.dlog \/ extractor.psbts
                                 \/ extractor.game # "off" \/ extractor.snapshot # "none")
    BY DEF Extract, time_event_extractor, dlog_extractor, start_game, make_snapshot, handle_psbts
  <2>3. QED BY <1>1, <2>1, <2>2, InstanceFacts
<1>3. SUFFICES extractor' \in Tasks /\ budget' \in [ticks : Nat, faults : Nat]
               /\ (reader' = reader \/ reader' = [reader EXCEPT !.notified = TRUE])
  BY <1>1, <1>2 DEF Memory, key
<1>4. CASE time_event_extractor
  <2>1. /\ budget.ticks > 0 /\ budget' = [budget EXCEPT !.ticks = budget.ticks - 1]
        /\ extractor' = extractor /\ reader' = [reader EXCEPT !.notified = TRUE]
    BY <1>4 DEF time_event_extractor, notify_one
  <2>2. budget.ticks - 1 \in Nat
    BY <1>1, <2>1
  <2>3. budget' \in [ticks : Nat, faults : Nat]
    BY <1>1, <2>1, <2>2
  <2>4. QED BY <1>1, <2>1, <2>3
<1>5. ASSUME NEW k \in scenario.equivocators, dlog_extractor(k)
      PROVE  extractor' \in Tasks /\ budget' = budget /\ reader' = reader
  <2>1. k \in STRING
    BY LitigatorAssumption DEF IndInv, HostType
  <2>2. extractor' = [extractor EXCEPT !.known = @ \cup {k}] /\ budget' = budget /\ reader' = reader
    BY <1>5 DEF dlog_extractor
  <2>3. QED BY <1>1, <2>1, <2>2
<1>6. CASE start_game
  <2>1. /\ budget' = budget /\ reader' = reader
        /\ \E g \in {"play", "ended"}, s \in {"pending", extractor.snapshot} :
              extractor' = [extractor EXCEPT !.moves = extractor.moves + 1, !.game = g, !.snapshot = s]
    BY <1>6 DEF start_game
  <2>2. extractor.snapshot \in {"none", "pending", "made", "lost"} /\ extractor.moves + 1 \in Nat
    BY <1>1
  <2>3. extractor' \in Tasks
    <3>1. ASSUME NEW g \in {"off", "play", "ended"}, NEW s \in {"none", "pending", "made", "lost"},
                 NEW n \in Nat,
                 extractor' = [extractor EXCEPT !.moves = n, !.game = g, !.snapshot = s]
          PROVE  extractor' \in Tasks
      BY <1>1, <3>1
    <3> HIDE DEF Tasks
    <3>2. QED BY <2>1, <2>2, <3>1
  <2>4. QED BY <1>1, <2>1, <2>3
<1>7. CASE make_snapshot
  <2>1. /\ budget' = budget /\ (reader' = reader \/ reader' = [reader EXCEPT !.notified = TRUE])
        /\ \E s \in {"made", "lost"} : extractor' = [extractor EXCEPT !.snapshot = s]
    BY <1>7 DEF make_snapshot, notify_one
  <2>2. extractor' \in Tasks
    BY <1>1, <2>1
  <2>3. QED BY <1>1, <2>1, <2>2
<1>8. CASE handle_psbts
  <2>1. /\ budget' = budget /\ (reader' = reader \/ reader' = [reader EXCEPT !.notified = TRUE])
        /\ \/ extractor' = [extractor EXCEPT !.received = extractor.received + 1]
           \/ \E c \in {extractor.psbt_counter, extractor.psbt_counter + 1} :
                 extractor' = [extractor EXCEPT !.received = extractor.received + 1, !.psbt_counter = c]
    BY <1>8 DEF handle_psbts, notify_one
  <2>2. extractor.received + 1 \in Nat /\ extractor.psbt_counter \in Nat
        /\ extractor.psbt_counter + 1 \in Nat
    BY <1>1
  <2>3. extractor' \in Tasks
    <3>1. ASSUME NEW n \in Nat, extractor' = [extractor EXCEPT !.received = n]
          PROVE  extractor' \in Tasks
      BY <1>1, <3>1
    <3>2. ASSUME NEW n \in Nat, NEW c \in Nat,
                 extractor' = [extractor EXCEPT !.received = n, !.psbt_counter = c]
          PROVE  extractor' \in Tasks
      BY <1>1, <3>2
    <3> HIDE DEF Tasks
    <3>3. QED BY <2>1, <2>2, <3>1, <3>2
  <2>4. QED BY <1>1, <2>1, <2>3
<1> HIDE DEF Tasks
<1>9. ASSUME NEW k \in scenario.equivocators, dlog_extractor(k)
      PROVE  budget' \in [ticks : Nat, faults : Nat]
  BY <1>1, <1>5, <1>9
<1>10. QED BY <1>4, <1>5, <1>6, <1>7, <1>8, <1>9 DEF Extract

\* The litigator makes no groups.
LEMMA GroupsStay == LitigatorNext => groups' = groups
<1>1. \A g, e, t : insert_occurrence(g, e, t) => groups' = groups
  BY DEF insert_occurrence
<1>2. time_event_extractor => groups' = groups
  BY <1>1 DEF time_event_extractor
<1>3. \A k : dlog_extractor(k) => groups' = groups
  BY <1>1 DEF dlog_extractor
<1>4. make_snapshot => groups' = groups
  <2>1. make_snapshot => UNCHANGED evlog \/ \E g, e, t : insert_occurrence(g, e, t)
    BY DEF make_snapshot
  <2>2. QED BY <1>1, <2>1 DEF evlog
<1>5. handle_psbts => groups' = groups
  <2>1. handle_psbts => UNCHANGED evlog \/ \E g, e, t : insert_occurrence(g, e, t)
    BY DEF handle_psbts
  <2>2. QED BY <1>1, <2>1 DEF evlog
<1>6. \A p : emit_commits(p) => groups' = groups
  BY DEF emit_commits
<1>7. Quiet => groups' = groups
  BY QuietSteps
<1>8. QED BY <1>2, <1>3, <1>4, <1>5, <1>6, <1>7, LitigatorSteps

\* What is in memory has its type, and what a new process has.
LEMMA MemoryNext == IndInv /\ [Next]_vars => Memory'
<1>1. SUFFICES ASSUME IndInv, [Next]_vars PROVE Memory'
  OBVIOUS
<1>2. Memory
  BY <1>1 DEF IndInv, InstanceInv
<1>3. CASE LitigatorNext
  <2>1. groups' = groups
    BY <1>3, GroupsStay
  <2>2. CASE attestations_arrive
    <3>1. UNCHANGED <<lives, task, reader, channel, loop, state, extractor, budget>>
      BY <2>2 DEF attestations_arrive, World
    <3>2. QED BY <1>2, <2>1, <3>1 DEF Memory, key
  <2>3. QED BY <1>1, <1>3, <2>1, <2>2, MainSteps, ReaderSteps, LoopSteps, ExtractSteps
            DEF LitigatorNext, Emits
<1>4. CASE UNCHANGED lit_vars
  <2>1. UNCHANGED <<lives, task, reader, channel, loop, state, extractor, budget>>
    BY <1>4 DEF lit_vars
  <2>2. groups \subseteq groups'
    BY <1>1, LogSteps DEF Adds
  <2>3. QED BY <1>2, <2>1, <2>2 DEF Memory, key
<1>5. QED BY <1>1, <1>3, <1>4 DEF Next, vars

\* While a transaction is open, the loop waits for it.
LEMMA LoopWaits ==
    ASSUME IndInv, [Next]_vars, writer # NoWriter
    PROVE  \/ loop' = loop \/ litigator_crashes
           \/ \E p \in Pair : emit_commits(p) \/ emit_commit_fails(p)
<1>1. loop.pc = "emit" /\ loop.queue # {} /\ task \notin {"off", "absent", "spawned"}
  BY DEF IndInv, InstanceInv, Open, Memory, Loop
<1>2. litigator_starts \/ scan_for_new_contracts \/ instance_ends => loop' = loop
  BY DEF litigator_starts, scan_for_new_contracts, instance_ends
<1>3. ~litigate_contract
  BY <1>1 DEF litigate_contract
<1>4. event_log_processor_wakes \/ event_log_processor_fails \/ event_log_processor_sends => loop' = loop
  BY DEF event_log_processor_wakes, event_log_processor_fails, event_log_processor_sends
<1>5. ~Handle /\ ~HandlerFails
  <2>1. \A t : ~Received(t)
    BY <1>1 DEF Received
  <2>2. QED BY <1>1, <2>1 DEF Handle, recv_record, recv_none, handle_module_bytes, handle_create_args,
               handle_rebind, handle_new_information, handle_synthetic_periodic, HandlerFails,
               module_bytes_fail, create_args_fail, new_information_fails, synthetic_periodic_fails
<1>6. \A p \in Pair : ~emit_finds(p) /\ ~emit_fails(p) /\ (emit_posts(p) => loop' = loop)
  BY DEF emit_finds, emit_fails, emit_posts
<1>7. ~emit_ends
  BY <1>1 DEF emit_ends
<1>8. Extract => loop' = loop
  BY DEF Extract, time_event_extractor, dlog_extractor, start_game, make_snapshot, handle_psbts,
         Extracted
<1>9. attestations_arrive => loop' = loop
  BY DEF attestations_arrive, World
<1>10. UNCHANGED lit_vars => loop' = loop
  BY DEF lit_vars
<1>11. QED BY <1>2, <1>3, <1>4, <1>5, <1>6, <1>7, <1>8, <1>9, <1>10
           DEF Next, LitigatorNext, Emits, vars

\* A transaction on the log is open only while the loop emits what it posts.
LEMMA InstanceNext == IndInv /\ [Next]_vars => InstanceInv'
<1>1. SUFFICES ASSUME IndInv, [Next]_vars PROVE Open'
  BY MemoryNext DEF InstanceInv
<1>2. Open /\ WorldInv
  BY <1>1 DEF IndInv, InstanceInv
<1>3. CASE /\ writer' = writer /\ (occurrences' = occurrences \/ writer = NoWriter)
           /\ torn' = torn /\ world'.posted = world.posted
  <2>1. CASE writer = NoWriter
    BY <1>3, <2>1 DEF Open
  <2>2. CASE writer # NoWriter
    <3>1. writer \in Pair
      BY <1>2, <2>2 DEF Open
    <3>2. \A p \in Pair : Emitted(p)' = Emitted(p)
      BY <1>1, <1>3, EmittedStays
    <3>3. CASE loop' = loop
      <4>1. ~AlreadyExists(key, SignedTag(writer)) /\ occurrences' = occurrences
        BY <1>2, <1>3, <2>2 DEF Open, Emitted
      <4>2. (~Emitted(writer))'
        BY <1>3, <4>1 DEF Emitted, AlreadyExists, SignedTag, key
      <4>3. QED BY <1>2, <1>3, <2>2, <3>3, <4>2 DEF Open
    <3>4. ASSUME NEW p \in Pair, emit_commits(p) \/ emit_commit_fails(p) PROVE Open'
      BY <3>4 DEF Open, emit_commits, emit_commit_fails
    <3>5. litigator_crashes => Open'
      BY DEF Open, litigator_crashes
    <3>6. QED BY <1>1, <2>2, <3>3, <3>4, <3>5, LoopWaits
  <2>3. QED BY <2>1, <2>2
<1>4. ASSUME NEW p \in Pair, emit_posts(p) PROVE Open'
  <2>1. /\ loop.pc = "emit" /\ loop.queue # {} /\ p = CHOOSE q \in loop.queue : TRUE
        /\ ~Emitted(p) /\ writer' = p /\ loop' = loop /\ occurrences' = occurrences
    BY <1>4 DEF emit_posts, Emitting
  <2>2. p \in loop.queue
    BY <2>1
  <2>3. ~Emitted(p)'
    BY <2>1 DEF Emitted, AlreadyExists, SignedTag, key
  <2>4. (~Emitted(writer))'
    BY <2>1, <2>3 DEF Emitted, AlreadyExists, SignedTag, key
  <2>5. QED BY <2>1, <2>2, <2>4 DEF Open
<1>5. ASSUME NEW p \in Pair, emit_commits(p) \/ emit_commit_fails(p) PROVE Open'
  BY <1>5 DEF Open, emit_commits, emit_commit_fails
<1>6. CASE litigator_crashes
  BY <1>6 DEF Open, litigator_crashes
<1>7. QED BY <1>1, <1>2, <1>3, <1>4, <1>5, <1>6, WriterSteps

-----------------------------------------------------------------------------
(* The reader.                                                                *)

\* The rows of the contract, and what a query after a cursor returns of them.
LEMMA IdsFacts ==
    ASSUME LogInv
    PROVE  /\ Ids \in Seq(Nat) /\ Len(Ids) \in Nat /\ DOMAIN Ids = 1..Len(Ids)
           /\ \A m, n \in 1..Len(Ids) : m < n => Ids[m] < Ids[n]
           /\ \A n \in 1..Len(Ids) : /\ Ids[n] \in 1..Len(occurrences)
                                     /\ occurrences[Ids[n]].group_id = key
           /\ \A i \in 1..Len(occurrences) :
                 occurrences[i].group_id = key => \E n \in 1..Len(Ids) : Ids[n] = i
           /\ \A k \in 0..Len(Ids) :
                 Continues(occurrences_for_group_after_id(key, Cursor(Ids, k)), Ids, k)
           /\ Len(Rows) = Len(Ids) /\ Rows \in Seq(Entry)
           /\ \A n \in 1..Len(Ids) : Rows[n] = occurrences[Ids[n]]
<1>1. occurrences \in Seq(Entry) /\ DOMAIN occurrences = 1..Len(occurrences) /\ Len(occurrences) \in Nat
  BY LenProperties DEF LogInv
<1>2. IdsRight(occurrences, key)
  BY <1>1, IdsAreRight
<1>3. \A a : occurrences_for_group_after_id(key, a) = IdsOf(occurrences, key, a)
  BY DEF IdsOf, occurrences_for_group_after_id
<1>4. Ids = IdsOf(occurrences, key, 0)
  BY <1>3 DEF Ids
<1>5. /\ Enumerates(Ids, occurrences, key)
      /\ \A k \in 0..Len(Ids) : Continues(IdsOf(occurrences, key, Cursor(Ids, k)), Ids, k)
  BY <1>2, <1>4 DEF IdsRight
<1>6. Ids \in Seq(1..Len(occurrences))
  BY <1>5 DEF Enumerates
<1>7. Len(Ids) \in Nat /\ DOMAIN Ids = 1..Len(Ids) /\ \A n \in 1..Len(Ids) : Ids[n] \in 1..Len(occurrences)
  BY <1>6
<1>8. Ids \in Seq(Nat)
  <2>1. \A n \in 1..Len(Ids) : Ids[n] \in Nat
    BY <1>1, <1>7
  <2>2. QED BY <1>6, <1>7, <2>1
<1>9. Rows = [n \in 1..Len(Ids) |-> occurrences[Ids[n]]]
  BY <1>7 DEF Rows, Ids, occurrences_for_group
<1>10. \A n \in 1..Len(Ids) : occurrences[Ids[n]] \in Entry
  BY <1>1, <1>7
<1>11. Len(Rows) = Len(Ids) /\ Rows \in Seq(Entry)
       /\ \A n \in 1..Len(Ids) : Rows[n] = occurrences[Ids[n]]
  BY <1>7, <1>9, <1>10
<1>12. /\ \A m, n \in 1..Len(Ids) : m < n => Ids[m] < Ids[n]
       /\ \A n \in 1..Len(Ids) : occurrences[Ids[n]].group_id = key
       /\ \A i \in 1..Len(occurrences) :
             occurrences[i].group_id = key => \E n \in 1..Len(Ids) : Ids[n] = i
  BY <1>1, <1>5, <1>7 DEF Enumerates
<1>13. \A k \in 0..Len(Ids) :
          Continues(occurrences_for_group_after_id(key, Cursor(Ids, k)), Ids, k)
  BY <1>3, <1>5
<1>14. QED BY <1>7, <1>8, <1>11, <1>12, <1>13

\* The group's occurrences grow at their end.
LEMMA IdsGrow ==
    ASSUME LogInv,
           occurrences' = occurrences \/ \E o \in Entry : occurrences' = Append(occurrences, o)
    PROVE  /\ Len(Ids)' \in Nat /\ Len(Ids) <= Len(Ids)'
           /\ \A n \in 1..Len(Ids) : Ids'[n] = Ids[n] /\ Rows'[n] = Rows[n]
                                     /\ occurrences'[Ids[n]] = occurrences[Ids[n]]
           /\ Rows' \in Seq(Entry) /\ Len(Rows)' = Len(Ids)'
<1>1. occurrences \in Seq(Entry) /\ Len(occurrences) \in Nat
  BY LenProperties DEF LogInv
<1>2. Ids = IdsOf(occurrences, key, 0) /\ Ids' = IdsOf(occurrences', key, 0)
  BY DEF IdsOf, Ids, occurrences_for_group_after_id, key
<1>3. /\ Ids \in Seq(Nat) /\ Len(Ids) \in Nat
      /\ \A n \in 1..Len(Ids) : Ids[n] \in 1..Len(occurrences)
      /\ Rows \in Seq(Entry) /\ Len(Rows) = Len(Ids)
      /\ \A n \in 1..Len(Ids) : Rows[n] = occurrences[Ids[n]]
  BY IdsFacts
<1>4. Rows' = [n \in DOMAIN Ids' |-> occurrences'[Ids'[n]]]
  BY DEF Rows, Ids, occurrences_for_group, key
<1>5. CASE occurrences' = occurrences
  <2>1. Ids' = Ids
    BY <1>2, <1>5
  <2>2. Rows' = Rows
    BY <1>5 DEF Rows, occurrences_for_group, occurrences_for_group_after_id, key
  <2>3. Len(Ids)' = Len(Ids) /\ Len(Rows)' = Len(Rows)
    BY <2>1, <2>2
  <2>4. QED BY <1>3, <1>5, <2>1, <2>2, <2>3
<1>6. ASSUME NEW o \in Entry, occurrences' = Append(occurrences, o)
      PROVE  /\ Len(Ids') \in Nat /\ Len(Ids) <= Len(Ids')
             /\ \A n \in 1..Len(Ids) : Ids'[n] = Ids[n] /\ Rows'[n] = Rows[n]
                                       /\ occurrences'[Ids[n]] = occurrences[Ids[n]]
             /\ Rows' \in Seq(Entry) /\ Len(Rows') = Len(Ids')
  <2> DEFINE N == Len(occurrences) + 1
  <2>1. /\ Len(occurrences') = N /\ occurrences' \in Seq(Entry)
        /\ \A i \in 1..Len(occurrences) : occurrences'[i] = occurrences[i] /\ i \in 1..N
        /\ N \in Nat /\ N \in 1..N
    BY <1>1, <1>6, Appended
  <2>2. Ids' = IF N > 0 /\ o.group_id = key THEN Append(Ids, N) ELSE Ids
    BY <1>1, <1>2, <1>6, IdsAppend
  <2>3. Ids' = Append(Ids, N) \/ Ids' = Ids
    BY <2>2
  <2> HIDE DEF N
  <2>4. /\ Ids' \in Seq(Nat) /\ Len(Ids') \in Nat /\ Len(Ids) <= Len(Ids')
        /\ \A n \in 1..Len(Ids) : Ids'[n] = Ids[n] /\ n \in 1..Len(Ids')
        /\ \A n \in 1..Len(Ids') : Ids'[n] \in 1..N
    <3>1. CASE Ids' = Ids
      BY <1>3, <2>1, <3>1
    <3>2. CASE Ids' = Append(Ids, N)
      <4>1. /\ Len(Ids') = Len(Ids) + 1 /\ Ids' \in Seq(Nat) /\ Ids'[Len(Ids) + 1] = N
            /\ \A n \in 1..Len(Ids) : Ids'[n] = Ids[n] /\ n \in 1..Len(Ids) + 1
            /\ \A n \in 1..Len(Ids) + 1 : n = Len(Ids) + 1 \/ n \in 1..Len(Ids)
        BY <1>3, <2>1, <3>2, Appended
      <4>2. \A n \in 1..Len(Ids) : Ids[n] \in 1..N
        BY <1>3, <2>1
      <4>3. \A n \in 1..Len(Ids) + 1 : Ids'[n] \in 1..N
        BY <2>1, <4>1, <4>2
      <4>4. Len(Ids) + 1 \in Nat /\ Len(Ids) <= Len(Ids) + 1
        BY <1>3
      <4>5. QED BY ONLY <4>1, <4>3, <4>4
    <3>3. QED BY <2>3, <3>1, <3>2
  <2>5. DOMAIN Ids' = 1..Len(Ids')
    BY <2>4
  <2>6. \A n \in 1..Len(Ids') : occurrences'[Ids'[n]] \in Entry
    BY <2>1, <2>4
  <2>7. Rows' \in Seq(Entry) /\ Len(Rows') = Len(Ids')
        /\ \A n \in 1..Len(Ids') : Rows'[n] = occurrences'[Ids'[n]]
    BY <1>4, <2>4, <2>5, <2>6
  <2>8. QED BY <1>3, <2>1, <2>4, <2>7
<1>7. Len(Ids)' = Len(Ids') /\ Len(Rows)' = Len(Rows')
  OBVIOUS
<1>8. QED BY <1>5, <1>6, <1>7

\* What the first c rows mean does not change when others follow.
LEMMA PrefixStays ==
    ASSUME NEW r \in Seq(Entry), NEW q \in Seq(Entry), NEW c \in 0..Len(r), Len(r) <= Len(q),
           \A n \in 1..Len(r) : q[n] = r[n]
    PROVE  SubSeq(q, 1, c) = SubSeq(r, 1, c)
<1>1. Len(r) \in Nat /\ Len(q) \in Nat /\ c \in Int /\ 1 \in Int
  BY LenProperties
<1>2. \A n \in 1..c : r[n] \in Entry /\ q[n] \in Entry /\ r[n] = q[n]
  BY <1>1
<1>3. /\ SubSeq(q, 1, c) \in Seq(Entry) /\ SubSeq(r, 1, c) \in Seq(Entry)
      /\ Len(SubSeq(q, 1, c)) = c /\ Len(SubSeq(r, 1, c)) = c
      /\ \A i \in 1..c : SubSeq(q, 1, c)[i] = q[i] /\ SubSeq(r, 1, c)[i] = r[i]
  BY <1>1, <1>2, SubSeqProperties
<1>4. QED BY <1>2, <1>3

-----------------------------------------------------------------------------
(* What the loop has handled.                                                 *)

\* The occurrences of a group come in the order in which finish_setup writes them.
LEMMA RowsInOrder ==
    ASSUME LogInv, NEW n \in 1..Len(Ids)
    PROVE  /\ Rows[n].ev.t = "ModuleBytes" => AlreadyExists(ModuleRepo, module_tag)
           /\ Rows[n].ev.t = "CreateArgs" =>
                 /\ \E m \in 1..n - 1 : Rows[m].ev.t = "ModuleBytes"
                 /\ \A m \in 1..Len(Ids) : Rows[m].ev.t = "CreateArgs" => m = n
           /\ Rows[n].ev.t = "Rebind" => \E m \in 1..n - 1 : Rows[m].ev.t = "CreateArgs"
<1>1. /\ Len(Ids) \in Nat /\ \A m \in 1..Len(Ids) : Rows[m] = occurrences[Ids[m]]
      /\ \A m \in 1..Len(Ids) : Ids[m] \in 1..Len(occurrences) /\ occurrences[Ids[m]].group_id = key
      /\ \A m, k \in 1..Len(Ids) : m < k => Ids[m] < Ids[k]
      /\ \A i \in 1..Len(occurrences) :
            occurrences[i].group_id = key => \E m \in 1..Len(Ids) : Ids[m] = i
  BY IdsFacts
<1>2. Len(occurrences) \in Nat /\ DOMAIN occurrences = 1..Len(occurrences)
  BY LenProperties DEF LogInv
<1>3. Ids[n] \in DOMAIN occurrences /\ Row(Ids[n]) = Rows[n].ev
  BY <1>1, <1>2 DEF Row
<1>4. Rows[n].ev.t = "ModuleBytes" => AlreadyExists(ModuleRepo, module_tag)
  BY <1>3 DEF LogInv
<1>5. ASSUME NEW t, Earlier(Ids[n], t) PROVE \E m \in 1..n - 1 : Rows[m].ev.t = t
  <2>1. PICK j \in 1..Ids[n] - 1 : occurrences[j].group_id = occurrences[Ids[n]].group_id
                                   /\ Row(j).t = t
    BY <1>5 DEF Earlier
  <2>2. j \in 1..Len(occurrences) /\ Ids[n] \in Nat /\ j < Ids[n]
    BY <1>1, <1>2
  <2>3. PICK m \in 1..Len(Ids) : Ids[m] = j
    BY <1>1, <2>1, <2>2
  <2>4. m < n
    <3>1. n < m => Ids[n] < Ids[m]
      BY <1>1
    <3>2. m # n /\ ~(n < m)
      BY <2>2, <2>3, <3>1
    <3>3. QED BY <1>1, <3>2
  <2>5. m \in 1..n - 1 /\ Rows[m].ev.t = t
    BY <1>1, <2>1, <2>3, <2>4 DEF Row
  <2>6. QED BY <2>5
<1>6. /\ Rows[n].ev.t = "CreateArgs" => Earlier(Ids[n], "ModuleBytes")
      /\ Rows[n].ev.t = "Rebind" => Earlier(Ids[n], "CreateArgs")
  BY <1>3 DEF LogInv
<1>7. ASSUME NEW m \in 1..Len(Ids), Rows[n].ev.t = "CreateArgs", Rows[m].ev.t = "CreateArgs"
      PROVE  m = n
  <2>1. Ids[m] \in DOMAIN occurrences /\ Row(Ids[m]) = Rows[m].ev
    BY <1>1, <1>2 DEF Row
  <2>2. occurrences[Ids[m]].unique_tag = <<"CreateArgs">>
        /\ occurrences[Ids[n]].unique_tag = <<"CreateArgs">>
    BY <1>3, <1>7, <2>1 DEF LogInv
  <2>3. <<"CreateArgs">> # NoTag
    BY DEF NoTag
  <2>4. EventLogTypeOK
    BY DEF LogInv
  <2>5. occurrences[Ids[m]].group_id = occurrences[Ids[n]].group_id
    BY <1>1
  <2>6. Ids[m] = Ids[n]
    BY <1>3, <2>1, <2>2, <2>3, <2>4, <2>5 DEF EventLogTypeOK
  <2>7. Ids[m] \in Nat /\ (m < n => Ids[m] < Ids[n]) /\ (n < m => Ids[n] < Ids[m])
    BY <1>1, <1>2
  <2>8. QED BY <1>1, <2>6, <2>7
<1>8. QED BY <1>4, <1>5, <1>6, <1>7

\* What one more row means.
News(c, e) == IF e.t = "NewRecompileTriggeringObservation" /\ Accepted(e)
              THEN {<<api.path, c, e.v>> : api \in {a \in Points : Hit(a, e)}} ELSE {}
OneMore(rows, c, s, u, e) ==
    /\ rows \in Seq(Entry) /\ c \in Nat /\ c < Len(rows) /\ e = rows[c + 1].ev
    /\ s = SubSeq(rows, 1, c) /\ u = SubSeq(rows, 1, c + 1)

\* One more row adds its own meaning to that of those before it.
LEMMA MeaningStep ==
    ASSUME NEW rows, NEW c, NEW s, NEW u, NEW e, OneMore(rows, c, s, u, e)
    PROVE  /\ Meaning(u).module <=> (Meaning(s).module \/ e.t = "ModuleBytes")
           /\ Meaning(u).compiled <=> (Meaning(s).compiled \/ e.t = "CreateArgs")
           /\ Meaning(u).bound <=> (Meaning(s).bound \/ e.t = "Rebind")
           /\ Meaning(u).effects = Meaning(s).effects \cup News(c, e)
<1>0. /\ rows \in Seq(Entry) /\ c \in Nat /\ c < Len(rows) /\ e = rows[c + 1].ev
      /\ s = SubSeq(rows, 1, c) /\ u = SubSeq(rows, 1, c + 1)
  BY DEF OneMore
<1>1. Len(rows) \in Nat /\ c \in Int /\ c + 1 \in Int /\ 1 \in Int
      /\ \A i \in 1..c + 1 : rows[i] \in Entry
  BY <1>0, LenProperties
<1>2. \A i \in 1..c : i \in 1..c + 1
  BY <1>0, <1>1
<1>3. /\ s \in Seq(Entry) /\ Len(s) = c /\ \A i \in 1..c : s[i] = rows[i]
  <2>1. \A i \in 1..c : rows[i] \in Entry
    BY <1>1, <1>2
  <2>2. QED BY <1>0, <1>1, <2>1, SubSeqProperties
<1>4. u \in Seq(Entry) /\ Len(u) = c + 1 /\ \A i \in 1..c + 1 : u[i] = rows[i]
  BY <1>0, <1>1, SubSeqProperties
<1>5. DOMAIN s = 1..c /\ DOMAIN u = 1..c + 1
  BY <1>3, <1>4, LenProperties
<1>6. u[c + 1].ev = e /\ c + 1 \in 1..c + 1 /\ \A i \in 1..c : u[i] = s[i]
  BY <1>0, <1>1, <1>2, <1>3, <1>4
<1>7. \A i \in 1..c + 1 : i = c + 1 \/ i \in 1..c
  BY <1>0, <1>1
<1>8. ASSUME NEW t PROVE Index(u, t) = Index(s, t) \cup (IF e.t = t THEN {c + 1} ELSE {})
  BY <1>2, <1>5, <1>6, <1>7 DEF Index
<1>9. \A t : Index(u, t) # {} <=> (Index(s, t) # {} \/ e.t = t)
  BY <1>8
<1>10. \A r : /\ Meaning(r).module = (Index(r, "ModuleBytes") # {})
              /\ Meaning(r).compiled = (Index(r, "CreateArgs") # {})
              /\ Meaning(r).bound = (Index(r, "Rebind") # {})
  BY DEF Meaning
<1> DEFINE Obs(r) == {i \in Index(r, "NewRecompileTriggeringObservation") : Accepted(r[i].ev)}
           Parts(i, r) == {<<api.path, i - 1, r[i].ev.v>> : api \in {a \in Points : Hit(a, r[i].ev)}}
<1>11. \A r : Meaning(r).effects = UNION {Parts(i, r) : i \in Obs(r)}
  BY DEF Meaning
<1>12. \A i \in 1..c : Parts(i, u) = Parts(i, s)
  BY <1>6
<1>13. Parts(c + 1, u) = {<<api.path, c, e.v>> : api \in {a \in Points : Hit(a, e)}}
  <2>1. (c + 1) - 1 = c
    BY <1>0
  <2>2. QED BY <1>6, <2>1
<1>14. Obs(u) = Obs(s) \cup (IF e.t = "NewRecompileTriggeringObservation" /\ Accepted(e) THEN {c + 1} ELSE {})
  <2>1. Obs(s) \subseteq 1..c
    BY <1>5 DEF Index
  <2>2. c + 1 \in Index(s, "NewRecompileTriggeringObservation") => FALSE
    BY <1>0, <1>1, <1>5 DEF Index
  <2>3. \A i \in Index(s, "NewRecompileTriggeringObservation") : u[i] = s[i]
    BY <1>5, <1>6 DEF Index
  <2> DEFINE New == "NewRecompileTriggeringObservation"
  <2>4. \A i : i \in Index(u, New) <=> (i \in Index(s, New) \/ (e.t = New /\ i = c + 1))
    BY <1>8
  <2>5. Accepted(u[c + 1].ev) <=> Accepted(e)
    BY <1>6
  <2>6. \A i \in Index(s, New) : Accepted(u[i].ev) <=> Accepted(s[i].ev)
    BY <2>3
  <2>7. \A i : i \in Obs(u) <=> (i \in Obs(s) \/ (e.t = New /\ Accepted(e) /\ i = c + 1))
    BY <2>4, <2>5, <2>6
  <2>8. QED BY <2>7
<1>15. Obs(s) \subseteq 1..c
  BY <1>5 DEF Index
<1>16. Meaning(u).effects = Meaning(s).effects \cup News(c, e)
  <2> HIDE DEF Obs, Parts
  <2>1. CASE e.t = "NewRecompileTriggeringObservation" /\ Accepted(e)
    <3>1. Obs(u) = Obs(s) \cup {c + 1} /\ News(c, e) = Parts(c + 1, u)
      BY <1>13, <1>14, <2>1 DEF News
    <3>2. {Parts(i, u) : i \in Obs(s)} = {Parts(i, s) : i \in Obs(s)}
      BY <1>12, <1>15
    <3>3. Meaning(u).effects = UNION {Parts(i, u) : i \in Obs(s) \cup {c + 1}}
          /\ Meaning(s).effects = UNION {Parts(i, s) : i \in Obs(s)}
      BY <1>11, <3>1
    <3>4. Meaning(u).effects = (UNION {Parts(i, u) : i \in Obs(s)}) \cup Parts(c + 1, u)
      BY <3>3
    <3>5. QED BY <3>1, <3>2, <3>3, <3>4
  <2>2. CASE ~(e.t = "NewRecompileTriggeringObservation" /\ Accepted(e))
    <3>1. Obs(u) = Obs(s) /\ News(c, e) = {}
      BY <1>14, <2>2 DEF News
    <3>2. {Parts(i, u) : i \in Obs(s)} = {Parts(i, s) : i \in Obs(s)}
      BY <1>12, <1>15
    <3>3. Meaning(u).effects = UNION {Parts(i, u) : i \in Obs(s)}
          /\ Meaning(s).effects = UNION {Parts(i, s) : i \in Obs(s)}
      BY <1>11, <3>1
    <3>4. QED BY <3>1, <3>2, <3>3
  <2>3. QED BY <2>1, <2>2
<1>17. QED BY <1>9, <1>10, <1>16

\* What the loop knows, when c rows were handled.
LEMMA Known ==
    ASSUME LogInv, NEW c \in 0..Len(Ids)
    PROVE  LET s == Meaning(SubSeq(Rows, 1, c)) IN
           /\ s.module <=> \E i \in 1..c : Rows[i].ev.t = "ModuleBytes"
           /\ s.compiled <=> \E i \in 1..c : Rows[i].ev.t = "CreateArgs"
           /\ s.bound <=> \E i \in 1..c : Rows[i].ev.t = "Rebind"
<1> DEFINE s == SubSeq(Rows, 1, c)
<1>1. Rows \in Seq(Entry) /\ Len(Rows) = Len(Ids) /\ Len(Rows) \in Nat /\ c \in Int /\ 1 \in Int
  BY IdsFacts
<1>2. \A i \in 1..c : Rows[i] \in Entry
  BY <1>1
<1>3. s \in Seq(Entry) /\ Len(s) = c /\ \A i \in 1..c : s[i] = Rows[i]
  BY <1>1, <1>2, SubSeqProperties
<1>4. DOMAIN s = 1..c
  BY <1>3, LenProperties
<1> HIDE DEF s
<1>5. \A t : Index(s, t) # {} <=> \E i \in 1..c : Rows[i].ev.t = t
  BY <1>3, <1>4 DEF Index
<1>6. /\ Meaning(s).module = (Index(s, "ModuleBytes") # {})
      /\ Meaning(s).compiled = (Index(s, "CreateArgs") # {})
      /\ Meaning(s).bound = (Index(s, "Rebind") # {})
  BY DEF Meaning
<1>7. /\ Meaning(s).module <=> \E i \in 1..c : Rows[i].ev.t = "ModuleBytes"
      /\ Meaning(s).compiled <=> \E i \in 1..c : Rows[i].ev.t = "CreateArgs"
      /\ Meaning(s).bound <=> \E i \in 1..c : Rows[i].ev.t = "Rebind"
  BY <1>5, <1>6
<1>8. QED BY <1>7 DEF s

\* A state is the record that Meaning makes.
LEMMA MeaningRecord ==
    ASSUME NEW r
    PROVE  Meaning(r) = [module |-> Meaning(r).module, compiled |-> Meaning(r).compiled,
                         effects |-> Meaning(r).effects, bound |-> Meaning(r).bound]
           /\ Meaning(r).module \in BOOLEAN /\ Meaning(r).compiled \in BOOLEAN
           /\ Meaning(r).bound \in BOOLEAN
BY DEF Meaning

\* Nothing handled: the state that a process begins with.
LEMMA NothingKnown == Meaning(<<>>) = NotLoaded
<1>1. \A t : Index(<<>>, t) = {}
  BY DEF Index
<1>2. QED BY <1>1 DEF Meaning, NotLoaded

\* What was sent, what was taken from it and what was handled.
LEMMA Counts ==
    ASSUME LogInv, ReaderInv, Memory
    PROVE  /\ Len(Ids) \in Nat /\ Sent \in 0..Len(Ids) /\ Taken \in Nat /\ Taken <= Sent
           /\ loop.counter \in Nat /\ loop.counter <= Taken
           /\ loop.pc \in {"emit", "error"} => Taken = loop.counter + 1
           /\ loop.pc \notin {"emit", "error"} => Taken = loop.counter
           /\ channel = <<>> => Sent = Taken
           /\ channel # <<>> => /\ Sent = Taken + 1 /\ Sent \in 1..Len(Ids)
                                /\ channel = <<Row(Ids[Sent])>>
<1>1. Len(Ids) \in Nat
  BY IdsFacts
<1>2. loop.counter \in Nat
  BY DEF Memory
<1>3. /\ Taken \in Nat /\ loop.counter <= Taken
      /\ loop.pc \in {"emit", "error"} => Taken = loop.counter + 1
      /\ loop.pc \notin {"emit", "error"} => Taken = loop.counter
  BY <1>2 DEF Taken
<1>4. Sent \in 0..Len(Ids) /\ (channel = <<>> \/ channel = <<Row(Ids[Sent])>>)
  BY DEF ReaderInv
<1>5. channel = <<>> => Len(channel) = 0
  OBVIOUS
<1>6. channel # <<>> => channel = <<Row(Ids[Sent])>> /\ Len(channel) = 1
  <2>1. channel = <<Row(Ids[Sent])>> => Len(channel) = 1
    OBVIOUS
  <2>2. QED BY <1>4, <2>1
<1>7. Sent = Taken + Len(channel)
  BY DEF Sent
<1>8. channel = <<>> => Sent = Taken
  BY <1>3, <1>5, <1>7
<1>9. channel # <<>> => Sent = Taken + 1 /\ Sent \in 1..Len(Ids)
  <2>1. SUFFICES ASSUME channel # <<>> PROVE Sent = Taken + 1 /\ Sent \in 1..Len(Ids)
    OBVIOUS
  <2>2. Len(channel) = 1
    BY <1>6, <2>1
  <2>3. Sent = Taken + 1
    BY <1>7, <2>2
  <2>4. Sent \in 0..Len(Ids) /\ Taken \in Nat
    BY <1>3, <1>4
  <2>5. QED BY <1>1, <2>3, <2>4
<1>10. Taken <= Sent
  <2>1. Len(channel) \in {0, 1}
    BY <1>5, <1>6
  <2>2. QED BY <1>3, <1>7, <2>1
<1> HIDE DEF Sent, Taken
<1>11. QED BY ONLY <1>1, <1>2, <1>3, <1>4, <1>6, <1>8, <1>9, <1>10

\* The log does not disturb the reader,
LEMMA ReaderKeeps ==
    ASSUME LogInv, ReaderInv, Memory,
           occurrences' = occurrences \/ \E o \in Entry : occurrences' = Append(occurrences, o),
           Sent' = Sent, channel' = channel \/ channel' = <<>>,
           reader'.last = reader.last, reader'.rows = reader.rows,
           reader'.pc = "send" => reader.pc = "send"
    PROVE  ReaderInv'
<1>a. /\ Len(Ids)' \in Nat /\ Len(Ids) <= Len(Ids)'
      /\ \A n \in 1..Len(Ids) : /\ Ids'[n] = Ids[n] /\ Rows'[n] = Rows[n]
                                /\ occurrences'[Ids[n]] = occurrences[Ids[n]]
      /\ Rows' \in Seq(Entry) /\ Len(Rows)' = Len(Ids)'
  BY IdsGrow
<1>b. Len(Ids) \in Nat /\ Rows \in Seq(Entry) /\ Len(Rows) = Len(Ids)
      /\ \A n \in 1..Len(Ids) : Rows[n] = occurrences[Ids[n]]
  BY IdsFacts
<1>c. Sent' = Sent
  OBVIOUS
<1>d. Sent \in 0..Len(Ids)
  BY DEF ReaderInv
<1>1. Sent' \in 0..Len(Ids)'
  BY <1>a, <1>b, <1>c, <1>d
<1>2. reader'.last = IF Sent' = 0 THEN 0 ELSE Ids'[Sent']
  BY <1>a, <1>c, <1>d DEF ReaderInv
<1>3. ASSUME NEW j \in DOMAIN reader'.rows
      PROVE  Sent' + j <= Len(Ids)' /\ reader'.rows[j] = Ids'[Sent' + j]
  <2>1. reader.rows \in Seq(Nat) /\ j \in DOMAIN reader.rows /\ j \in 1..Len(reader.rows)
    BY DEF Memory
  <2>2. Sent + j <= Len(Ids) /\ reader.rows[j] = Ids[Sent + j]
    BY <2>1 DEF ReaderInv
  <2>3. Sent + j \in 1..Len(Ids)
    BY <1>b, <1>d, <2>1, <2>2
  <2>4. QED BY <1>a, <1>b, <1>c, <2>2, <2>3
<1>4. reader'.pc = "send" => reader'.rows # <<>>
  BY DEF ReaderInv
<1>5. channel' = <<>> \/ channel' = <<occurrences'[Ids'[Sent']].ev>>
  <2>1. CASE channel = <<>> \/ channel' = <<>>
    BY <2>1
  <2>2. CASE channel # <<>> /\ channel' = channel
    <3>1. channel = <<Row(Ids[Sent])>> /\ Sent \in 1..Len(Ids)
      BY <2>2, Counts
    <3>2. occurrences'[Ids'[Sent']].ev = occurrences[Ids[Sent]].ev
      BY <1>a, <1>c, <3>1
    <3>3. QED BY <3>1, <3>2 DEF Row
  <2>3. QED BY <2>1, <2>2
<1>6. channel' = <<>> \/ channel' = <<Row(Ids[Sent])>>'
  BY <1>5 DEF Row
<1>7. QED BY <1>1, <1>2, <1>3, <1>4, <1>6 DEF ReaderInv

\* nor the loop.
LEMMA LoopKeeps ==
    ASSUME LogInv, ReaderInv, LoopInv, Memory,
           occurrences' = occurrences \/ \E o \in Entry : occurrences' = Append(occurrences, o),
           loop'.pc = loop.pc, loop'.counter = loop.counter, loop'.fault = loop.fault,
           state' = state, scenario' = scenario
    PROVE  LoopInv'
<1>a. /\ Len(Ids)' \in Nat /\ Len(Ids) <= Len(Ids)'
      /\ \A n \in 1..Len(Ids) : /\ Ids'[n] = Ids[n] /\ Rows'[n] = Rows[n]
                                /\ occurrences'[Ids[n]] = occurrences[Ids[n]]
      /\ Rows' \in Seq(Entry) /\ Len(Rows)' = Len(Ids)'
  BY IdsGrow
<1>b. Len(Ids) \in Nat /\ Rows \in Seq(Entry) /\ Len(Rows) = Len(Ids)
      /\ \A n \in 1..Len(Ids) : Rows[n] = occurrences[Ids[n]]
  BY IdsFacts
<1>c. Taken' = Taken
  BY DEF Taken
<1>d. Sent \in 0..Len(Ids) /\ Taken \in Nat /\ loop.counter \in Nat /\ loop.counter <= Taken
      /\ (loop.pc \in {"emit", "error"} => Taken = loop.counter + 1) /\ Taken <= Sent
  BY Counts
<1>1. SubSeq(Rows', 1, loop.counter) = SubSeq(Rows, 1, loop.counter)
  <2>1. loop.counter \in 0..Len(Rows)
    BY <1>b, <1>d
  <2>2. QED BY <1>a, <1>b, <2>1, PrefixStays
<1>2. Meaning(SubSeq(Rows', 1, loop'.counter)) = Meaning(SubSeq(Rows, 1, loop.counter))
  BY <1>1
<1>3. (Meaning(SubSeq(Rows, 1, loop.counter)))' = Meaning(SubSeq(Rows', 1, loop'.counter))
  BY DEF Meaning, Index, Accepted, Hit
<1>4. state' = (Meaning(SubSeq(Rows, 1, loop.counter)))'
      /\ (state'.compiled \/ state'.effects = {})
  BY <1>2, <1>3 DEF LoopInv
<1>5. loop'.pc = "emit" => (Row(Ids[Taken]).t = "SyntheticPeriodicActions")'
  <2>1. CASE loop.pc = "emit"
    <3>1. Taken \in 1..Len(Ids) /\ Row(Ids[Taken]).t = "SyntheticPeriodicActions"
      BY <1>b, <1>d, <2>1 DEF LoopInv
    <3>2. occurrences'[Ids'[Taken']].ev = occurrences[Ids[Taken]].ev
      BY <1>a, <1>c, <3>1
    <3>3. QED BY <3>1, <3>2 DEF Row
  <2>2. QED BY <2>1
<1>6. EndsOnlyForCause'
  <2>1. CASE loop.pc = "error" /\ ~loop.fault
    <3> DEFINE at == loop.counter + 1
    <3>1. at \in 1..Len(Ids) /\ \A i \in 1..at - 1 : i \in 1..Len(Ids)
      BY <1>b, <1>d, <2>1
    <3>2. \/ Rows[at].ev.t = "CreateArgs" /\ ~scenario.compiles
          \/ /\ Rows[at].ev.t = "NewRecompileTriggeringObservation"
             /\ \/ ~\E i \in 1..at - 1 : Rows[i].ev.t = "CreateArgs"
                \/ ~SameAddress(Rows[at].ev)
      BY <2>1 DEF LoopInv, EndsOnlyForCause, Rows, Compiles
    <3>3. Rows'[at] = Rows[at] /\ \A i \in 1..at - 1 : Rows'[i] = Rows[i]
      BY <1>a, <3>1
    <3>4. \/ Rows'[at].ev.t = "CreateArgs" /\ ~scenario'.compiles
          \/ /\ Rows'[at].ev.t = "NewRecompileTriggeringObservation"
             /\ \/ ~\E i \in 1..at - 1 : Rows'[i].ev.t = "CreateArgs"
                \/ ~SameAddress(Rows'[at].ev)
      BY <3>2, <3>3
    <3>5. at' = at /\ Rows' = occurrences_for_group(key)'
      BY DEF Rows
    <3>6. QED BY <3>4, <3>5 DEF EndsOnlyForCause, SameAddress, Compiles
  <2>2. CASE ~(loop.pc = "error" /\ ~loop.fault)
    BY <2>2 DEF EndsOnlyForCause
  <2>3. QED BY <2>1, <2>2
<1>7. QED BY <1>4, <1>5, <1>6 DEF LoopInv

\* A process or an instance that has just started has sent and handled nothing.
LEMMA StartsAfresh ==
    ASSUME LogInv, occurrences' = occurrences, channel' = <<>>, state' = NotLoaded,
           reader'.last = 0, reader'.rows = <<>>, reader'.pc # "send",
           loop'.counter = 0, loop'.pc \notin {"emit", "error"}
    PROVE  ReaderInv' /\ LoopInv'
<1>1. Len(Ids)' \in Nat /\ Rows' \in Seq(Entry)
  BY IdsGrow
<1>2. Taken' = 0 /\ Len(channel') = 0 /\ Sent' = 0
  BY DEF Taken, Sent
<1>3. ReaderInv'
  BY <1>1, <1>2 DEF ReaderInv
<1>4. SubSeq(Rows', 1, 0) = <<>>
  BY <1>1
<1>5. (Meaning(SubSeq(Rows, 1, loop.counter)))' = Meaning(SubSeq(Rows', 1, loop'.counter))
  BY DEF Meaning, Index, Accepted, Hit
<1>6. state' = (Meaning(SubSeq(Rows, 1, loop.counter)))' /\ state'.effects = {}
  BY <1>4, <1>5, NothingKnown DEF NotLoaded
<1>7. EndsOnlyForCause'
  BY DEF EndsOnlyForCause
<1>8. QED BY <1>3, <1>6, <1>7 DEF LoopInv

\* The reader queries what comes after the last row that it sent.
LEMMA Wakes ==
    ASSUME LogInv, ReaderInv, LoopInv, Memory, event_log_processor_wakes
    PROVE  ReaderInv' /\ LoopInv'
<1> DEFINE rows == occurrences_for_group_after_id(key, reader.last)
<1>1. /\ UNCHANGED <<occurrences, channel, loop, state>>
      /\ \E b \in BOOLEAN :
            reader' = [reader EXCEPT !.rows = rows, !.notified = b,
                                     !.pc = IF rows = <<>> THEN "sleep" ELSE "send"]
  <2>1. reader.notified \in BOOLEAN
    BY DEF Memory
  <2>2. QED BY <2>1 DEF event_log_processor_wakes, evlog
<1>2. LoopInv'
  BY <1>1, LoopKeeps DEF event_log_processor_wakes, host_vars
<1>3. Ids' = Ids /\ Sent' = Sent /\ \A i : Row(i)' = Row(i)
  BY <1>1 DEF Ids, occurrences_for_group_after_id, Sent, Taken, Row, key
<1>4. Sent \in 0..Len(Ids) /\ Len(Ids) \in Nat /\ reader.last = Cursor(Ids, Sent)
  BY IdsFacts DEF ReaderInv, Cursor
<1>5. Continues(rows, Ids, Sent)
  BY <1>4, IdsFacts
<1>6. rows \in Seq(Nat)
  BY RowsAreIds
<1> HIDE DEF rows
<1>7. /\ reader'.last = reader.last /\ reader'.rows = rows
      /\ reader'.pc = "send" => rows # <<>>
  <2>1. reader \in [pc : {"off", "sleep", "send", "ended"}, last : Nat, rows : Seq(Nat),
                    notified : BOOLEAN]
    BY DEF Memory
  <2>2. QED BY <1>1, <2>1
<1>8. \A j \in DOMAIN rows : Sent + j <= Len(Ids) /\ rows[j] = Ids[Sent + j]
  BY <1>4, <1>5, <1>6 DEF Continues
<1>9. Len(Ids)' = Len(Ids)
  BY <1>3
<1>10. (channel = <<>> \/ channel = <<Row(Ids[Sent])>>)'
  <2>1. channel' = <<>> \/ channel' = <<occurrences[Ids[Sent]].ev>>
    BY <1>1 DEF ReaderInv, Row
  <2>2. QED BY <1>1, <1>3, <2>1 DEF Row
<1>11. ReaderInv'
  BY <1>3, <1>4, <1>7, <1>8, <1>9, <1>10 DEF ReaderInv, Cursor
<1>12. QED BY <1>2, <1>11

\* It sends the first of them, when the loop took the one before.
LEMMA SendsFirst ==
    ASSUME LogInv, ReaderInv, LoopInv, Memory, event_log_processor_sends
    PROVE  ReaderInv' /\ LoopInv'
<1>1. /\ UNCHANGED <<occurrences, loop, state>> /\ reader.pc = "send"
      /\ reader \in [pc : {"off", "sleep", "send", "ended"}, last : Nat, rows : Seq(Nat),
                     notified : BOOLEAN]
  BY DEF event_log_processor_sends, evlog, Memory
<1>2. LoopInv'
  BY <1>1, LoopKeeps DEF event_log_processor_sends, host_vars
<1>3. Ids' = Ids /\ Taken' = Taken /\ \A i : Row(i)' = Row(i)
  BY <1>1 DEF Ids, occurrences_for_group_after_id, Taken, Row, key
<1>4. CASE LoopGone
  <2>1. channel' = channel /\ reader' = [reader EXCEPT !.pc = "ended", !.rows = <<>>]
    BY <1>4 DEF event_log_processor_sends
  <2>2. reader'.last = reader.last /\ reader'.rows = <<>> /\ reader'.pc = "ended" /\ Sent' = Sent
    BY <1>1, <1>3, <2>1 DEF Sent
  <2>3. (channel = <<>> \/ channel = <<Row(Ids[Sent])>>)'
    <3>1. channel' = <<>> \/ channel' = <<occurrences[Ids[Sent]].ev>>
      BY <2>1 DEF ReaderInv, Row
    <3>2. QED BY <1>1, <1>3, <2>2, <3>1 DEF Row
  <2>4. Len(Ids)' = Len(Ids)
    BY <1>3
  <2>5. QED BY <1>2, <1>3, <2>2, <2>3, <2>4 DEF ReaderInv
<1>5. CASE ~LoopGone
  <2> DEFINE sent == Head(reader.rows)  rest == Tail(reader.rows)
  <2>1. /\ channel = <<>> /\ channel' = <<Row(sent)>>
        /\ \E pc \in {"sleep", "send"} :
              /\ pc = "send" => rest # <<>>
              /\ reader' = [reader EXCEPT !.last = sent, !.rows = rest, !.pc = pc]
    BY <1>5 DEF event_log_processor_sends, LastSent
  <2>2. reader.rows \in Seq(Nat) /\ reader.rows # <<>>
    BY <1>1 DEF ReaderInv
  <2>3. /\ 1 \in DOMAIN reader.rows /\ sent = reader.rows[1] /\ rest \in Seq(Nat)
        /\ \A j \in DOMAIN rest : j \in Nat /\ j + 1 \in DOMAIN reader.rows
                                  /\ rest[j] = reader.rows[j + 1]
    BY <2>2
  <2> HIDE DEF sent, rest
  <2>4. reader'.last = sent /\ reader'.rows = rest /\ (reader'.pc = "send" => rest # <<>>)
    BY <1>1, <2>1
  <2>5. Sent = Taken /\ Sent \in 0..Len(Ids) /\ Len(Ids) \in Nat
    BY <2>1, Counts
  <2>6. Sent + 1 <= Len(Ids) /\ sent = Ids[Sent + 1]
    BY <2>3 DEF ReaderInv
  <2>7. Len(channel') = 1 /\ Sent' = Sent + 1
    BY <1>3, <2>1, <2>5 DEF Sent
  <2>8. ASSUME NEW j \in DOMAIN rest
        PROVE  (Sent + 1) + j <= Len(Ids) /\ rest[j] = Ids[(Sent + 1) + j]
    <3>1. Sent + (j + 1) <= Len(Ids) /\ rest[j] = Ids[Sent + (j + 1)]
      BY <2>3 DEF ReaderInv
    <3>2. Sent + (j + 1) = (Sent + 1) + j
      BY <2>3, <2>5
    <3>3. QED BY <3>1, <3>2
  <2>9. channel' = <<occurrences[Ids[Sent + 1]].ev>>
    BY <2>1, <2>6 DEF Row
  <2>10. (channel = <<Row(Ids[Sent])>>)'
    BY <1>1, <1>3, <2>7, <2>9 DEF Row
  <2>11. Len(Ids)' = Len(Ids) /\ Sent + 1 \in 0..Len(Ids) /\ Sent + 1 # 0
    BY <1>3, <2>5, <2>6
  <2>12. ReaderInv'
    BY <1>3, <2>4, <2>6, <2>7, <2>8, <2>10, <2>11 DEF ReaderInv
  <2>13. QED BY <1>2, <2>12
<1>6. QED BY <1>4, <1>5

-----------------------------------------------------------------------------
(* The loop handles what the channel holds.                                   *)

\* While the loop waits, the channel holds the row after those that were handled.
LEMMA Holds ==
    ASSUME IndInv, loop.pc = "recv", channel # <<>>
    PROVE  LET c == loop.counter IN
           /\ c \in Nat /\ c < Len(Rows) /\ c + 1 \in 1..Len(Ids) /\ c \in 0..Len(Ids)
           /\ Taken = c /\ Sent = c + 1
           /\ Rows \in Seq(Entry) /\ Len(Rows) = Len(Ids) /\ Len(Ids) \in Nat
           /\ channel = <<Rows[c + 1].ev>> /\ ev = Rows[c + 1].ev
           /\ state = Meaning(SubSeq(Rows, 1, c))
<1>1. LogInv /\ ReaderInv /\ Memory /\ LoopInv
  BY DEF IndInv, InstanceInv, ReplayInv
<1>2. Taken = loop.counter /\ Sent = loop.counter + 1 /\ loop.counter \in Nat
      /\ Len(Ids) \in Nat /\ Sent \in 1..Len(Ids) /\ channel = <<Row(Ids[Sent])>>
  BY <1>1, Counts
<1>3. Rows \in Seq(Entry) /\ Len(Rows) = Len(Ids) /\ Rows[Sent] = occurrences[Ids[Sent]]
  BY <1>1, <1>2, IdsFacts
<1>4. channel = <<Rows[loop.counter + 1].ev>>
  BY <1>2, <1>3 DEF Row
<1>5. ev = Rows[loop.counter + 1].ev
  BY <1>4 DEF ev
<1>6. state = Meaning(SubSeq(Rows, 1, loop.counter))
  BY <1>1 DEF LoopInv
<1>7. QED BY <1>2, <1>3, <1>4, <1>5, <1>6

\* An occurrence handled adds what it means to the state.
LEMMA HandledOne ==
    ASSUME IndInv, loop.pc = "recv", channel # <<>>,
           occurrences' = occurrences, reader' = reader, channel' = <<>>,
           loop'.pc = "recv", loop'.counter = loop.counter + 1,
           state'.compiled \/ state'.effects = {},
           \E m, k, b \in BOOLEAN :
              /\ m <=> (state.module \/ ev.t = "ModuleBytes")
              /\ k <=> (state.compiled \/ ev.t = "CreateArgs")
              /\ b <=> (state.bound \/ ev.t = "Rebind")
              /\ state' = [module |-> m, compiled |-> k, bound |-> b,
                           effects |-> state.effects \cup News(loop.counter, ev)]
    PROVE  ReaderInv' /\ LoopInv'
<1>1. LogInv /\ ReaderInv /\ Memory
  BY DEF IndInv, InstanceInv, ReplayInv
<1> DEFINE c == loop.counter
           s == SubSeq(Rows, 1, c)
           u == SubSeq(Rows, 1, c + 1)
<1>2. /\ c \in Nat /\ c < Len(Rows) /\ Rows \in Seq(Entry) /\ Taken = c /\ Sent = c + 1
      /\ ev = Rows[c + 1].ev /\ state = Meaning(s)
  BY Holds
<1>3. Rows' = Rows
  BY DEF Rows, occurrences_for_group, occurrences_for_group_after_id, key
<1>4. Taken' = c + 1 /\ Len(channel') = 0 /\ Sent' = Sent
  BY <1>2 DEF Taken, Sent
<1>5. ReaderInv'
  BY <1>1, <1>4, ReaderKeeps
<1>6. /\ Meaning(u).module <=> (Meaning(s).module \/ ev.t = "ModuleBytes")
      /\ Meaning(u).compiled <=> (Meaning(s).compiled \/ ev.t = "CreateArgs")
      /\ Meaning(u).bound <=> (Meaning(s).bound \/ ev.t = "Rebind")
      /\ Meaning(u).effects = Meaning(s).effects \cup News(c, ev)
  <2>1. OneMore(Rows, c, s, u, ev)
    BY <1>2 DEF OneMore
  <2> HIDE DEF c, s, u
  <2>2. QED BY ONLY <2>1, MeaningStep
<1> HIDE DEF c, s, u
<1>7. /\ Meaning(u) = [module |-> Meaning(u).module, compiled |-> Meaning(u).compiled,
                      effects |-> Meaning(u).effects, bound |-> Meaning(u).bound]
      /\ Meaning(u).module \in BOOLEAN /\ Meaning(u).compiled \in BOOLEAN
      /\ Meaning(u).bound \in BOOLEAN
  BY MeaningRecord
<1>8. PICK m \in BOOLEAN, k \in BOOLEAN, b \in BOOLEAN :
              /\ m <=> (state.module \/ ev.t = "ModuleBytes")
              /\ k <=> (state.compiled \/ ev.t = "CreateArgs")
              /\ b <=> (state.bound \/ ev.t = "Rebind")
              /\ state' = [module |-> m, compiled |-> k, bound |-> b,
                           effects |-> state.effects \cup News(c, ev)]
  BY DEF c
<1>9. Meaning(u).module = m /\ Meaning(u).compiled = k /\ Meaning(u).bound = b
      /\ Meaning(u).effects = state.effects \cup News(c, ev)
  BY <1>2, <1>6, <1>7, <1>8
<1>10. state' = Meaning(u)
  BY <1>7, <1>8, <1>9
<1>11. (Meaning(SubSeq(Rows, 1, loop.counter)))' = Meaning(SubSeq(Rows', 1, loop'.counter))
  BY DEF Meaning, Index, Accepted, Hit
<1>12. state' = (Meaning(SubSeq(Rows, 1, loop.counter)))'
  BY <1>3, <1>10, <1>11 DEF u, c
<1>13. EndsOnlyForCause'
  BY DEF EndsOnlyForCause
<1>14. LoopInv'
  BY <1>12, <1>13 DEF LoopInv
<1>15. QED BY <1>5, <1>14

\* An occurrence at which the loop stops for a time or for good leaves the state.
LEMMA HandledNone ==
    ASSUME IndInv, loop.pc = "recv", channel # <<>>,
           occurrences' = occurrences, reader' = reader, channel' = <<>>, state' = state,
           loop'.counter = loop.counter, scenario' = scenario,
           \/ loop'.pc = "emit" /\ ev.t = "SyntheticPeriodicActions"
           \/ /\ loop'.pc = "error" /\ ev.t = "NewRecompileTriggeringObservation"
              /\ ~state.compiled \/ ~SameAddress(ev)
           \/ loop'.pc = "error" /\ ev.t = "CreateArgs" /\ ~Compiles
           \/ loop'.pc = "error" /\ loop'.fault
    PROVE  ReaderInv' /\ LoopInv'
<1>1. LogInv /\ ReaderInv /\ Memory /\ LoopInv
  BY DEF IndInv, InstanceInv, ReplayInv
<1>2. /\ loop.counter \in Nat /\ loop.counter \in 0..Len(Ids) /\ Taken = loop.counter
      /\ Sent = loop.counter + 1 /\ loop.counter + 1 \in 1..Len(Ids)
      /\ ev = Rows[loop.counter + 1].ev /\ state = Meaning(SubSeq(Rows, 1, loop.counter))
  BY Holds
<1>3. Rows' = Rows /\ Ids' = Ids
  BY DEF Rows, Ids, occurrences_for_group, occurrences_for_group_after_id, key
<1>4. Taken' = loop.counter + 1 /\ Len(channel') = 0 /\ Sent' = Sent
  BY <1>2 DEF Taken, Sent
<1>5. ReaderInv'
  BY <1>1, <1>4, ReaderKeeps
<1>6. (Meaning(SubSeq(Rows, 1, loop.counter)))' = Meaning(SubSeq(Rows', 1, loop'.counter))
  BY DEF Meaning, Index, Accepted, Hit
<1>7. state' = (Meaning(SubSeq(Rows, 1, loop.counter)))' /\ (state'.compiled \/ state'.effects = {})
  BY <1>1, <1>2, <1>3, <1>6 DEF LoopInv
<1>8. Rows[loop.counter + 1] = occurrences[Ids[loop.counter + 1]]
  BY <1>1, <1>2, IdsFacts
<1>9. loop'.pc = "emit" => (Row(Ids[Taken]).t = "SyntheticPeriodicActions")'
  <2>1. CASE ev.t = "SyntheticPeriodicActions"
    <3>1. occurrences[Ids[loop.counter + 1]].ev.t = "SyntheticPeriodicActions"
      BY <1>2, <1>8, <2>1
    <3>2. occurrences'[Ids'[Taken']].ev.t = "SyntheticPeriodicActions"
      BY <1>3, <1>4, <3>1
    <3>3. QED BY <3>2 DEF Row
  <2>2. CASE loop'.pc # "emit"
    BY <2>2
  <2>3. QED BY <2>1, <2>2
<1>10. EndsOnlyForCause'
  <2>1. CASE loop'.pc # "error" \/ loop'.fault
    BY <2>1 DEF EndsOnlyForCause
  <2>2. CASE loop'.pc = "error" /\ ~loop'.fault
    <3>1. \/ ev.t = "CreateArgs" /\ ~scenario'.compiles
          \/ /\ ev.t = "NewRecompileTriggeringObservation"
             /\ ~state.compiled \/ ~SameAddress(ev)
      BY <2>2 DEF Compiles
    <3>2. ~state.compiled => ~\E i \in 1..loop.counter : Rows[i].ev.t = "CreateArgs"
      BY <1>1, <1>2, Known
    <3>3. (loop.counter + 1) - 1 = loop.counter
      BY <1>2
    <3>4. LET at == loop.counter + 1 IN
          \/ Rows[at].ev.t = "CreateArgs" /\ ~scenario'.compiles
          \/ /\ Rows[at].ev.t = "NewRecompileTriggeringObservation"
             /\ \/ ~\E i \in 1..at - 1 : Rows[i].ev.t = "CreateArgs"
                \/ ~SameAddress(Rows[at].ev)
      BY <1>2, <3>1, <3>2, <3>3
    <3>5. Rows' = occurrences_for_group(key)'
      BY DEF Rows
    <3>6. QED BY <1>3, <3>4, <3>5 DEF EndsOnlyForCause, SameAddress, Compiles
  <2>3. QED BY <2>1, <2>2
<1>11. QED BY <1>5, <1>7, <1>9, <1>10 DEF LoopInv

\* What the instance compiles follows the order of the log: when the arguments are
\* handled the module is known, and once the contract is bound it is compiled.
LEMMA InOrder ==
    ASSUME IndInv, loop.pc = "recv", channel # <<>>
    PROVE  /\ ev.t = "ModuleBytes" => AlreadyExists(ModuleRepo, module_tag)
           /\ ev.t = "CreateArgs" => state.module /\ ~state.compiled
           /\ ev.t = "SyntheticPeriodicActions" /\ state.bound => state.compiled
<1> DEFINE c == loop.counter
<1>1. LogInv /\ c \in Nat /\ c \in 0..Len(Ids) /\ c + 1 \in 1..Len(Ids) /\ Len(Ids) \in Nat
      /\ ev = Rows[c + 1].ev /\ state = Meaning(SubSeq(Rows, 1, c)) /\ (c + 1) - 1 = c
  BY Holds DEF IndInv
<1> HIDE DEF c
<1>2. /\ state.module <=> \E i \in 1..c : Rows[i].ev.t = "ModuleBytes"
      /\ state.compiled <=> \E i \in 1..c : Rows[i].ev.t = "CreateArgs"
      /\ state.bound <=> \E i \in 1..c : Rows[i].ev.t = "Rebind"
  BY <1>1, Known
<1>3. ev.t = "ModuleBytes" => AlreadyExists(ModuleRepo, module_tag)
  BY <1>1, RowsInOrder
<1>4. ASSUME ev.t = "CreateArgs" PROVE state.module /\ ~state.compiled
  <2>1. \E m \in 1..c : Rows[m].ev.t = "ModuleBytes"
    BY <1>1, <1>4, RowsInOrder
  <2>2. \A m \in 1..Len(Ids) : Rows[m].ev.t = "CreateArgs" => m = c + 1
    BY <1>1, <1>4, RowsInOrder
  <2>3. \A i \in 1..c : i \in 1..Len(Ids) /\ i # c + 1
    BY <1>1
  <2>4. QED BY <1>2, <2>1, <2>2, <2>3
<1>5. ASSUME state.bound PROVE state.compiled
  <2>1. PICK i \in 1..c : Rows[i].ev.t = "Rebind"
    BY <1>2, <1>5
  <2>2. i \in 1..Len(Ids) /\ \A m \in 1..i - 1 : m \in 1..c
    BY <1>1
  <2>3. \E m \in 1..i - 1 : Rows[m].ev.t = "CreateArgs"
    BY <1>1, <2>1, <2>2, RowsInOrder
  <2>4. QED BY <1>2, <2>2, <2>3
<1>6. QED BY <1>3, <1>4, <1>5

\* What each handler of the loop does with its occurrence.
LEMMA Handlers ==
    ASSUME IndInv, Handle, ~recv_none
    PROVE  /\ UNCHANGED <<host_vars, evlog, reader>>
           /\ loop.pc = "recv" /\ channel # <<>> /\ channel' = <<>>
           /\ \/ /\ loop'.pc = "recv" /\ loop'.counter = loop.counter + 1
                 /\ state'.compiled \/ state'.effects = {}
                 /\ \E m, k, b \in BOOLEAN :
                       /\ m <=> (state.module \/ ev.t = "ModuleBytes")
                       /\ k <=> (state.compiled \/ ev.t = "CreateArgs")
                       /\ b <=> (state.bound \/ ev.t = "Rebind")
                       /\ state' = [module |-> m, compiled |-> k, bound |-> b,
                                    effects |-> state.effects \cup News(loop.counter, ev)]
              \/ /\ loop'.counter = loop.counter /\ state' = state
                 /\ \/ loop'.pc = "emit" /\ ev.t = "SyntheticPeriodicActions"
                    \/ /\ loop'.pc = "error" /\ ev.t = "NewRecompileTriggeringObservation"
                       /\ ~state.compiled \/ ~SameAddress(ev)
                    \/ loop'.pc = "error" /\ ev.t = "CreateArgs" /\ ~Compiles
<1> DEFINE Adds1(m, k, b, e) ==
        /\ loop'.pc = "recv" /\ loop'.counter = loop.counter + 1
        /\ state' = [module |-> m, compiled |-> k, effects |-> e, bound |-> b]
        /\ k \/ e = {}
        /\ m <=> (state.module \/ ev.t = "ModuleBytes")
        /\ k <=> (state.compiled \/ ev.t = "CreateArgs")
        /\ b <=> (state.bound \/ ev.t = "Rebind")
        /\ e = state.effects \cup News(loop.counter, ev)
       Stops ==
        /\ loop'.counter = loop.counter /\ state' = state
        /\ \/ loop'.pc = "emit" /\ ev.t = "SyntheticPeriodicActions"
           \/ /\ loop'.pc = "error" /\ ev.t = "NewRecompileTriggeringObservation"
              /\ ~state.compiled \/ ~SameAddress(ev)
           \/ loop'.pc = "error" /\ ev.t = "CreateArgs" /\ ~Compiles
       Does == channel # <<>> /\ channel' = <<>> /\ (Stops \/ \E m, k, b \in BOOLEAN : \E e : Adds1(m, k, b, e))
<1>0. loop.pc = "recv"
  BY DEF Handle, recv_record, handle_module_bytes, handle_create_args, handle_rebind,
         handle_new_information, handle_synthetic_periodic, Received
<1>1. LoopInv /\ loop \in [pc : {"off", "recv", "emit", "spin", "error", "dropped"}, counter : Nat,
                           queue : SUBSET Pair, fault : BOOLEAN]
  BY <1>0 DEF IndInv, InstanceInv, Memory, ReplayInv
<1>2. PICK m \in BOOLEAN, k \in BOOLEAN, b \in BOOLEAN : \E e \in {state.effects} :
         /\ state = [module |-> m, compiled |-> k, effects |-> e, bound |-> b]
         /\ k \/ e = {}
  <2>1. state = Meaning(SubSeq(Rows, 1, loop.counter)) /\ (state.compiled \/ state.effects = {})
    BY <1>1 DEF LoopInv
  <2>2. QED BY <2>1, MeaningRecord
<1> DEFINE e == state.effects
<1>b. state = [module |-> m, compiled |-> k, effects |-> e, bound |-> b] /\ (k \/ e = {})
  BY <1>2
<1> HIDE DEF e
<1>3. \A t : Received(t) => loop.pc = "recv" /\ channel # <<>> /\ ev.t = t
  BY DEF Received, ev
<1>4. Counted => channel' = <<>> /\ loop' = [loop EXCEPT !.counter = loop.counter + 1]
  BY DEF Counted
<1>5. Fails => channel' = <<>> /\ loop' = [loop EXCEPT !.pc = "error"] /\ state' = state
  BY DEF Fails
<1>6. /\ Counted /\ loop.pc = "recv" => loop'.pc = "recv" /\ loop'.counter = loop.counter + 1
      /\ Fails => loop'.pc = "error" /\ loop'.counter = loop.counter
  BY <1>1, <1>4, <1>5
<1>7. \A t : ev.t = t /\ t # "NewRecompileTriggeringObservation" => News(loop.counter, ev) = {}
  BY DEF News
<1>8. state.module = m /\ state.compiled = k /\ state.effects = e /\ state.bound = b
  BY <1>b DEF e
<1>9. ASSUME recv_record PROVE Does
  <2>1. Counted /\ state' = state /\ channel # <<>> /\ loop.pc = "recv"
        /\ ev.t \in {"EmittedPSBTVia", "TransactionFinalized"}
    BY <1>3, <1>9 DEF recv_record
  <2>2. Adds1(m, k, b, e)
    BY <1>b, <1>6, <1>7, <1>8, <2>1
  <2> HIDE DEF Adds1
  <2>3. QED BY <1>4, <2>1, <2>2
<1>10. ASSUME handle_module_bytes PROVE Does
  <2>1. Received("ModuleBytes") /\ ev.t = "ModuleBytes" /\ channel # <<>> /\ loop.pc = "recv"
    BY <1>3, <1>10 DEF handle_module_bytes
  <2>2. Counted /\ state' = [state EXCEPT !.module = TRUE]
    BY <1>10, <2>1, InOrder DEF handle_module_bytes
  <2>3. state' = [module |-> TRUE, compiled |-> k, effects |-> e, bound |-> b]
    BY <1>b, <2>2
  <2>4. Adds1(TRUE, k, b, e)
    BY <1>b, <1>6, <1>7, <1>8, <2>1, <2>2, <2>3
  <2> HIDE DEF Adds1
  <2>5. QED BY <1>4, <2>1, <2>2, <2>4
<1>11. ASSUME handle_create_args PROVE Does
  <2>1. Received("CreateArgs") /\ ev.t = "CreateArgs" /\ channel # <<>> /\ loop.pc = "recv"
    BY <1>3, <1>11 DEF handle_create_args
  <2>2. state.module /\ ~state.compiled
    BY <2>1, InOrder
  <2>3. CASE Compiles
    <3>1. Counted /\ state' = [state EXCEPT !.compiled = TRUE, !.effects = {}]
      BY <1>11, <2>2, <2>3 DEF handle_create_args
    <3>2. e = {}
      BY <1>b, <1>8, <2>2
    <3>3. state' = [module |-> m, compiled |-> TRUE, effects |-> {}, bound |-> b]
      BY <1>b, <3>1
    <3>4. Adds1(m, TRUE, b, {})
      BY <1>b, <1>6, <1>7, <1>8, <2>1, <2>2, <3>1, <3>2, <3>3
    <3> HIDE DEF Adds1
    <3>5. QED BY <1>4, <2>1, <3>1, <3>4
  <2>4. CASE ~Compiles
    <3>1. Fails
      BY <1>11, <2>4 DEF handle_create_args
    <3>2. Stops
      BY <1>5, <1>6, <2>1, <2>4, <3>1
    <3> HIDE DEF Stops
    <3>3. QED BY <1>5, <2>1, <3>1, <3>2
  <2>5. QED BY <2>3, <2>4
<1>12. ASSUME handle_rebind PROVE Does
  <2>1. ev.t = "Rebind" /\ channel # <<>> /\ loop.pc = "recv"
        /\ Counted /\ state' = [state EXCEPT !.bound = TRUE]
    BY <1>3, <1>12 DEF handle_rebind
  <2>2. state' = [module |-> m, compiled |-> k, effects |-> e, bound |-> TRUE]
    BY <1>b, <2>1
  <2>3. Adds1(m, k, TRUE, e)
    BY <1>b, <1>6, <1>7, <1>8, <2>1, <2>2
  <2> HIDE DEF Adds1
  <2>4. QED BY <1>4, <2>1, <2>3
<1>13. ASSUME handle_new_information PROVE Does
  <2> DEFINE hits == Hits
             save == {<<api.path, loop.counter, ev.v>> : api \in hits}
  <2>1. ev.t = "NewRecompileTriggeringObservation" /\ channel # <<>> /\ loop.pc = "recv"
    BY <1>3, <1>13 DEF handle_new_information
  <2>2. \/ (~state.compiled \/ ~SameAddress(ev)) /\ Fails
        \/ /\ state.compiled /\ Accepted(ev) /\ Counted
           /\ state' = [state EXCEPT !.effects = state.effects \cup save]
        \/ state.compiled /\ (hits = {} \/ ~Accepted(ev)) /\ Counted /\ state' = state
    BY <1>13 DEF handle_new_information
  <2>3. News(loop.counter, ev) = IF Accepted(ev) THEN save ELSE {}
    BY <2>1 DEF News, Hits
  <2>4. hits = {} => save = {}
    OBVIOUS
  <2> HIDE DEF hits, save
  <2>5. CASE (~state.compiled \/ ~SameAddress(ev)) /\ Fails
    <3>1. Stops
      BY <1>5, <1>6, <2>1, <2>5
    <3> HIDE DEF Stops
    <3>2. QED BY <1>5, <2>1, <2>5, <3>1
  <2>6. CASE /\ state.compiled /\ Accepted(ev) /\ Counted
             /\ state' = [state EXCEPT !.effects = state.effects \cup save]
    <3>1. state' = [module |-> m, compiled |-> k, effects |-> e \cup save, bound |-> b]
      BY <1>b, <1>8, <2>6
    <3>2. Adds1(m, k, b, e \cup save)
      BY <1>b, <1>6, <1>8, <2>1, <2>3, <2>6, <3>1
    <3> HIDE DEF Adds1
    <3>3. QED BY <1>4, <2>1, <2>6, <3>2
  <2>7. CASE state.compiled /\ (hits = {} \/ ~Accepted(ev)) /\ Counted /\ state' = state
    <3>1. News(loop.counter, ev) = {}
      BY <2>3, <2>4, <2>7
    <3>2. Adds1(m, k, b, e)
      BY <1>b, <1>6, <1>8, <2>1, <2>7, <3>1
    <3> HIDE DEF Adds1
    <3>3. QED BY <1>4, <2>1, <2>7, <3>2
  <2>8. QED BY <2>2, <2>5, <2>6, <2>7
<1>14. ASSUME handle_synthetic_periodic PROVE Does
  <2>1. ev.t = "SyntheticPeriodicActions" /\ channel # <<>> /\ loop.pc = "recv"
    BY <1>3, <1>14 DEF handle_synthetic_periodic
  <2>2. state.bound => state.compiled
    BY <2>1, InOrder
  <2>3. channel' = <<>> /\ loop' = [loop EXCEPT !.pc = "emit", !.queue = ToSign] /\ state' = state
    BY <1>14, <2>2 DEF handle_synthetic_periodic
  <2>4. loop'.pc = "emit" /\ loop'.counter = loop.counter
    BY <1>1, <2>3
  <2>5. Stops
    BY <2>1, <2>3, <2>4
  <2> HIDE DEF Stops
  <2>6. QED BY <2>1, <2>3, <2>5
<1>15. UNCHANGED <<host_vars, evlog, reader>>
  BY HandleReads
<1>16. Does => /\ channel # <<>> /\ channel' = <<>>
               /\ \/ /\ loop'.pc = "recv" /\ loop'.counter = loop.counter + 1
                     /\ state'.compiled \/ state'.effects = {}
                     /\ \E x, y, z \in BOOLEAN :
                           /\ x <=> (state.module \/ ev.t = "ModuleBytes")
                           /\ y <=> (state.compiled \/ ev.t = "CreateArgs")
                           /\ z <=> (state.bound \/ ev.t = "Rebind")
                           /\ state' = [module |-> x, compiled |-> y, bound |-> z,
                                        effects |-> state.effects \cup News(loop.counter, ev)]
                  \/ Stops
  OBVIOUS
<1>17. QED
  <2> HIDE DEF Adds1
  <2>1. Does
    BY <1>9, <1>10, <1>11, <1>12, <1>13, <1>14 DEF Handle
  <2> HIDE DEF Does
  <2>2. QED BY <1>0, <1>15, <1>16, <2>1

\* The end of an emission: the periodic event is handled, and means nothing.
LEMMA EmitEnds ==
    ASSUME LogInv, ReaderInv, LoopInv, Memory, emit_ends
    PROVE  ReaderInv' /\ LoopInv'
<1> DEFINE c == loop.counter
           s == SubSeq(Rows, 1, c)
           u == SubSeq(Rows, 1, c + 1)
<1>1. /\ loop.pc = "emit" /\ loop'.pc = "recv" /\ loop'.counter = c + 1
      /\ UNCHANGED <<occurrences, reader, channel, state>>
  <2>1. loop \in [pc : {"off", "recv", "emit", "spin", "error", "dropped"}, counter : Nat,
                  queue : SUBSET Pair, fault : BOOLEAN]
    BY DEF Memory
  <2>2. QED BY <2>1 DEF emit_ends, Unread, evlog
<1>2. /\ c \in Nat /\ Taken = c + 1 /\ Len(Ids) \in Nat /\ Taken <= Len(Ids)
  BY <1>1, Counts
<1>3. Rows' = Rows
  BY <1>1 DEF Rows, occurrences_for_group, occurrences_for_group_after_id, key
<1>4. Taken' = Taken /\ Sent' = Sent
  BY <1>1, <1>2 DEF Taken, Sent
<1>5. ReaderInv'
  BY <1>1, <1>4, ReaderKeeps
<1>6. /\ Rows \in Seq(Entry) /\ Len(Rows) = Len(Ids) /\ c + 1 \in 1..Len(Ids)
      /\ Rows[c + 1] = occurrences[Ids[c + 1]]
  BY <1>2, IdsFacts
<1>7. Rows[c + 1].ev.t = "SyntheticPeriodicActions"
  BY <1>1, <1>2, <1>6 DEF LoopInv, Row
<1> DEFINE e == Rows[c + 1].ev
<1>8. OneMore(Rows, c, s, u, e)
  BY <1>2, <1>6 DEF OneMore
<1> HIDE DEF s, u, e
<1>9. /\ Meaning(u).module <=> (Meaning(s).module \/ e.t = "ModuleBytes")
      /\ Meaning(u).compiled <=> (Meaning(s).compiled \/ e.t = "CreateArgs")
      /\ Meaning(u).bound <=> (Meaning(s).bound \/ e.t = "Rebind")
      /\ Meaning(u).effects = Meaning(s).effects \cup News(c, e)
  BY <1>8, MeaningStep
<1>10. e.t = "SyntheticPeriodicActions"
  BY <1>7 DEF e
<1>11. /\ Meaning(u).module <=> Meaning(s).module
       /\ Meaning(u).compiled <=> Meaning(s).compiled
       /\ Meaning(u).bound <=> Meaning(s).bound
       /\ Meaning(u).effects = Meaning(s).effects
  BY <1>9, <1>10 DEF News
<1>12. Meaning(u) = Meaning(s)
  <2>1. \A r : /\ Meaning(r) = [module |-> Meaning(r).module, compiled |-> Meaning(r).compiled,
                                effects |-> Meaning(r).effects, bound |-> Meaning(r).bound]
               /\ Meaning(r).module \in BOOLEAN /\ Meaning(r).compiled \in BOOLEAN
               /\ Meaning(r).bound \in BOOLEAN
    BY MeaningRecord
  <2>2. /\ Meaning(u).module = Meaning(s).module /\ Meaning(u).compiled = Meaning(s).compiled
        /\ Meaning(u).bound = Meaning(s).bound
    BY <1>11, <2>1
  <2>3. QED BY <1>11, <2>1, <2>2
<1>13. (Meaning(SubSeq(Rows, 1, loop.counter)))' = Meaning(SubSeq(Rows', 1, loop'.counter))
  BY DEF Meaning, Index, Accepted, Hit
<1>14. Meaning(SubSeq(Rows', 1, loop'.counter)) = Meaning(u)
  BY <1>1, <1>3 DEF u
<1>15. state = Meaning(s) /\ (state.compiled \/ state.effects = {})
  BY DEF LoopInv, s
<1>16. state' = (Meaning(SubSeq(Rows, 1, loop.counter)))' /\ (state'.compiled \/ state'.effects = {})
  BY <1>1, <1>12, <1>13, <1>14, <1>15
<1>17. EndsOnlyForCause'
  BY <1>1 DEF EndsOnlyForCause
<1>18. QED BY <1>1, <1>5, <1>16, <1>17 DEF LoopInv

\* What the steps of the litigator leave to the reader and to the loop.
LEMMA LoopRests ==
    ASSUME Memory, [Next]_vars, ~litigator_crashes, ~litigate_contract, ~HandlerFails,
           ~event_log_processor_wakes, ~event_log_processor_sends, ~Handle, ~emit_ends
    PROVE  /\ loop'.pc = loop.pc /\ loop'.counter = loop.counter /\ loop'.fault = loop.fault
           /\ channel' = channel /\ state' = state
           /\ reader'.last = reader.last /\ reader'.rows = reader.rows
           /\ reader'.pc \in {reader.pc, "ended"}
<1>1. /\ loop \in [pc : {"off", "recv", "emit", "spin", "error", "dropped"}, counter : Nat,
                   queue : SUBSET Pair, fault : BOOLEAN]
      /\ reader \in [pc : {"off", "sleep", "send", "ended"}, last : Nat, rows : Seq(Nat),
                     notified : BOOLEAN]
  BY DEF Memory
<1>2. CASE UNCHANGED <<reader, channel, loop, state>>
  BY <1>2
<1>3. litigator_starts \/ scan_for_new_contracts \/ instance_ends
      => UNCHANGED <<reader, channel, loop, state>>
  BY DEF litigator_starts, scan_for_new_contracts, instance_ends
<1>4. CASE event_log_processor_fails
  <2>1. reader' = [reader EXCEPT !.pc = "ended"] /\ UNCHANGED <<channel, loop, state>>
    BY <1>4 DEF event_log_processor_fails
  <2>2. QED BY <1>1, <2>1
<1>5. ASSUME NEW p \in Pair, \/ emit_finds(p) \/ emit_posts(p) \/ emit_fails(p)
                               \/ emit_commits(p) \/ emit_commit_fails(p)
      PROVE  /\ UNCHANGED <<reader, channel, state>>
             /\ loop'.pc = loop.pc /\ loop'.counter = loop.counter /\ loop'.fault = loop.fault
  <2>1. UNCHANGED <<reader, channel, state>> /\ (loop' = loop \/ loop' = [loop EXCEPT !.queue = @ \ {p}])
    BY <1>5 DEF emit_finds, emit_posts, emit_fails, emit_commits, emit_commit_fails, Pop
  <2>2. QED BY <1>1, <2>1
<1>6. CASE Extract
  <2>1. UNCHANGED <<channel, loop, state>>
    BY <1>6 DEF Extract, time_event_extractor, dlog_extractor, start_game, make_snapshot,
               handle_psbts, Extracted
  <2>2. reader' = reader \/ reader' = [reader EXCEPT !.notified = TRUE]
    BY <1>6 DEF Extract, time_event_extractor, dlog_extractor, start_game, make_snapshot,
               handle_psbts, notify_one
  <2>3. QED BY <1>1, <2>1, <2>2
<1>7. attestations_arrive => UNCHANGED <<reader, channel, loop, state>>
  BY DEF attestations_arrive, World
<1>8. UNCHANGED lit_vars => UNCHANGED <<reader, channel, loop, state>>
  BY DEF lit_vars
<1>9. QED BY <1>2, <1>3, <1>4, <1>5, <1>6, <1>7, <1>8 DEF Next, LitigatorNext, Emits, vars

\* The reader and the loop keep their places in the log, whatever is done.
LEMMA ReplayNext == IndInv /\ [Next]_vars => ReplayInv'
<1>1. SUFFICES ASSUME IndInv, [Next]_vars PROVE ReplayInv'
  OBVIOUS
<1>2. LogInv /\ Memory /\ ReplayInv
  BY <1>1 DEF IndInv, InstanceInv
<1>a. loop.pc # "spin" => ReaderInv /\ LoopInv
  BY <1>2 DEF ReplayInv
<1>b. loop'.pc # "spin" /\ ReaderInv' /\ LoopInv' => ReplayInv'
  BY DEF ReplayInv
<1>c. scenario' = scenario
  BY <1>1, ScenarioStays
<1>3. occurrences' = occurrences \/ \E o \in Entry : occurrences' = Append(occurrences, o)
  BY <1>1, LogSteps DEF Adds
<1>4. \A pc : Idle(pc).last = 0 /\ Idle(pc).rows = <<>> /\ Idle(pc).pc = pc
              /\ Loop(pc).counter = 0 /\ Loop(pc).pc = pc
  BY DEF Idle, Loop
<1>5. CASE litigator_crashes
  <2>1. /\ reader' = Idle("off") /\ channel' = <<>> /\ loop' = Loop("off")
        /\ state' = NotLoaded /\ occurrences' = occurrences
    BY <1>5 DEF litigator_crashes
  <2>2. /\ reader'.last = 0 /\ reader'.rows = <<>> /\ reader'.pc # "send"
        /\ loop'.counter = 0 /\ loop'.pc \notin {"emit", "error", "spin"}
    BY <1>4, <2>1
  <2>3. QED BY <1>2, <1>b, <2>1, <2>2, StartsAfresh
<1>6. CASE litigate_contract
  <2>1. /\ reader' = Idle("sleep") /\ loop' \in {Loop("recv"), Loop("dropped")}
        /\ channel' = channel /\ state' = state /\ occurrences' = occurrences /\ task = "spawned"
    BY <1>6 DEF litigate_contract, evlog
  <2>2. channel = <<>> /\ state = NotLoaded
    BY <1>2, <2>1 DEF Memory
  <2>3. /\ reader'.last = 0 /\ reader'.rows = <<>> /\ reader'.pc # "send"
        /\ loop'.counter = 0 /\ loop'.pc \notin {"emit", "error", "spin"}
    BY <1>4, <2>1
  <2>4. QED BY <1>2, <1>b, <2>1, <2>2, <2>3, StartsAfresh
<1>7. CASE event_log_processor_wakes \/ event_log_processor_sends
  <2>1. reader.pc # "ended" /\ loop' = loop
    BY <1>7 DEF event_log_processor_wakes, event_log_processor_sends
  <2>2. loop.pc # "spin"
    BY <1>2, <2>1 DEF ReplayInv
  <2>3. QED BY <1>2, <1>7, <1>a, <1>b, <2>1, <2>2, Wakes, SendsFirst
<1>8. CASE emit_ends
  <2>1. loop.pc = "emit" /\ loop'.pc = "recv"
    BY <1>2, <1>8 DEF emit_ends, Memory
  <2>2. QED BY <1>2, <1>8, <1>a, <1>b, <2>1, EmitEnds
<1>9. CASE Handle
  <2>1. CASE recv_none
    <3>1. /\ channel = <<>> /\ reader.pc = "ended" /\ UNCHANGED <<channel, reader>>
          /\ loop' = [loop EXCEPT !.pc = "spin", !.counter = @ + 1]
      BY <2>1 DEF recv_none, Unread
    <3>2. loop'.pc = "spin"
      BY <1>2, <3>1 DEF Memory
    <3>3. QED BY <3>1, <3>2 DEF ReplayInv
  <2>2. CASE ~recv_none
    <3>1. occurrences' = occurrences /\ reader' = reader /\ loop.pc = "recv" /\ loop'.pc # "spin"
      BY <1>1, <1>9, <2>2, Handlers DEF evlog
    <3>2. ReaderInv' /\ LoopInv'
      BY <1>1, <1>9, <1>c, <2>2, <3>1, Handlers, HandledOne, HandledNone
    <3>3. QED BY <1>b, <3>1, <3>2
  <2>3. QED BY <2>1, <2>2
<1>10. CASE HandlerFails
  <2>1. /\ channel' = <<>> /\ loop' = [loop EXCEPT !.pc = "error", !.fault = TRUE]
        /\ UNCHANGED <<occurrences, reader, state>>
    BY <1>10, FailureBreaks DEF Breaks, evlog
  <2>2. loop.pc = "recv" /\ channel # <<>>
    BY <1>10 DEF HandlerFails, module_bytes_fail, create_args_fail, new_information_fails,
                 synthetic_periodic_fails, Received
  <2>3. loop'.pc = "error" /\ loop'.fault /\ loop'.counter = loop.counter
    BY <1>2, <2>1 DEF Memory
  <2>4. QED BY <1>1, <1>b, <1>c, <2>1, <2>2, <2>3, HandledNone
<1>11. CASE /\ ~litigator_crashes /\ ~litigate_contract /\ ~event_log_processor_wakes
            /\ ~event_log_processor_sends /\ ~Handle /\ ~HandlerFails /\ ~emit_ends
  <2>1. /\ loop'.pc = loop.pc /\ loop'.counter = loop.counter /\ loop'.fault = loop.fault
        /\ channel' = channel /\ state' = state
        /\ reader'.last = reader.last /\ reader'.rows = reader.rows
        /\ reader'.pc \in {reader.pc, "ended"}
    BY <1>1, <1>2, <1>11, LoopRests
  <2>2. Sent' = Sent
    BY <2>1 DEF Sent, Taken
  <2>3. CASE loop.pc = "spin"
    BY <1>2, <2>1, <2>3 DEF ReplayInv
  <2>4. CASE loop.pc # "spin"
    BY <1>2, <1>3, <1>a, <1>b, <1>c, <2>1, <2>2, <2>4, ReaderKeeps, LoopKeeps
  <2>5. QED BY <2>3, <2>4
<1>12. QED BY <1>5, <1>6, <1>7, <1>8, <1>9, <1>10, <1>11

-----------------------------------------------------------------------------
(* What the message database holds, and what the extractors made of it.       *)

\* Which steps the database sees: a post of the loop, or what arrives.
LEMMA WorldSteps ==
    ASSUME [Next]_vars
    PROVE  \/ world' = world
           \/ \E p \in Pair : world' = [world EXCEPT !.posted[p] = @ + 1]
           \/ attestations_arrive
<1> DEFINE Same == world' = world
           Posts(p) == world' = [world EXCEPT !.posted[p] = @ + 1]
           Post == \E p \in Pair : Posts(p)
<1>1. UNCHANGED lit_vars => Same
  BY DEF lit_vars
<1>2. litigator_starts \/ litigator_crashes \/ scan_for_new_contracts => Same
  BY DEF litigator_starts, litigator_crashes, scan_for_new_contracts
<1>2a. litigate_contract \/ instance_ends => Same
  BY DEF litigate_contract, instance_ends
<1>3. event_log_processor_wakes \/ event_log_processor_fails \/ event_log_processor_sends
      => Same
  BY DEF event_log_processor_wakes, event_log_processor_fails, event_log_processor_sends
<1>4. Handle => Same
  BY HandleReads
<1>5. emit_ends => Same
  BY DEF emit_ends, Unread
<1>6. ASSUME NEW p \in Pair, \/ emit_finds(p) \/ emit_posts(p) \/ emit_fails(p)
                               \/ emit_commits(p) \/ emit_commit_fails(p)
      PROVE  Same \/ Posts(p)
  BY <1>6 DEF emit_finds, emit_posts, emit_fails, emit_commits, emit_commit_fails
<1>7. Extract => Same
  BY DEF Extract, time_event_extractor, dlog_extractor, start_game, make_snapshot,
         handle_psbts, Extracted
<1>7a. HandlerFails => Same
  BY FailureBreaks DEF Breaks
<1> HIDE DEF Same, Posts
<1>8. (\E p \in Pair : emit_fails(p) \/ emit_commit_fails(p)) \/ Emits => Same \/ Post
  BY <1>5, <1>6 DEF Emits
<1> HIDE DEF Post
<1>9. LitigatorNext => Same \/ Post \/ attestations_arrive
  BY <1>2, <1>2a, <1>3, <1>4, <1>7, <1>7a, <1>8 DEF LitigatorNext
<1>10. LitigatorNext \/ UNCHANGED lit_vars
  BY DEF Next, vars
<1>11. QED BY <1>1, <1>9, <1>10 DEF Same, Post, Posts

\* The database grows.
LEMMA WorldNext ==
    ASSUME IndInv, [Next]_vars
    PROVE  WorldInv' /\ world.batches <= world'.batches /\ world.have \subseteq world'.have
<1> DEFINE W == [genesis : BOOLEAN, batches : Nat, have : SUBSET Message,
                 equivocated : SUBSET STRING, posted : [Pair -> Nat]]
<1>1. /\ world \in W /\ world.batches \in 0..Len(Batches) /\ Len(Batches) \in Nat
      /\ world.equivocated \subseteq scenario.equivocators /\ scenario \in Scenario
  BY FirstOfValues DEF IndInv, WorldInv, HostType, Kind
<1>2. scenario' = scenario
  BY ScenarioStays
<1> HIDE DEF W
<1>3. SUFFICES /\ world' \in W /\ world'.batches \in 0..Len(Batches)
               /\ world'.equivocated \subseteq scenario.equivocators
               /\ world.batches <= world'.batches /\ world.have \subseteq world'.have
  <2>1. Batches' = Batches
    BY <1>2 DEF Batches
  <2>2. QED BY <1>2, <2>1 DEF WorldInv, W
<1>4. CASE world' = world
  <2>1. world.batches \in Nat
    BY <1>1
  <2>2. world.batches <= world.batches
    BY <2>1
  <2>3. QED BY <1>1, <1>4, <2>2
<1> USE DEF W
<1>5. ASSUME NEW p \in Pair, world' = [world EXCEPT !.posted[p] = @ + 1]
      PROVE  /\ world' \in W /\ world'.batches = world.batches /\ world'.have = world.have
             /\ world'.equivocated = world.equivocated
  <2>1. [world.posted EXCEPT ![p] = world.posted[p] + 1] \in [Pair -> Nat]
    BY <1>1
  <2>2. world' = [world EXCEPT !.posted = [world.posted EXCEPT ![p] = world.posted[p] + 1]]
    BY <1>1, <1>5
  <2> HIDE DEF WorldInv
  <2>3. QED BY <1>1, <2>1, <2>2
<1>6. CASE attestations_arrive
  <2>1. \/ world' = [world EXCEPT !.genesis = TRUE]
        \/ world.batches < Len(Batches) /\ world' = [world EXCEPT !.batches = world.batches + 1]
        \/ \E i \in DOMAIN Batches : \E m \in Content(i) \ world.have :
              world' = [world EXCEPT !.have = world.have \cup {m}]
        \/ \E k \in scenario.equivocators \ world.equivocated :
              world' = [world EXCEPT !.equivocated = world.equivocated \cup {k}]
    BY <1>6 DEF attestations_arrive, World
  <2>2. CASE world' = [world EXCEPT !.genesis = TRUE]
    <3>1. world' \in W /\ world'.batches = world.batches /\ world'.have = world.have
          /\ world'.equivocated = world.equivocated
      BY <1>1, <2>2
    <3>2. world.batches <= world.batches
      BY <1>1
    <3> HIDE DEF W
    <3>3. QED BY <1>1, <3>1, <3>2
  <2>3. CASE world.batches < Len(Batches) /\ world' = [world EXCEPT !.batches = world.batches + 1]
    <3>1. world.batches + 1 \in 0..Len(Batches) /\ world.batches + 1 \in Nat
          /\ world.batches <= world.batches + 1
      BY <1>1, <2>3
    <3>2. world' \in W /\ world'.batches = world.batches + 1 /\ world'.have = world.have
          /\ world'.equivocated = world.equivocated
      BY <1>1, <2>3, <3>1
    <3>3. QED BY <1>1, <3>1, <3>2
  <2>4. ASSUME NEW i \in DOMAIN Batches, NEW m \in Content(i),
               world' = [world EXCEPT !.have = world.have \cup {m}]
        PROVE  /\ world' \in W /\ world'.batches = world.batches
               /\ world.have \subseteq world'.have /\ world'.equivocated = world.equivocated
    <3>1. Batches \in Seq([Kind -> Seq(Message)])
      BY <1>1, LitigatorAssumption DEF Batches
    <3>2. Batches[i]["move"] \in Seq(Message) /\ Batches[i]["psbt"] \in Seq(Message)
      BY <3>1 DEF Kind
    <3>3. m \in Message
      BY <3>2 DEF Content, ToSet
    <3>4. QED BY <1>1, <2>4, <3>3
  <2>5. ASSUME NEW k \in scenario.equivocators,
               world' = [world EXCEPT !.equivocated = world.equivocated \cup {k}]
        PROVE  /\ world' \in W /\ world'.batches = world.batches /\ world'.have = world.have
               /\ world'.equivocated \subseteq scenario.equivocators
    <3>1. k \in STRING
      BY <1>1, LitigatorAssumption
    <3>2. QED BY <1>1, <2>5, <3>1
  <2> HIDE DEF W
  <2>6. world.batches <= world.batches
    BY <1>1
  <2>7. QED BY <1>1, <2>1, <2>2, <2>3, <2>4, <2>5, <2>6
<1> HIDE DEF W
<1>7. world.batches <= world.batches
  BY <1>1
<1>8. QED BY <1>1, <1>4, <1>5, <1>6, <1>7, WorldSteps

\* What is delivered, now and in the next state.
Delivery ==
    /\ Delivered \in 0..world.batches /\ Complete(Delivered)
    /\ \A n \in 0..world.batches : Complete(n) => n <= Delivered
    /\ \A kind \in Kind : /\ Of(kind) \in Seq(Message) /\ AllOf(kind) \in Seq(Message)
                          /\ Begins(Of(kind), AllOf(kind))

\* What is delivered is known, with the scenario and the database,
LEMMA DeliveryHolds == scenario \in Scenario /\ WorldInv => Delivery
BY DeliveredFacts DEF Delivery

\* and in the next state.
LEMMA DeliveryNext == (scenario \in Scenario)' /\ WorldInv' => Delivery'
BY DeliveryHolds, PTL

\* What was delivered stays so.
LEMMA DeliveredGrows ==
    ASSUME IndInv, [Next]_vars, NEW kind \in Kind
    PROVE  /\ AllOf(kind)' = AllOf(kind) /\ AllOf(kind) \in Seq(Message)
           /\ Of(kind) \in Seq(Message) /\ Begins(Of(kind), AllOf(kind))
           /\ Len(Of(kind)) \in Nat /\ Len(Of(kind))' \in Nat /\ Len(Of(kind)) <= Len(Of(kind))'
<1>1. scenario \in Scenario /\ WorldInv /\ scenario' = scenario
  BY ScenarioStays DEF IndInv, HostType
<1>2. WorldInv' /\ world.batches <= world'.batches /\ world.have \subseteq world'.have
  BY WorldNext
<1>3. Delivery /\ Delivery'
  BY <1>1, <1>2, DeliveryHolds, DeliveryNext
<1>4. Len(Batches) \in Nat /\ world.batches \in 0..Len(Batches) /\ Batches' = Batches
      /\ world'.batches \in 0..Len(Batches)
  <2>1. Batches' = Batches
    BY <1>1 DEF Batches
  <2>2. Len(Batches) \in Nat
    BY <1>1, FirstOfValues
  <2>3. QED BY <1>1, <1>2, <2>1, <2>2 DEF WorldInv
<1>5. \A n : Complete(n) => Complete(n)'
  BY <1>2, <1>4 DEF Complete, Content
<1>6. ASSUME NEW d, d = Delivered PROVE d <= Delivered'
  <2>1. d \in 0..world.batches /\ Complete(d)
    BY <1>3, <1>6 DEF Delivery
  <2>2. d \in 0..world'.batches /\ Complete(d)'
    BY <1>2, <1>4, <1>5, <2>1
  <2>3. \A n \in 0..world'.batches : Complete(n)' => n <= Delivered'
    BY <1>3 DEF Delivery
  <2>4. QED BY <2>2, <2>3
<1>7. Delivered \in 0..Len(Batches) /\ Delivered' \in Delivered..Len(Batches)
  <2>1. Delivered \in 0..world.batches /\ Delivered' \in 0..world'.batches
    BY <1>3 DEF Delivery
  <2>2. Delivered <= Delivered'
    BY <1>6
  <2>3. QED BY <1>4, <2>1, <2>2
<1>8. Begins(FirstOf(kind, Delivered), FirstOf(kind, Delivered'))
      /\ FirstOf(kind, Delivered) \in Seq(Message) /\ FirstOf(kind, Delivered') \in Seq(Message)
  BY <1>1, <1>7, FirstOfGrows
<1>9. \A n : FirstOf(kind, n)' = FirstOf(kind, n)
  BY <1>4 DEF FirstOf
<1>10. Of(kind) = FirstOf(kind, Delivered) /\ Of(kind)' = FirstOf(kind, Delivered')
  BY <1>4 DEF Of, FirstOf
<1>11. AllOf(kind)' = AllOf(kind)
  BY <1>4 DEF AllOf, FirstOf
<1>12. Len(Of(kind))' = Len(FirstOf(kind, Delivered'))
  BY <1>10
<1>13. Len(Of(kind)) \in Nat /\ Len(Of(kind))' \in Nat /\ Len(Of(kind)) <= Len(Of(kind))'
  BY <1>8, <1>10, <1>12, LenProperties DEF Begins
<1>14. QED BY <1>3, <1>11, <1>13 DEF Delivery

\* Which steps an extractor is in.
LEMMA ExtractorSteps ==
    ASSUME [Next]_vars
    PROVE  \/ extractor' = extractor
           \/ litigator_crashes \/ litigate_contract
           \/ (\E k : dlog_extractor(k)) \/ start_game \/ make_snapshot \/ handle_psbts
<1> DEFINE Same == extractor' = extractor
<1>1. time_event_extractor => Same
  BY DEF time_event_extractor
<1>2. litigator_starts \/ scan_for_new_contracts \/ instance_ends => Same
  BY DEF litigator_starts, scan_for_new_contracts, instance_ends
<1>3. event_log_processor_wakes \/ event_log_processor_fails \/ event_log_processor_sends => Same
  BY DEF event_log_processor_wakes, event_log_processor_fails, event_log_processor_sends
<1>4. Handle => Same
  BY HandleReads
<1>5. emit_ends => Same
  BY DEF emit_ends, Unread
<1>6. \A p : emit_finds(p) \/ emit_posts(p) \/ emit_fails(p) \/ emit_commits(p) \/ emit_commit_fails(p)
             => Same
  BY DEF emit_finds, emit_posts, emit_fails, emit_commits, emit_commit_fails
<1>7. attestations_arrive => Same
  BY DEF attestations_arrive, World
<1>8. UNCHANGED lit_vars => Same
  BY DEF lit_vars
<1>8a. HandlerFails => Same
  BY FailureBreaks DEF Breaks
<1> HIDE DEF Same
<1>9. Emits \/ (\E p \in Pair : emit_fails(p) \/ emit_commit_fails(p)) => Same
  BY <1>5, <1>6 DEF Emits
<1>10. Extract => \/ Same \/ (\E k : dlog_extractor(k)) \/ start_game \/ make_snapshot
                  \/ handle_psbts
  BY <1>1 DEF Extract
<1>11. LitigatorNext => \/ Same \/ litigator_crashes \/ litigate_contract
                        \/ (\E k : dlog_extractor(k)) \/ start_game \/ make_snapshot
                        \/ handle_psbts
  BY <1>2, <1>3, <1>4, <1>7, <1>8a, <1>9, <1>10 DEF LitigatorNext
<1>12. LitigatorNext \/ UNCHANGED lit_vars
  BY DEF Next, vars
<1>13. QED BY <1>8, <1>11, <1>12 DEF Same

\* The extractors of a new process, and of a new instance.
LEMMA Beginnings ==
    ASSUME litigator_crashes \/ litigate_contract
    PROVE  /\ extractor'.moves = 0 /\ extractor'.snapshot = "none"
           /\ extractor'.received = 0 /\ extractor'.psbt_counter = 0
<1> DEFINE Tasks == [time : BOOLEAN, dlog : BOOLEAN, known : SUBSET STRING,
                     game : {"off", "play", "ended"}, moves : Nat,
                     snapshot : {"none", "pending", "made", "lost"},
                     psbts : BOOLEAN, received : Nat, psbt_counter : Nat]
<1>1. NoTasks \in Tasks
  BY DEF NoTasks
<1>2. NoTasks.moves = 0 /\ NoTasks.snapshot = "none" /\ NoTasks.received = 0
      /\ NoTasks.psbt_counter = 0
  BY DEF NoTasks
<1>3. \/ extractor' = NoTasks
      \/ extractor' = [NoTasks EXCEPT !.time = TRUE, !.dlog = TRUE, !.game = "play", !.psbts = TRUE]
      \/ extractor' = [NoTasks EXCEPT !.time = TRUE]
  BY DEF litigator_crashes, litigate_contract
<1>4. QED BY <1>1, <1>2, <1>3

\* What a step does to the extractor of the moves.
LEMMA GameSteps ==
    ASSUME IndInv, [Next]_vars, NEW m, m = extractor.moves
    PROVE  LET e == extractor' IN
           \/ e.moves = 0 /\ e.snapshot = "none"
           \/ e.moves = m /\ e.game = extractor.game /\ e.snapshot = extractor.snapshot
           \/ e.moves = m /\ e.game = extractor.game /\ extractor.snapshot = "pending"
           \/ /\ extractor.game = "play" /\ m < Len(Of("move")) /\ e.moves = m + 1
              /\ \/ /\ e.game = "play" /\ e.snapshot = extractor.snapshot
                    /\ Of("move")[m + 1].result = ""
                 \/ /\ e.game = "ended" /\ e.snapshot = "pending"
                    /\ Of("move")[m + 1].result # ""
<1> DEFINE Tasks == [time : BOOLEAN, dlog : BOOLEAN, known : SUBSET STRING,
                     game : {"off", "play", "ended"}, moves : Nat,
                     snapshot : {"none", "pending", "made", "lost"},
                     psbts : BOOLEAN, received : Nat, psbt_counter : Nat]
           e == extractor'
           Goal == \/ e.moves = 0 /\ e.snapshot = "none"
                   \/ e.moves = m /\ e.game = extractor.game /\ e.snapshot = extractor.snapshot
                   \/ e.moves = m /\ e.game = extractor.game /\ extractor.snapshot = "pending"
                   \/ /\ extractor.game = "play" /\ m < Len(Of("move")) /\ e.moves = m + 1
                      /\ \/ /\ e.game = "play" /\ e.snapshot = extractor.snapshot
                            /\ Of("move")[m + 1].result = ""
                         \/ /\ e.game = "ended" /\ e.snapshot = "pending"
                            /\ Of("move")[m + 1].result # ""
<1>1. extractor \in Tasks
  BY DEF IndInv, InstanceInv, Memory
<1>2. extractor' = extractor => Goal
  OBVIOUS
<1>3. litigator_crashes \/ litigate_contract => Goal
  BY Beginnings
<1>4. ASSUME NEW k, dlog_extractor(k)
      PROVE  Goal
  <2>1. e = [extractor EXCEPT !.known = @ \cup {k}]
    BY <1>4 DEF dlog_extractor
  <2>2. QED BY <1>1, <2>1
<1>5. ASSUME start_game PROVE Goal
  <2> DEFINE r == Of("move")[m + 1].result
  <2>1. /\ extractor.game = "play" /\ m < Len(Of("move"))
        /\ e = [extractor EXCEPT !.moves = m + 1, !.game = IF r # "" THEN "ended" ELSE "play",
                                 !.snapshot = IF r # "" THEN "pending" ELSE extractor.snapshot]
    BY <1>5 DEF start_game
  <2> HIDE DEF r
  <2>2. CASE r = ""
    <3>1. e = [extractor EXCEPT !.moves = m + 1, !.game = "play", !.snapshot = extractor.snapshot]
      BY <2>1, <2>2
    <3>2. e.moves = m + 1 /\ e.game = "play" /\ e.snapshot = extractor.snapshot
      BY <1>1, <3>1
    <3>3. QED BY <2>1, <2>2, <3>2 DEF r
  <2>3. CASE r # ""
    <3>1. e = [extractor EXCEPT !.moves = m + 1, !.game = "ended", !.snapshot = "pending"]
      BY <2>1, <2>3
    <3>2. e.moves = m + 1 /\ e.game = "ended" /\ e.snapshot = "pending"
      BY <1>1, <3>1
    <3>3. QED BY <2>1, <2>3, <3>2 DEF r
  <2>4. QED BY <2>2, <2>3
<1>6. ASSUME make_snapshot PROVE Goal
  <2>1. extractor.snapshot = "pending" /\ \E s \in {"made", "lost"} : e = [extractor EXCEPT !.snapshot = s]
    BY <1>6 DEF make_snapshot
  <2>2. e.moves = m /\ e.game = extractor.game
    BY <1>1, <2>1
  <2>3. QED BY <2>1, <2>2
<1>7. ASSUME handle_psbts PROVE Goal
  <2>1. \/ e = [extractor EXCEPT !.received = extractor.received + 1]
        \/ \E c : e = [extractor EXCEPT !.received = extractor.received + 1, !.psbt_counter = c]
    BY <1>7 DEF handle_psbts
  <2>2. e.moves = m /\ e.game = extractor.game /\ e.snapshot = extractor.snapshot
    BY <1>1, <2>1
  <2>3. QED BY <2>2
<1>8. QED
  <2> HIDE DEF Goal
  <2>1. Goal
    BY <1>2, <1>3, <1>4, <1>5, <1>6, <1>7, ExtractorSteps
  <2>2. QED BY <2>1 DEF Goal

\* What a step does to the extractor of the transactions.
LEMMA PartSteps ==
    ASSUME IndInv, [Next]_vars, NEW n, n = extractor.received, NEW c, c = extractor.psbt_counter
    PROVE  \/ extractor'.received = 0 /\ extractor'.psbt_counter = 0
           \/ extractor'.received = n /\ extractor'.psbt_counter = c
           \/ /\ n < Len(Of("psbt")) /\ extractor'.received = n + 1
              /\ IF Verifies(Merged(n + 1))
                 THEN /\ extractor'.psbt_counter = c + 1
                      /\ insert_occurrence(key, Event("TransactionFinalized",
                            Of("psbt")[n + 1].channel, Merged(n + 1)), <<"psbts", c + 1>>)
                 ELSE extractor'.psbt_counter = c
<1> DEFINE Tasks == [time : BOOLEAN, dlog : BOOLEAN, known : SUBSET STRING,
                     game : {"off", "play", "ended"}, moves : Nat,
                     snapshot : {"none", "pending", "made", "lost"},
                     psbts : BOOLEAN, received : Nat, psbt_counter : Nat]
           e == extractor'
           Keeps == e.received = n /\ e.psbt_counter = c
           Part == insert_occurrence(key, Event("TransactionFinalized",
                            Of("psbt")[n + 1].channel, Merged(n + 1)), <<"psbts", c + 1>>)
           Goal == \/ e.received = 0 /\ e.psbt_counter = 0
                   \/ Keeps
                   \/ /\ n < Len(Of("psbt")) /\ e.received = n + 1
                      /\ IF Verifies(Merged(n + 1))
                         THEN /\ e.psbt_counter = c + 1 /\ Part
                         ELSE e.psbt_counter = c
<1>1. extractor \in Tasks
  BY DEF IndInv, InstanceInv, Memory
<1>2. extractor' = extractor => Goal
  OBVIOUS
<1>3. litigator_crashes \/ litigate_contract => Goal
  BY Beginnings
<1>4. ASSUME NEW k, dlog_extractor(k)
      PROVE  Keeps
  <2>1. e = [extractor EXCEPT !.known = @ \cup {k}]
    BY <1>4 DEF dlog_extractor
  <2>2. QED BY <1>1, <2>1
<1>5. ASSUME start_game PROVE Keeps
  <2>1. \E x, y, z : e = [extractor EXCEPT !.moves = x, !.game = y, !.snapshot = z]
    BY <1>5 DEF start_game
  <2>2. QED BY <1>1, <2>1
<1>6. ASSUME make_snapshot PROVE Keeps
  <2>1. \E s \in {"made", "lost"} : e = [extractor EXCEPT !.snapshot = s]
    BY <1>6 DEF make_snapshot
  <2>2. QED BY <1>1, <2>1
<1>7. ASSUME handle_psbts PROVE Goal
  <2>1. /\ n < Len(Of("psbt"))
        /\ IF Verifies(Merged(n + 1))
           THEN e = [extractor EXCEPT !.received = n + 1, !.psbt_counter = c + 1] /\ Part
           ELSE e = [extractor EXCEPT !.received = n + 1]
    BY <1>7 DEF handle_psbts, CountsPsbt
  <2> HIDE DEF Part
  <2>2. CASE Verifies(Merged(n + 1))
    <3>1. e = [extractor EXCEPT !.received = n + 1, !.psbt_counter = c + 1] /\ Part
      BY <2>1, <2>2
    <3>2. e.received = n + 1 /\ e.psbt_counter = c + 1
      BY <1>1, <3>1
    <3>3. QED BY <2>1, <2>2, <3>1, <3>2
  <2>3. CASE ~Verifies(Merged(n + 1))
    <3>1. e = [extractor EXCEPT !.received = n + 1]
      BY <2>1, <2>3
    <3>2. e.received = n + 1 /\ e.psbt_counter = c
      BY <1>1, <3>1
    <3>3. QED BY <2>1, <2>3, <3>2
  <2>4. QED BY <2>2, <2>3
<1>k. Keeps => Goal
  OBVIOUS
<1>8. QED
  <2> HIDE DEF Goal, Keeps
  <2>1. Goal
    BY <1>2, <1>3, <1>4, <1>5, <1>6, <1>7, <1>k, ExtractorSteps
  <2>2. QED BY <2>1 DEF Goal, Keeps

\* The kind of an event, and of an occurrence's.
OfType(e, t) == e.t = t
\* An event and an occurrence are of the type that they were made with.
LEMMA TypesOf ==
    /\ \A e, t, v, w : e = Event(t, v, w) => OfType(e, t)
    /\ \A o, g, t, v, w, tag : o = Occurrence(g, Event(t, v, w), tag) => OfType(o.ev, t)
BY DEF OfType, Event, Occurrence

\* A row that was not there is the one that is added.
LEMMA LastAdded ==
    ASSUME occurrences \in Seq(Entry), NEW o \in Entry, occurrences' = Append(occurrences, o),
           NEW i \in DOMAIN occurrences',
           ~(i \in DOMAIN occurrences /\ occurrences'[i] = occurrences[i])
    PROVE  occurrences'[i] = o
<1>1. /\ Len(occurrences') = Len(occurrences) + 1 /\ Len(occurrences) \in Nat
      /\ occurrences'[Len(occurrences) + 1] = o
      /\ \A j \in 1..Len(occurrences) : occurrences'[j] = occurrences[j]
      /\ occurrences' \in Seq(Entry)
  BY Appended
<1>2. DOMAIN occurrences = 1..Len(occurrences) /\ DOMAIN occurrences' = 1..Len(occurrences) + 1
  BY <1>1, LenProperties
<1>3. i = Len(occurrences) + 1 \/ i \in 1..Len(occurrences)
  BY <1>1, <1>2
<1>4. QED BY <1>1, <1>2, <1>3

\* Moves: what was played before the end stays so, and the end is where it is.
LEMMA GameNext == IndInv /\ [Next]_vars => GameInv'
<1>1. SUFFICES ASSUME IndInv, [Next]_vars PROVE GameInv'
  OBVIOUS
<1> DEFINE m == extractor.moves
           s == Of("move")
           all == AllOf("move")
<1>2. /\ scenario \in Scenario /\ scenario' = scenario /\ LogInv /\ GameInv
      /\ extractor.moves \in Nat
  BY <1>1, ScenarioStays DEF IndInv, HostType, InstanceInv, Memory
<1>3. /\ all' = all /\ all \in Seq(Message) /\ s \in Seq(Message) /\ Begins(s, all)
      /\ Len(s) \in Nat /\ Len(s)' \in Nat /\ Len(s) <= Len(s)'
  BY <1>1, DeliveredGrows DEF Kind
<1>4. /\ \A n : Result(n)' = Result(n)
      /\ \A n : EndsAt(n)' = EndsAt(n)
  BY <1>3 DEF Result, EndsAt
<1>5. \A n \in 1..Len(s) : s[n].result = Result(n) /\ n \in DOMAIN all
  <2>1. Len(all) \in Nat /\ DOMAIN all = 1..Len(all) /\ Len(s) <= Len(all)
        /\ \A n \in 1..Len(s) : s[n] = all[n]
    BY <1>3, LenProperties DEF Begins
  <2>2. QED BY <1>3, <2>1 DEF Result
<1>6. /\ m \in Nat /\ m \in 0..Len(s)
      /\ extractor.game = "play" => \A n \in 1..m : Result(n) = ""
      /\ extractor.snapshot # "none" => EndsAt(m) /\ extractor.game # "play"
  BY <1>2 DEF GameInv
<1> HIDE DEF s, all
<1>7. /\ extractor'.moves \in 0..Len(s)'
      /\ extractor'.game = "play" => \A n \in 1..extractor'.moves : Result(n) = ""
      /\ extractor'.snapshot # "none" => /\ \E n : n = extractor'.moves /\ EndsAt(n)
                                         /\ extractor'.game # "play"
  <2> DEFINE e == extractor'
  <2>1. \/ e.moves = 0 /\ e.snapshot = "none"
        \/ e.moves = m /\ e.game = extractor.game /\ e.snapshot = extractor.snapshot
        \/ e.moves = m /\ e.game = extractor.game /\ extractor.snapshot = "pending"
        \/ /\ extractor.game = "play" /\ m < Len(s) /\ e.moves = m + 1
           /\ \/ e.game = "play" /\ e.snapshot = extractor.snapshot /\ s[m + 1].result = ""
              \/ e.game = "ended" /\ e.snapshot = "pending" /\ s[m + 1].result # ""
    BY <1>1, GameSteps DEF s
  <2> HIDE DEF m, e
  <2>2. CASE e.moves = 0 /\ e.snapshot = "none"
    <3>1. 0 \in 0..Len(s)' /\ 1..0 = {}
      BY <1>3
    <3>2. e.moves \in 0..Len(s)' /\ \A n \in 1..e.moves : Result(n) = ""
      BY <2>2, <3>1
    <3>3. QED BY <2>2, <3>2 DEF e
  <2>3. CASE e.moves = m /\ e.game = extractor.game
             /\ (e.snapshot = extractor.snapshot \/ extractor.snapshot = "pending")
    <3>a. m \in Nat /\ m \in 0..Len(s)
      BY <1>6
    <3>b. Len(s) <= Len(s)' /\ Len(s) \in Nat /\ Len(s)' \in Nat
      BY <1>3
    <3>1. m \in 0..Len(s)'
      BY ONLY <3>a, <3>b
    <3>2. e.game = "play" => \A n \in 1..m : Result(n) = ""
      BY <1>6, <2>3
    <3>3. e.snapshot # "none" => EndsAt(m) /\ e.game # "play"
      BY <1>6, <2>3
    <3>4. QED BY <2>3, <3>1, <3>2, <3>3 DEF e
  <2>4. CASE /\ extractor.game = "play" /\ m < Len(s) /\ e.moves = m + 1
             /\ \/ e.game = "play" /\ e.snapshot = extractor.snapshot /\ s[m + 1].result = ""
                \/ e.game = "ended" /\ e.snapshot = "pending" /\ s[m + 1].result # ""
    <3>0. m \in Nat /\ m < Len(s)
      BY <1>6, <2>4
    <3>1. m + 1 \in 1..Len(s) /\ m + 1 \in 0..Len(s)' /\ (m + 1) - 1 = m
          /\ \A n \in 1..m + 1 : n = m + 1 \/ n \in 1..m
      BY <1>3, <3>0
    <3>2. s[m + 1].result = Result(m + 1) /\ m + 1 \in DOMAIN AllOf("move")
      BY <1>5, <3>1 DEF all
    <3>3. \A n \in 1..m : Result(n) = ""
      BY <1>6, <2>4
    <3>4. CASE e.game = "play" /\ e.snapshot = extractor.snapshot /\ s[m + 1].result = ""
      <4>1. \A n \in 1..m + 1 : Result(n) = ""
        BY <3>1, <3>2, <3>3, <3>4
      <4>2. extractor.snapshot = "none"
        BY <1>6, <2>4
      <4>3. QED BY <2>4, <3>1, <3>4, <4>1, <4>2 DEF e
    <3>5. CASE e.game = "ended" /\ e.snapshot = "pending" /\ s[m + 1].result # ""
      <4>1. EndsAt(m + 1)
        BY <3>1, <3>2, <3>3, <3>5 DEF EndsAt
      <4>2. QED BY <2>4, <3>1, <3>5, <4>1 DEF e
    <3>6. QED BY <2>4, <3>4, <3>5
  <2>5. QED BY <2>1, <2>2, <2>3, <2>4
<1>8. ASSUME NEW i \in DOMAIN occurrences',
             occurrences'[i].ev.t = "NewRecompileTriggeringObservation",
             occurrences'[i].ev.v \in {"win", "lose"}
      PROVE  /\ occurrences'[i].group_id = key
             /\ \E n \in Nat : EndsAt(n) /\ occurrences'[i].unique_tag = <<"game_move", n>>
  <2>1. CASE i \in DOMAIN occurrences /\ occurrences'[i] = occurrences[i]
    BY <1>2, <1>8, <2>1 DEF GameInv, Row
  <2>2. CASE ~(i \in DOMAIN occurrences /\ occurrences'[i] = occurrences[i])
    <3>1. PICK o \in Entry : Adds(o) /\ AddedBy(o)
      BY <1>1, <2>2, LogSteps
    <3>2. occurrences'[i] = o
      BY <1>2, <2>2, <3>1, LastAdded DEF LogInv, Adds
    <3>3. /\ \A e, t, v, w : e = Event(t, v, w) => e.t = t /\ e.v = v
          /\ \A g, e, t, p : p = Occurrence(g, e, t) => p.ev = e /\ p.unique_tag = t /\ p.group_id = g
      BY DEF Event, Occurrence
    <3> DEFINE New == "NewRecompileTriggeringObservation"
    <3>4. o.ev.t = New /\ o.ev.v \in {"win", "lose"}
      BY <1>8, <3>2
    <3>5. ~ByHost(o)
      <4>1. ByHost(o) => OfType(o.ev, "ModuleRepo")
        BY TypesOf DEF ByHost, Modules
      <4>2. QED BY <3>4, <4>1 DEF OfType
    <3>6. ASSUME NEW r \in Handler, NEW j \in 1..4 PROVE ~ByRequest(o, r, j)
      <4>1. ByRequest(o, r, j) => o.ev = FirstEvents[j].ev
        BY <3>3 DEF ByRequest
      <4>2. j \in {1, 2, 3, 4}
        OBVIOUS
      <4> DEFINE f == FirstEvents[j].ev
      <4>3. \/ f = Event("ModuleBytes", "", "") \/ f = Event("CreateArgs", "", "")
            \/ f = Event("Rebind", "", "") \/ f = Event("TransactionFinalized", "default", "")
        BY <4>2, FirstRows
      <4> HIDE DEF f
      <4>4. \/ OfType(f, "ModuleBytes") \/ OfType(f, "CreateArgs")
            \/ OfType(f, "Rebind") \/ OfType(f, "TransactionFinalized")
        BY ONLY <4>3, TypesOf
      <4>5. f.t # New
        BY <4>4 DEF OfType
      <4>6. QED BY <3>4, <4>1, <4>5 DEF f
    <3>7. ~ByClock(o)
      <4>1. ByClock(o) => OfType(o.ev, "SyntheticPeriodicActions")
        BY TypesOf DEF ByClock
      <4>2. QED BY <3>4, <4>1 DEF OfType
    <3>8. ~ByPsbts(o)
      <4>1. ByPsbts(o) => o.ev.t = "TransactionFinalized"
        BY <3>3 DEF ByPsbts
      <4>2. QED BY <3>4, <4>1
    <3>9. ASSUME NEW k \in scenario.equivocators PROVE ~ByDlog(o, k)
      <4>1. k \notin {"win", "lose"}
        BY <1>2, LitigatorAssumption
      <4>2. ByDlog(o, k) => o.ev = Event(New, k, "dlog")
        BY <3>3 DEF ByDlog, Observation
      <4> HIDE DEF New
      <4>3. ByDlog(o, k) => o.ev.v = k
        BY <3>3, <4>2
      <4>4. QED BY <3>4, <4>1, <4>3
    <3>10. ASSUME NEW p \in Pair PROVE ~ByLoop(o, p)
      <4>1. ByLoop(o, p) => o.ev = Event("EmittedPSBTVia", p[1], p[2])
        BY <3>3 DEF ByLoop
      <4>2. ByLoop(o, p) => o.ev.t = "EmittedPSBTVia"
        BY <3>3, <4>1
      <4>3. QED BY <3>4, <4>2
    <3>11. ByGame(o)
      BY <3>1, <3>5, <3>6, <3>7, <3>8, <3>9, <3>10 DEF AddedBy
    <3>12. o.group_id = key /\ o.unique_tag = <<"game_move", m>> /\ extractor.snapshot = "pending"
      BY <3>3, <3>11 DEF ByGame
    <3>13. EndsAt(m)
      BY <1>6, <3>12
    <3>14. QED BY <1>6, <3>2, <3>12, <3>13
  <2>3. QED BY <2>1, <2>2
<1>9. (\A i \in DOMAIN occurrences :
          Row(i).t = "NewRecompileTriggeringObservation" /\ Row(i).v \in {"win", "lose"} =>
             /\ occurrences[i].group_id = key
             /\ \E n \in Nat : EndsAt(n) /\ occurrences[i].unique_tag = <<"game_move", n>>)'
  BY <1>4, <1>8 DEF Row
<1>10. (extractor.snapshot # "none" => EndsAt(extractor.moves) /\ extractor.game # "play")'
  <2>1. extractor'.snapshot # "none" => \E n : n = extractor'.moves /\ EndsAt(n)' /\ extractor'.game # "play"
    BY <1>4, <1>7
  <2>2. QED BY <2>1 DEF EndsAt
<1>11. (extractor.game = "play" => \A n \in 1..extractor.moves : Result(n) = "")'
  BY <1>4, <1>7
<1>12. QED BY <1>7, <1>9, <1>10, <1>11 DEF GameInv, s

\* The game's end is observed once.
LEMMA EndsOnce == scenario \in Scenario /\ WorldInv /\ LogInv /\ GameInv => EndObservedOnce
<1>1. SUFFICES ASSUME scenario \in Scenario, WorldInv, LogInv, GameInv PROVE EndObservedOnce
  OBVIOUS
<1> DEFINE S == {i \in DOMAIN occurrences : Row(i).t = "NewRecompileTriggeringObservation"
                                            /\ Row(i).v \in {"win", "lose"}}
<1>2. ASSUME NEW i \in S, NEW j \in S PROVE i = j
  <2>1. PICK n \in Nat : EndsAt(n) /\ occurrences[i].unique_tag = <<"game_move", n>>
    BY <1>1 DEF GameInv
  <2>2. PICK k \in Nat : EndsAt(k) /\ occurrences[j].unique_tag = <<"game_move", k>>
    BY <1>1 DEF GameInv
  <2>3. n = k
    <3>1. n \in 1..k - 1 => FALSE
      BY <2>1, <2>2 DEF EndsAt
    <3>2. k \in 1..n - 1 => FALSE
      BY <2>1, <2>2 DEF EndsAt
    <3>3. AllOf("move") \in Seq(Message)
      BY <1>1, DeliveryHolds DEF Delivery, Kind
    <3>4. n \in 1..Len(AllOf("move")) /\ k \in 1..Len(AllOf("move")) /\ Len(AllOf("move")) \in Nat
      BY <2>1, <2>2, <3>3, LenProperties DEF EndsAt
    <3>5. n >= 1 /\ k >= 1
      BY <3>4
    <3>6. n <= k - 1 => FALSE
      BY <3>1, <3>5
    <3>7. k <= n - 1 => FALSE
      BY <3>2, <3>5
    <3>8. QED BY <3>6, <3>7
  <2>4. occurrences[i].group_id = key /\ occurrences[j].group_id = key
    BY <1>1 DEF GameInv
  <2>5. <<"game_move", n>> # NoTag
    BY DEF NoTag
  <2>6. EventLogTypeOK
    BY <1>1 DEF LogInv
  <2>7. QED BY <2>1, <2>2, <2>3, <2>4, <2>5, <2>6 DEF EventLogTypeOK
<1> HIDE DEF S
<1>3. CASE S = {}
  <2>1. Cardinality(S) = 0
    BY <1>3, FS_EmptySet
  <2>2. QED BY <2>1 DEF EndObservedOnce, S
<1>4. CASE S # {}
  <2>1. PICK i \in S : S = {i}
    BY <1>2, <1>4
  <2>2. Cardinality(S) = 1
    BY <2>1, FS_Singleton
  <2>3. QED BY <2>2 DEF EndObservedOnce, S
<1>5. QED BY <1>3, <1>4

\* One more part: it is counted if its transaction verifies.
LEMMA FinalizedGrows ==
    ASSUME NEW n \in Nat
    PROVE  /\ IsFiniteSet(Finalized(n)) /\ Cardinality(Finalized(n)) \in Nat
           /\ Finalized(n) \subseteq 1..n
           /\ Verifies(MergedOf(n + 1)) =>
                 /\ Finalized(n + 1) = Finalized(n) \cup {n + 1}
                 /\ Cardinality(Finalized(n + 1)) = Cardinality(Finalized(n)) + 1
           /\ ~Verifies(MergedOf(n + 1)) => Finalized(n + 1) = Finalized(n)
<1> DEFINE V(i) == Verifies(MergedOf(i))
           F(k) == {i \in 1..k : V(i)}
<1>1. \A k : Finalized(k) = F(k)
  BY DEF Finalized
<1> HIDE DEF V
<1>2. IsFiniteSet(1..n)
  BY FS_Interval
<1>3. F(n) \subseteq 1..n
  OBVIOUS
<1>4. IsFiniteSet(F(n)) /\ Cardinality(F(n)) \in Nat
  <2> HIDE DEF F
  <2>1. IsFiniteSet(F(n))
    BY <1>2, <1>3, FS_Subset
  <2>2. QED BY <2>1, FS_CardinalityType
<1>5. V(n + 1) => F(n + 1) = F(n) \cup {n + 1}
  OBVIOUS
<1>6. ~V(n + 1) => F(n + 1) = F(n)
  OBVIOUS
<1>7. n + 1 \notin F(n)
  OBVIOUS
<1>8. V(n + 1) => Cardinality(F(n + 1)) = Cardinality(F(n)) + 1
  <2> HIDE DEF F
  <2>1. Cardinality(F(n) \cup {n + 1}) = Cardinality(F(n)) + 1
    BY <1>4, <1>7, FS_AddElement
  <2>2. QED BY <1>5, <2>1
<1>9. V(n + 1) <=> Verifies(MergedOf(n + 1))
  BY DEF V
<1> HIDE DEF F
<1>10. QED BY <1>1, <1>3, <1>4, <1>5, <1>6, <1>8, <1>9

\* Two verified parts have different numbers.
LEMMA FinalizedApart ==
    ASSUME NEW m \in Nat, NEW n \in Nat, m \in Finalized(m), n \in Finalized(n),
           Cardinality(Finalized(m)) = Cardinality(Finalized(n))
    PROVE  m = n
<1>1. ASSUME NEW j \in Nat, NEW k \in Nat, j < k, k \in Finalized(k)
      PROVE  Cardinality(Finalized(j)) < Cardinality(Finalized(k))
  <2>1. IsFiniteSet(Finalized(k)) /\ Finalized(j) \subseteq 1..j
    BY FinalizedGrows
  <2>2. Finalized(j) \subseteq Finalized(k)
    BY <1>1 DEF Finalized
  <2>3. k \notin Finalized(j)
    BY <1>1, <2>1
  <2>4. Finalized(j) # Finalized(k)
    BY <1>1, <2>3
  <2>5. Cardinality(Finalized(j)) <= Cardinality(Finalized(k))
        /\ (Cardinality(Finalized(j)) = Cardinality(Finalized(k)) => Finalized(j) = Finalized(k))
    BY <2>1, <2>2, FS_Subset
  <2>6. Cardinality(Finalized(j)) \in Nat /\ Cardinality(Finalized(k)) \in Nat
    BY FinalizedGrows
  <2>7. QED BY <2>4, <2>5, <2>6
<1>2. Cardinality(Finalized(m)) \in Nat
  BY FinalizedGrows
<1>3. m < n \/ n < m \/ m = n
  OBVIOUS
<1>4. QED
  <2>1. ~(m < n)
    BY <1>1, <1>2
  <2>2. ~(n < m)
    BY <1>1, <1>2
  <2>3. QED BY <1>3, <2>1, <2>2

\* The number of a finalized transaction is on nothing else.
LEMMA NumberedByPsbts ==
    ASSUME NEW o, AddedBy(o), NEW n, o.unique_tag = <<"psbts", n>>
    PROVE  ByPsbts(o)
<1> DEFINE Tag(t) == t # <<"psbts", n>>
<1>0. /\ Tag(<<>>) /\ Tag(NoTag) /\ Tag(module_tag)
      /\ \A a : Tag(<<a>>)
      /\ \A k : Tag(<<"game_move", k>>) /\ Tag(<<"dlog", k>>)
      /\ \A p : Tag(SignedTag(p))
  BY DEF SignedTag, module_tag, NoTag
<1>2. \A r, g, e, t : r = Occurrence(g, e, t) => r.unique_tag = t
  BY DEF Occurrence
<1> HIDE DEF Tag
<1>3. \A i \in 1..4 : Tag(FirstEvents[i].tag)
  <2>1. Tag(FirstEvents[1].tag) /\ Tag(FirstEvents[2].tag)
    BY <1>0, FirstRows
  <2>2. Tag(FirstEvents[3].tag) /\ Tag(FirstEvents[4].tag)
    BY <1>0, FirstRows
  <2>3. \A i \in 1..4 : i \in {1, 2, 3, 4}
    OBVIOUS
  <2>4. QED BY <2>1, <2>2, <2>3
<1>4. ByHost(o) => Tag(o.unique_tag)
  BY <1>0, <1>2 DEF ByHost, Modules
<1>5. ASSUME NEW r \in Handler, NEW i \in 1..4, ByRequest(o, r, i) PROVE Tag(o.unique_tag)
  BY <1>2, <1>3, <1>5 DEF ByRequest
<1>6. ByClock(o) \/ ByGame(o) => Tag(o.unique_tag)
  <2>1. ByClock(o) => o.unique_tag = NoTag
    BY <1>2 DEF ByClock
  <2>2. ByGame(o) => \E k : o.unique_tag = <<"game_move", k>>
    BY <1>2 DEF ByGame
  <2>3. QED BY ONLY <1>0, <2>1, <2>2
<1>7. \A k \in scenario.equivocators : ByDlog(o, k) => Tag(o.unique_tag)
  <2>1. \A k \in scenario.equivocators : ByDlog(o, k) => o.unique_tag = <<"dlog", k>>
    BY <1>2 DEF ByDlog
  <2>2. QED BY ONLY <1>0, <2>1
<1>8. \A p \in Pair : ByLoop(o, p) => Tag(o.unique_tag)
  <2>1. \A p \in Pair : ByLoop(o, p) => o.unique_tag = SignedTag(p)
    BY <1>2 DEF ByLoop
  <2>2. QED BY ONLY <1>0, <2>1
<1>9. ~Tag(o.unique_tag)
  BY DEF Tag
<1>10. QED BY <1>4, <1>5, <1>6, <1>7, <1>8, <1>9 DEF AddedBy

\* The parts: a number in the log stays that of its transaction, and the number of
\* each verified transaction of this life is in the log.
LEMMA PsbtsNext == IndInv /\ [Next]_vars => PsbtsInv'
<1>1. SUFFICES ASSUME IndInv, [Next]_vars,
                      NEW n, n = extractor.received, NEW c, c = extractor.psbt_counter
               PROVE  PsbtsInv'
  OBVIOUS
<1> DEFINE s == Of("psbt")
           all == AllOf("psbt")
<1>2. /\ scenario \in Scenario /\ scenario' = scenario /\ LogInv /\ PsbtsInv /\ WorldInv
      /\ n \in Nat /\ c \in Nat /\ n = extractor.received /\ c = extractor.psbt_counter
  BY <1>1, ScenarioStays DEF IndInv, HostType, InstanceInv, Memory
<1>3. /\ all' = all /\ all \in Seq(Message) /\ s \in Seq(Message) /\ Begins(s, all)
      /\ Len(s) \in Nat /\ Len(s)' \in Nat /\ Len(s) <= Len(s)'
  BY <1>1, DeliveredGrows DEF Kind
<1>4. /\ \A i : MergedOf(i)' = MergedOf(i)
      /\ \A i : Finalized(i)' = Finalized(i)
  <2>1. AllOf("psbt")' = AllOf("psbt")
    BY <1>3
  <2>2. \A i : MergedOf(i)' = MergedOf(i)
    BY ONLY <2>1 DEF MergedOf
  <2>3. \A i : Verifies(MergedOf(i))' = Verifies(MergedOf(i))
    BY <1>2, <2>2 DEF Verifies
  <2>4. \A i : Finalized(i)' = Finalized(i)
    BY ONLY <2>3 DEF Finalized
  <2>5. QED BY <2>2, <2>4
<1>5. \A i \in 1..Len(s) : Merged(i) = MergedOf(i) /\ i \in DOMAIN all
  <2>1. Len(all) \in Nat /\ DOMAIN all = 1..Len(all) /\ Len(s) <= Len(all)
    BY <1>3, LenProperties DEF Begins
  <2>2. \A i \in 1..Len(s) : i \in DOMAIN all
    BY <1>3, <2>1
  <2>3. \A i \in 1..Len(s) : Merged(i) = MergedOf(i)
    BY <1>2, MergedType
  <2>4. QED BY <2>2, <2>3
<1>6. n \in 0..Len(s) /\ c = Cardinality(Finalized(n))
  BY <1>2 DEF PsbtsInv
<1> HIDE DEF s, all
<1>7. PICK r \in 0..Len(s)' :
          /\ r = extractor'.received
          /\ extractor'.psbt_counter = Cardinality(Finalized(r))
          /\ \A j \in Finalized(r) : \/ j \in Finalized(n)
                                     \/ AlreadyExists(key, <<"psbts", Cardinality(Finalized(j))>>)'
  <2> DEFINE e == extractor'
             Part == insert_occurrence(key, Event("TransactionFinalized",
                            Of("psbt")[n + 1].channel, Merged(n + 1)), <<"psbts", c + 1>>)
  <2>1. \/ e.received = 0 /\ e.psbt_counter = 0
        \/ e.received = n /\ e.psbt_counter = c
        \/ /\ n < Len(s) /\ e.received = n + 1
           /\ IF Verifies(Merged(n + 1)) THEN e.psbt_counter = c + 1 /\ Part
                                         ELSE e.psbt_counter = c
    BY <1>1, PartSteps DEF s
  <2> HIDE DEF e, Part
  <2>2. CASE e.received = 0 /\ e.psbt_counter = 0
    <3>1. 0 \in 0..Len(s)' /\ 0 \in Nat
      BY <1>3
    <3>2. Finalized(0) = {}
      BY DEF Finalized
    <3>3. Cardinality(Finalized(0)) = 0
      BY <3>2, FS_EmptySet
    <3>4. WITNESS 0 \in 0..Len(s)'
    <3>5. QED BY <2>2, <3>2, <3>3 DEF e
  <2>3. CASE e.received = n /\ e.psbt_counter = c
    <3>a. n \in Nat /\ n \in 0..Len(s)
      BY <1>2, <1>6
    <3>b. Len(s) <= Len(s)' /\ Len(s) \in Nat /\ Len(s)' \in Nat
      BY <1>3
    <3>1. n \in 0..Len(s)'
      BY ONLY <3>a, <3>b
    <3>2. c = Cardinality(Finalized(n))
      BY <1>6
    <3>3. WITNESS n \in 0..Len(s)'
    <3>4. QED BY <2>3, <3>2 DEF e
  <2>4. CASE /\ n < Len(s) /\ e.received = n + 1
             /\ IF Verifies(Merged(n + 1)) THEN e.psbt_counter = c + 1 /\ Part
                                           ELSE e.psbt_counter = c
    <3>a. n \in Nat /\ n \in 0..Len(s) /\ n < Len(s)
      BY <1>2, <1>6, <2>4
    <3>b. Len(s) <= Len(s)' /\ Len(s) \in Nat /\ Len(s)' \in Nat
      BY <1>3
    <3>1. n + 1 \in 0..Len(s)' /\ n + 1 \in 1..Len(s)
      BY ONLY <3>a, <3>b
    <3>2. c = Cardinality(Finalized(n)) /\ Merged(n + 1) = MergedOf(n + 1)
      BY <1>5, <1>6, <3>1
    <3> DEFINE Good(r) == /\ r = extractor'.received
                          /\ extractor'.psbt_counter = Cardinality(Finalized(r))
                          /\ \A j \in Finalized(r) :
                                \/ j \in Finalized(n)
                                \/ AlreadyExists(key, <<"psbts", Cardinality(Finalized(j))>>)'
    <3>3. SUFFICES Good(n + 1)
      BY <3>1
    <3>4. CASE Verifies(Merged(n + 1))
      <4>1. Finalized(n + 1) = Finalized(n) \cup {n + 1}
            /\ Cardinality(Finalized(n + 1)) = c + 1
        BY <3>a, <3>2, <3>4, FinalizedGrows
      <4>2. AlreadyExists(key, <<"psbts", c + 1>>)'
        <5>1. Part
          BY <2>4, <3>4
        <5>2. c + 1 \in Nat /\ <<"psbts", c + 1>> # NoTag
          BY <1>2 DEF NoTag
        <5>3. <<"psbts", c + 1>> \in Seq(TagItem)
          BY <5>2, EventTypes
        <5>4. Event("TransactionFinalized", Of("psbt")[n + 1].channel, Merged(n + 1)) \in Ev
          <6>1. s[n + 1] \in Message
            BY <1>3, <3>1
          <6>2. s[n + 1].channel \in Text
            BY <6>1 DEF Message, Text
          <6>3. Merged(n + 1) \in Text
            BY <1>2, <3>1, MergedType DEF s
          <6>4. "TransactionFinalized" \in Text
            BY DEF Text, Literal
          <6>5. QED BY <6>2, <6>3, <6>4, EventTypes DEF s
        <5>5. occurrences \in Seq(Entry) /\ key \in Group
          BY <1>1, <1>2, InstanceFacts DEF LogInv, IndInv
        <5>6. AlreadyExists(key, <<"psbts", c + 1>>)'
          <6> DEFINE t == <<"psbts", c + 1>>
                     v == Event("TransactionFinalized", Of("psbt")[n + 1].channel, Merged(n + 1))
          <6>1. t \in Seq(TagItem) /\ t # NoTag /\ v \in Ev /\ insert_occurrence(key, v, t)
            BY <5>1, <5>2, <5>3, <5>4 DEF Part
          <6>2. NoTag' = NoTag
            BY DEF NoTag
          <6>3. QED BY <5>5, <6>1, Inserted
        <5>7. QED BY <5>6
      <4>3. e.psbt_counter = c + 1
        BY <2>4, <3>4
      <4>4. \A j \in Finalized(n + 1) : j \in Finalized(n) \/ j = n + 1
        BY <4>1
      <4>5. AlreadyExists(key, <<"psbts", Cardinality(Finalized(n + 1))>>)'
        BY <1>4, <4>1, <4>2
      <4>6. QED BY <2>4, <4>1, <4>3, <4>4, <4>5 DEF e
    <3>5. CASE ~Verifies(Merged(n + 1))
      <4>1. Finalized(n + 1) = Finalized(n)
        BY <3>a, <3>2, <3>5, FinalizedGrows
      <4>2. e.psbt_counter = c
        BY <2>4, <3>5
      <4>3. QED BY <2>4, <3>2, <4>1, <4>2 DEF e
    <3>6. QED BY <3>4, <3>5
  <2>5. QED BY <2>1, <2>2, <2>3, <2>4
<1>8. \A g, t : AlreadyExists(g, t) => AlreadyExists(g, t)'
  <2>1. occurrences' = occurrences \/ \E o \in Entry : occurrences' = Append(occurrences, o)
    BY <1>1, LogSteps DEF Adds
  <2>2. QED BY <1>2, <2>1, LogGrows DEF LogInv
<1>9. \A j \in Finalized(extractor'.received) :
          AlreadyExists(key, <<"psbts", Cardinality(Finalized(j))>>)'
  <2>1. \A j \in Finalized(n) : AlreadyExists(key, <<"psbts", Cardinality(Finalized(j))>>)
    BY <1>2 DEF PsbtsInv
  <2>2. ASSUME NEW j \in Finalized(n) PROVE AlreadyExists(key, <<"psbts", Cardinality(Finalized(j))>>)'
    <3>1. AlreadyExists(key, <<"psbts", Cardinality(Finalized(j))>>)
      BY <2>1
    <3>2. QED BY <1>4, <1>8, <3>1 DEF key
  <2>3. QED BY <1>7, <2>2
<1>10. ASSUME NEW i \in DOMAIN occurrences', NEW k \in Nat,
              occurrences'[i].group_id = key, occurrences'[i].unique_tag = <<"psbts", k>>
       PROVE  \E j \in DOMAIN all :
                 /\ j \in Finalized(j) /\ k = Cardinality(Finalized(j))
                 /\ occurrences'[i].ev.t = "TransactionFinalized" /\ occurrences'[i].ev.w = MergedOf(j)
  <2>1. CASE i \in DOMAIN occurrences /\ occurrences'[i] = occurrences[i]
    BY <1>2, <1>10, <2>1 DEF PsbtsInv, Row, all
  <2>2. CASE ~(i \in DOMAIN occurrences /\ occurrences'[i] = occurrences[i])
    <3>1. PICK o \in Entry : Adds(o) /\ AddedBy(o)
      BY <1>1, <2>2, LogSteps
    <3>2. occurrences'[i] = o
      BY <1>2, <2>2, <3>1, LastAdded DEF LogInv, Adds
    <3>3. ByPsbts(o)
      BY <1>10, <3>1, <3>2, NumberedByPsbts
    <3>4. /\ n < Len(s) /\ Verifies(Merged(n + 1))
          /\ o = Occurrence(key, Event("TransactionFinalized", Of("psbt")[n + 1].channel, Merged(n + 1)),
                            <<"psbts", c + 1>>)
      BY <1>2, <3>3 DEF ByPsbts, NextPart, s
    <3>5. n + 1 \in 1..Len(s)
      BY <1>2, <1>3, <3>4
    <3>6. Merged(n + 1) = MergedOf(n + 1) /\ n + 1 \in DOMAIN all
      BY <1>5, <3>5
    <3>7. /\ Finalized(n + 1) = Finalized(n) \cup {n + 1}
          /\ Cardinality(Finalized(n + 1)) = c + 1
      BY <1>2, <1>6, <3>4, <3>6, FinalizedGrows
    <3>8. /\ \A e, t, v, w : e = Event(t, v, w) => OfType(e, t) /\ e.w = w
          /\ \A g, e, t, p : p = Occurrence(g, e, t) => p.ev = e /\ p.unique_tag = t
      BY DEF Event, Occurrence, OfType
    <3>9. o.unique_tag = <<"psbts", c + 1>>
      BY <3>4, <3>8
    <3>10. k = c + 1
      BY <1>10, <3>2, <3>9
    <3>11. OfType(o.ev, "TransactionFinalized") /\ o.ev.w = Merged(n + 1)
      BY <3>4, <3>8
    <3>12. o.ev.t = "TransactionFinalized"
      BY <3>11 DEF OfType
    <3>13. n + 1 \in Finalized(n + 1)
      BY <3>7
    <3>14. QED BY <3>2, <3>6, <3>7, <3>10, <3>11, <3>12, <3>13
  <2>3. QED BY <2>1, <2>2
<1>11. (\A i \in DOMAIN occurrences : \A k \in Nat :
          occurrences[i].group_id = key /\ occurrences[i].unique_tag = <<"psbts", k>> =>
             \E j \in DOMAIN AllOf("psbt") :
                /\ j \in Finalized(j) /\ k = Cardinality(Finalized(j))
                /\ Row(i).t = "TransactionFinalized" /\ Row(i).w = MergedOf(j))'
  BY <1>3, <1>4, <1>10 DEF Row, key, all
<1>12. extractor'.received \in 0..Len(s)'
       /\ extractor'.psbt_counter = Cardinality(Finalized(extractor'.received))
  BY <1>7
<1>13. (\A j \in Finalized(extractor.received) :
          AlreadyExists(key, <<"psbts", Cardinality(Finalized(j))>>))'
  BY <1>4, <1>9
<1>14. (extractor.psbt_counter = Cardinality(Finalized(extractor.received)))'
  BY <1>4, <1>12
<1>15. QED BY <1>11, <1>12, <1>13, <1>14 DEF PsbtsInv, s

\* What was finalized in this life is in the log, under its number.
LEMMA Recorded == scenario \in Scenario /\ WorldInv /\ LogInv /\ PsbtsInv => FinalizedRecorded
<1>1. SUFFICES ASSUME scenario \in Scenario, WorldInv, LogInv, PsbtsInv PROVE FinalizedRecorded
  OBVIOUS
<1> DEFINE r == extractor.received
<1>2. r \in 0..Len(Of("psbt")) /\ Len(Of("psbt")) \in Nat
  <2>1. Of("psbt") \in Seq(Message)
    BY <1>1, DeliveryHolds DEF Delivery, Kind
  <2>2. QED BY <1>1, <2>1, LenProperties DEF PsbtsInv
<1>3. \A n \in 0..r : VerifiedUpTo(n) = Finalized(n)
  <2>1. \A i \in 1..Len(Of("psbt")) : Merged(i) = MergedOf(i)
    BY <1>1, MergedType
  <2>2. \A n \in 0..r : \A i \in 1..n : i \in 1..Len(Of("psbt"))
    BY <1>2
  <2>3. QED BY <2>1, <2>2 DEF VerifiedUpTo, Finalized
<1>4. ASSUME NEW n \in VerifiedUpTo(r)
      PROVE  \E i \in DOMAIN occurrences :
                /\ occurrences[i].group_id = key
                /\ occurrences[i].unique_tag = <<"psbts", Cardinality(VerifiedUpTo(n))>>
                /\ Row(i).t = "TransactionFinalized" /\ Row(i).w = Merged(n)
  <2>1. n \in Finalized(r) /\ n \in 1..r /\ n \in 0..r /\ r \in 0..r
    <3>1. n \in 1..r /\ r \in 0..r
      BY <1>2 DEF VerifiedUpTo
    <3>2. QED BY <1>2, <1>3, <3>1
  <2>2. n \in Finalized(n) /\ n \in Nat
    BY <1>2, <2>1 DEF Finalized
  <2>3. Cardinality(Finalized(n)) \in Nat
    BY <2>2, FinalizedGrows
  <2>4. AlreadyExists(key, <<"psbts", Cardinality(Finalized(n))>>)
    BY <1>1, <2>1 DEF PsbtsInv
  <2>5. PICK i \in DOMAIN occurrences :
           /\ occurrences[i].group_id = key
           /\ occurrences[i].unique_tag = <<"psbts", Cardinality(Finalized(n))>>
    BY <2>4 DEF AlreadyExists
  <2>6. PICK m \in DOMAIN AllOf("psbt") :
           /\ m \in Finalized(m) /\ Cardinality(Finalized(n)) = Cardinality(Finalized(m))
           /\ Row(i).t = "TransactionFinalized" /\ Row(i).w = MergedOf(m)
    BY <1>1, <2>3, <2>5 DEF PsbtsInv
  <2>7. m \in Nat
    <3>1. AllOf("psbt") \in Seq(Message)
      BY <1>1, DeliveryHolds DEF Delivery, Kind
    <3>2. m \in 1..Len(AllOf("psbt")) /\ Len(AllOf("psbt")) \in Nat
      BY <3>1, LenProperties
    <3>3. QED BY <3>2
  <2>8. m = n
    BY <2>2, <2>6, <2>7, FinalizedApart
  <2>9. Merged(n) = MergedOf(n)
    <3>1. n \in 1..Len(Of("psbt"))
      BY <1>2, <2>1
    <3>2. QED BY <1>1, <3>1, MergedType
  <2>10. VerifiedUpTo(n) = Finalized(n)
    BY <1>3, <2>1
  <2>11. QED BY <2>5, <2>6, <2>8, <2>9, <2>10
<1>5. QED BY <1>4 DEF FinalizedRecorded

-----------------------------------------------------------------------------
(* The first state.                                                           *)

\* The rows that a behaviour begins with.
RowIs(o, g, t, tag) == o.group_id = g /\ o.ev.t = t /\ o.unique_tag = tag
FirstRow(o, i) ==
    \/ i = 1 /\ RowIs(o, ModuleRepo, "ModuleRepo", module_tag)
    \/ i = 2 /\ RowIs(o, 1, "ModuleBytes", <<"InitModule">>)
    \/ i = 3 /\ RowIs(o, 1, "CreateArgs", <<"CreateArgs">>)
    \/ i = 4 /\ RowIs(o, 1, "Rebind", <<"FirstBind">>)
    \/ i = 5 /\ RowIs(o, 1, "TransactionFinalized", <<"funding_tx">>)

\* The log of the first state has the first of these rows.
LEMMA FirstLog ==
    ASSUME Init
    PROVE  /\ scenario \in Scenario /\ groups \subseteq Group /\ occurrences \in Seq(Entry)
           /\ \A i \in DOMAIN occurrences :
                 /\ FirstRow(occurrences[i], i) /\ i \in 1..5 /\ 1..i \subseteq DOMAIN occurrences
                 /\ occurrences[i].group_id \in groups
           /\ host = "up" => 1 \in DOMAIN occurrences
<1>1. /\ scenario \in Scenario /\ host = scenario.host
      /\ groups = scenario.groups /\ occurrences = scenario.occurrences
  BY DEF Init, GameInitInit
<1>2. <<groups, occurrences>> \in HostLog /\ (host = "up" => occurrences # <<>>)
  BY <1>1, GameInitAssumption
<1>3. /\ \A g, e, t : Occurrence(g, e, t) = [group_id |-> g, ev |-> e, unique_tag |-> t]
      /\ \A t, v, w : Event(t, v, w).t = t
  BY DEF Occurrence, Event
<1>4. ModuleRepo \in Group /\ 1 \in Group
  BY GameInitAssumption DEF Group, Code
<1>5. \A g \in Group : \A e \in Ev : \A t \in Seq(TagItem) : Occurrence(g, e, t) \in Entry
  BY DEF Occurrence, Entry
<1>6. \A g, t, v, w, tag : \A o : o = Occurrence(g, Event(t, v, w), tag) => RowIs(o, g, t, tag)
  BY <1>3 DEF RowIs
<1>7. Modules \in Entry /\ RowIs(Modules, ModuleRepo, "ModuleRepo", module_tag)
  <2>1. Event("ModuleRepo", "", "") \in Ev /\ module_tag \in Seq(TagItem)
    <3>1. "ModuleRepo" \in Text /\ "" \in Text
      BY DEF Text, Literal
    <3>2. QED BY <3>1, EventTypes
  <2>2. Modules = Occurrence(ModuleRepo, Event("ModuleRepo", "", ""), module_tag)
    BY DEF Modules
  <2>3. QED BY <1>4, <1>5, <1>6, <2>1, <2>2
<1> DEFINE f == [i \in 1..4 |-> Occurrence(1, FirstEvents[i].ev, FirstEvents[i].tag)]
<1>8. Started = <<Modules>> \o f
  <2>1. DOMAIN FirstEvents = 1..4
    BY DEF FirstEvents
  <2>2. QED BY <2>1 DEF Started
<1>9. f \in Seq(Entry) /\ Len(f) = 4
  <2>1. \A i \in 1..4 : f[i] \in Entry
    BY <1>4, <1>5, EventTypes
  <2>2. QED BY <2>1
<1>10. /\ RowIs(f[1], 1, "ModuleBytes", <<"InitModule">>)
       /\ RowIs(f[2], 1, "CreateArgs", <<"CreateArgs">>)
       /\ RowIs(f[3], 1, "Rebind", <<"FirstBind">>)
       /\ RowIs(f[4], 1, "TransactionFinalized", <<"funding_tx">>)
  <2>0. \A i \in 1..4 : f[i] = Occurrence(1, FirstEvents[i].ev, FirstEvents[i].tag)
    OBVIOUS
  <2> HIDE DEF f
  <2>a. 1 \in 1..4 /\ 2 \in 1..4 /\ 3 \in 1..4 /\ 4 \in 1..4
    OBVIOUS
  <2>1. f[1] = Occurrence(1, Event("ModuleBytes", "", ""), <<"InitModule">>)
    BY <2>0, <2>a, FirstRows
  <2>2. f[2] = Occurrence(1, Event("CreateArgs", "", ""), <<"CreateArgs">>)
    BY <2>0, <2>a, FirstRows
  <2>3. f[3] = Occurrence(1, Event("Rebind", "", ""), <<"FirstBind">>)
    BY <2>0, <2>a, FirstRows
  <2>4. f[4] = Occurrence(1, Event("TransactionFinalized", "default", ""), <<"funding_tx">>)
    BY <2>0, <2>a, FirstRows
  <2>5. QED BY <1>6, <2>1, <2>2, <2>3, <2>4
<1> HIDE DEF f
<1>11. /\ Started \in Seq(Entry) /\ Len(Started) = 5 /\ Started[1] = Modules
       /\ \A i \in 2..5 : Started[i] = f[i - 1]
  <2> DEFINE one == <<Modules>>
  <2>1. one \in Seq(Entry) /\ Len(one) = 1 /\ one[1] = Modules
    BY <1>7
  <2> HIDE DEF one
  <2> DEFINE all == one \o f
  <2>2. /\ all \in Seq(Entry) /\ Len(all) = Len(one) + Len(f)
        /\ \A i \in 1..Len(one) + Len(f) :
              all[i] = IF i <= Len(one) THEN one[i] ELSE f[i - Len(one)]
    <3>1. f \in Seq(Entry)
      BY <1>9
    <3>2. QED BY ONLY <2>1, <3>1, ConcatProperties, Zenon
  <2>3. Started = all
    BY <1>8 DEF one
  <2> HIDE DEF all
  <2>4. Len(all) = 5 /\ all[1] = Modules /\ \A i \in 2..5 : all[i] = f[i - 1]
    BY <1>9, <2>1, <2>2
  <2>5. QED BY <2>2, <2>3, <2>4
<1>12. CASE groups = {} /\ occurrences = <<>>
  BY <1>1, <1>2, <1>12
<1>13. CASE groups = {ModuleRepo} /\ occurrences = <<Modules>>
  <2>1. DOMAIN occurrences = {1} /\ occurrences[1] = Modules /\ 1..1 = {1}
        /\ occurrences \in Seq(Entry)
    BY <1>7, <1>13
  <2>2. QED BY <1>1, <1>4, <1>7, <1>13, <2>1 DEF FirstRow, RowIs
<1>14. CASE groups = {ModuleRepo, 1} /\ occurrences = Started
  <2>1. DOMAIN occurrences = 1..5 /\ occurrences \in Seq(Entry)
    BY <1>11, <1>14
  <2>2. FirstRow(occurrences[1], 1)
    BY <1>7, <1>11, <1>14 DEF FirstRow
  <2>3. /\ occurrences[2] = f[1] /\ occurrences[3] = f[2] /\ occurrences[4] = f[3]
        /\ occurrences[5] = f[4]
    BY <1>11, <1>14
  <2>4. FirstRow(occurrences[2], 2) /\ FirstRow(occurrences[3], 3)
        /\ FirstRow(occurrences[4], 4) /\ FirstRow(occurrences[5], 5)
    BY <1>10, <2>3 DEF FirstRow
  <2>5. \A i \in 1..5 : i \in {1, 2, 3, 4, 5} /\ 1..i \subseteq 1..5
    OBVIOUS
  <2>6. \A i \in 1..5 : FirstRow(occurrences[i], i)
    BY <2>2, <2>4, <2>5
  <2>7. \A o, i : FirstRow(o, i) => o.group_id \in {ModuleRepo, 1}
    BY DEF FirstRow, RowIs
  <2>8. QED BY <1>1, <1>4, <1>14, <2>1, <2>5, <2>6, <2>7
<1>15. \/ groups = {} /\ occurrences = <<>>
       \/ groups = {ModuleRepo} /\ occurrences = <<Modules>>
       \/ groups = {ModuleRepo, 1} /\ occurrences = Started
  BY <1>2 DEF HostLog
<1>16. QED BY <1>12, <1>13, <1>14, <1>15

\* The first rows are unique, and in order.
LEMMA LogInit == Init => LogInv
<1>1. SUFFICES ASSUME Init PROVE LogInv
  OBVIOUS
<1>2. /\ scenario \in Scenario /\ groups \subseteq Group /\ occurrences \in Seq(Entry)
      /\ \A i \in DOMAIN occurrences :
            /\ FirstRow(occurrences[i], i) /\ i \in 1..5 /\ 1..i \subseteq DOMAIN occurrences
            /\ occurrences[i].group_id \in groups
      /\ host = "up" => 1 \in DOMAIN occurrences
  BY <1>1, FirstLog
<1>3. \A r \in Handler : request[r] = "new"
  BY <1>1 DEF Init, GameInitInit
<1>4. module_tag # NoTag /\ module_tag # <<"InitModule">> /\ module_tag # <<"CreateArgs">>
  BY DEF module_tag, NoTag
<1>5. \A o, p, i, j : FirstRow(o, i) /\ FirstRow(p, j) /\ o.unique_tag = p.unique_tag => i = j
  <2> DEFINE Tag(i) == IF i = 1 THEN module_tag ELSE IF i = 2 THEN <<"InitModule">>
                       ELSE IF i = 3 THEN <<"CreateArgs">> ELSE IF i = 4 THEN <<"FirstBind">>
                       ELSE <<"funding_tx">>
  <2>1. \A o, i : FirstRow(o, i) => i \in 1..5 /\ o.unique_tag = Tag(i)
    BY DEF FirstRow, RowIs
  <2>2. \A i, j \in 1..5 : Tag(i) = Tag(j) => i = j
    BY DEF module_tag
  <2> HIDE DEF Tag
  <2>3. QED BY <2>1, <2>2
<1>6. EventLogTypeOK
  BY <1>2, <1>5 DEF EventLogTypeOK
<1>7. 1 \in DOMAIN occurrences => AlreadyExists(ModuleRepo, module_tag)
  <2>1. \A o : FirstRow(o, 1) => o.group_id = ModuleRepo /\ o.unique_tag = module_tag
    BY DEF FirstRow, RowIs
  <2>2. QED BY <1>2, <1>4, <2>1 DEF AlreadyExists
<1>8. ASSUME NEW i \in DOMAIN occurrences
      PROVE  /\ occurrences[i].unique_tag = <<"InitModule">> => Row(i).t = "ModuleBytes"
             /\ occurrences[i].unique_tag = <<"CreateArgs">> <=> Row(i).t = "CreateArgs"
             /\ Row(i).t = "ModuleBytes" => AlreadyExists(ModuleRepo, module_tag)
             /\ Row(i).t = "CreateArgs" => Earlier(i, "ModuleBytes")
             /\ Row(i).t = "Rebind" => Earlier(i, "CreateArgs")
  <2> DEFINE o == occurrences[i]
  <2>1. FirstRow(o, i) /\ i \in 1..5 /\ 1..i \subseteq DOMAIN occurrences
    BY <1>2
  <2>2. 1 \in DOMAIN occurrences
    BY <2>1
  <2>3. \A j \in 1..i : FirstRow(occurrences[j], j)
    BY <1>2, <2>1
  <2>4. CASE i = 1
    <3>1. o.unique_tag = module_tag /\ o.ev.t = "ModuleRepo"
      BY <2>1, <2>4 DEF FirstRow, RowIs
    <3>2. QED BY <1>4, <3>1 DEF Row
  <2>5. CASE i = 2
    <3>1. o.unique_tag = <<"InitModule">> /\ o.ev.t = "ModuleBytes"
      BY <2>1, <2>5 DEF FirstRow, RowIs
    <3>2. QED BY <1>7, <2>2, <3>1 DEF Row
  <2>6. CASE i = 3
    <3>1. o.unique_tag = <<"CreateArgs">> /\ o.ev.t = "CreateArgs" /\ o.group_id = 1
      BY <2>1, <2>6 DEF FirstRow, RowIs
    <3>2. 2 \in 1..i /\ 2 \in 1..i - 1
      BY <2>6
    <3>3. occurrences[2].ev.t = "ModuleBytes" /\ occurrences[2].group_id = 1
      BY <2>3, <3>2 DEF FirstRow, RowIs
    <3>4. Earlier(i, "ModuleBytes")
      BY <3>1, <3>2, <3>3 DEF Earlier, Row
    <3>5. QED BY <3>1, <3>4 DEF Row
  <2>7. CASE i = 4
    <3>1. o.unique_tag = <<"FirstBind">> /\ o.ev.t = "Rebind" /\ o.group_id = 1
      BY <2>1, <2>7 DEF FirstRow, RowIs
    <3>2. 3 \in 1..i /\ 3 \in 1..i - 1
      BY <2>7
    <3>3. occurrences[3].ev.t = "CreateArgs" /\ occurrences[3].group_id = 1
      BY <2>3, <3>2 DEF FirstRow, RowIs
    <3>4. Earlier(i, "CreateArgs")
      BY <3>1, <3>2, <3>3 DEF Earlier, Row
    <3>5. QED BY <3>1, <3>4 DEF Row
  <2>8. CASE i = 5
    <3>1. o.unique_tag = <<"funding_tx">> /\ o.ev.t = "TransactionFinalized"
      BY <2>1, <2>8 DEF FirstRow, RowIs
    <3>2. QED BY <3>1 DEF Row
  <2>9. i \in {1, 2, 3, 4, 5}
    BY <2>1
  <2>10. QED BY <2>4, <2>5, <2>6, <2>7, <2>8, <2>9
<1>9. QED BY <1>2, <1>3, <1>6, <1>7, <1>8 DEF LogInv

\* None of them is an extractor's or the loop's.
LEMMA FirstLogPlain ==
    ASSUME Init, NEW i \in DOMAIN occurrences
    PROVE  /\ Row(i).t # "NewRecompileTriggeringObservation"
           /\ \A n : occurrences[i].unique_tag # <<"psbts", n>>
           /\ \A p : occurrences[i].unique_tag # SignedTag(p)
<1>1. FirstRow(occurrences[i], i)
  BY FirstLog
<1> DEFINE Tag(t) == (\A n : t # <<"psbts", n>>) /\ (\A p : t # SignedTag(p))
<1>2. \A a : Tag(<<a>>)
  BY DEF SignedTag
<1>3. Tag(module_tag)
  BY DEF SignedTag, module_tag
<1> HIDE DEF Tag
<1>4. Tag(occurrences[i].unique_tag)
  BY <1>1, <1>2, <1>3 DEF FirstRow, RowIs
<1>5. Row(i).t # "NewRecompileTriggeringObservation"
  BY <1>1 DEF FirstRow, RowIs, Row
<1>6. QED BY <1>4, <1>5 DEF Tag

\* No instance, and nothing in the database.
LEMMA InstanceInit == Init => InstanceInv /\ WorldInv
<1>1. SUFFICES ASSUME Init PROVE InstanceInv /\ WorldInv
  OBVIOUS
<1>2. /\ scenario \in Scenario /\ Forgotten /\ writer = NoWriter
      /\ lives = scenario.lives
      /\ world = [genesis |-> scenario.genesis, batches |-> 0, have |-> {},
                  equivocated |-> {}, posted |-> [p \in Pair |-> 0]]
      /\ budget = [ticks |-> scenario.ticks, faults |-> scenario.faults]
  BY <1>1 DEF Init, GameInitInit
<1>3. /\ scenario.lives \in Nat /\ scenario.genesis \in BOOLEAN
      /\ scenario.ticks \in Nat /\ scenario.faults \in Nat
  BY <1>2, LitigatorAssumption
<1>4. Memory
  <2>1. budget \in [ticks : Nat, faults : Nat] /\ lives \in Nat
    BY <1>2, <1>3
  <2>2. /\ Loop("off") \in [pc : {"off", "recv", "emit", "spin", "error", "dropped"}, counter : Nat,
                            queue : SUBSET Pair, fault : BOOLEAN]
        /\ Idle("off") \in [pc : {"off", "sleep", "send", "ended"}, last : Nat, rows : Seq(Nat),
                            notified : BOOLEAN]
    BY DEF Loop, Idle
  <2>3. NoTasks \in [time : BOOLEAN, dlog : BOOLEAN, known : SUBSET STRING,
                      game : {"off", "play", "ended"}, moves : Nat,
                      snapshot : {"none", "pending", "made", "lost"},
                      psbts : BOOLEAN, received : Nat, psbt_counter : Nat]
    BY DEF NoTasks
  <2>4. QED BY <1>2, <2>1, <2>2, <2>3 DEF Memory, Forgotten
<1>5. Open
  BY <1>2 DEF Open
<1>6. WorldInv
  <2>1. Len(Batches) \in Nat
    BY <1>2, FirstOfValues DEF Kind
  <2>2. world \in [genesis : BOOLEAN, batches : Nat, have : SUBSET Message,
                  equivocated : SUBSET STRING, posted : [Pair -> Nat]]
    BY <1>2, <1>3
  <2>3. world.batches = 0 /\ world.equivocated = {}
    BY <1>2
  <2>4. QED BY <2>1, <2>2, <2>3 DEF WorldInv
<1>7. QED BY <1>4, <1>5, <1>6 DEF InstanceInv

\* The invariant holds at the beginning.
LEMMA InvInit == Init => IndInv
<1>1. SUFFICES ASSUME Init PROVE IndInv
  OBVIOUS
<1>2. HostInv /\ LogInv /\ InstanceInv /\ WorldInv /\ scenario \in Scenario
  BY <1>1, HostInit, LogInit, InstanceInit, FirstLog
<1>3. /\ reader = Idle("off") /\ channel = <<>> /\ loop = Loop("off") /\ state = NotLoaded
      /\ extractor = NoTasks /\ writer = NoWriter /\ torn = [p \in Pair |-> 0]
      /\ world.posted = [p \in Pair |-> 0]
  BY <1>1 DEF Init, Forgotten, GameInitInit
<1>4. /\ reader.last = 0 /\ reader.rows = <<>> /\ reader.pc = "off"
      /\ loop.counter = 0 /\ loop.pc = "off"
  BY <1>3 DEF Idle, Loop
<1>5. /\ extractor.moves = 0 /\ extractor.snapshot = "none" /\ extractor.game = "off"
      /\ extractor.received = 0 /\ extractor.psbt_counter = 0
  BY <1>3 DEF NoTasks
<1>6. EmissionsInv
  <2>1. \A p \in Pair : ~Emitted(p)
    BY <1>1, FirstLogPlain DEF Emitted, AlreadyExists
  <2>2. \A p \in Pair : writer # p
    BY <1>3, PairType
  <2>3. QED BY <1>3, <2>1, <2>2 DEF EmissionsInv, EmissionsAgree
<1>7. Len(Ids) \in Nat /\ Rows \in Seq(Entry)
  BY <1>2, IdsFacts
<1>8. ReaderInv
  <2>1. Sent = 0
    BY <1>3, <1>4 DEF Sent, Taken
  <2>2. QED BY <1>3, <1>4, <1>7, <2>1 DEF ReaderInv
<1>9. LoopInv
  <2>1. SubSeq(Rows, 1, loop.counter) = <<>>
    BY <1>4, <1>7
  <2>2. state = Meaning(SubSeq(Rows, 1, loop.counter))
    BY <1>3, <2>1, NothingKnown
  <2>3. state.effects = {}
    BY <1>3 DEF NotLoaded
  <2>4. EndsOnlyForCause
    BY <1>4 DEF EndsOnlyForCause
  <2>5. QED BY <1>4, <2>2, <2>3, <2>4 DEF LoopInv
<1>10. /\ Len(Of("move")) \in Nat /\ Len(Of("psbt")) \in Nat
  BY <1>2, DeliveryHolds, LenProperties DEF Delivery, Kind
<1>11. GameInv
  BY <1>1, <1>5, <1>10, FirstLogPlain DEF GameInv
<1>12. PsbtsInv
  <2>1. Finalized(0) = {}
    BY DEF Finalized
  <2>2. Cardinality(Finalized(0)) = 0
    BY <2>1, FS_EmptySet
  <2>3. QED BY <1>1, <1>5, <1>10, <2>1, <2>2, FirstLogPlain DEF PsbtsInv
<1>13. QED BY <1>2, <1>4, <1>6, <1>8, <1>9, <1>11, <1>12 DEF IndInv, HostInv, ReplayInv

\* The invariant, and what the runs check.
LEMMA IndInvNext == IndInv /\ [Next]_vars => IndInv'
<1>1. SUFFICES ASSUME IndInv, [Next]_vars PROVE IndInv'
  OBVIOUS
<1>2. HostInv /\ HostInv'
  BY <1>1, HostNext DEF IndInv, HostInv
<1>3. LogInv' /\ InstanceInv' /\ EmissionsInv' /\ ReplayInv' /\ WorldInv'
      /\ GameInv' /\ PsbtsInv'
  BY <1>1, LogNext, InstanceNext, EmissionsNext, ReplayNext, WorldNext, GameNext, PsbtsNext
<1>4. QED BY <1>2, <1>3 DEF IndInv, HostInv

\* The inductive invariant of the host, the log and the instance together, in every
\* behaviour of the two processes, their crashes and restarts.
THEOREM Invariance == FairSpec => []IndInv
BY InvInit, IndInvNext, PTL DEF FairSpec

-----------------------------------------------------------------------------
(* The results.                                                               *)

\* What the log and the registry have of a game has happened once: the host's locks
\* and tags, and those of the extractors, leave no second copy, and every variable of
\* the two processes has its type.
THEOREM HappensOnceAlways == FairSpec => []HappensOnce
<1>1. IndInv => HappensOnce
  <2>1. SUFFICES ASSUME IndInv PROVE HappensOnce
    OBVIOUS
  <2>2. HostType /\ RegistryInv /\ ChainInv /\ LogInv /\ Memory /\ Open /\ ReplayInv /\ WorldInv
        /\ GameInv
    BY <2>1 DEF IndInv, InstanceInv
  <2>3. /\ EventLogTypeOK
        /\ states = ToSet(by_time) /\ Len(by_time) <= MaxGames
        /\ task \in {"off", "absent", "spawned", "running", "finished", "taken"}
        /\ writer \in Pair \cup {NoWriter} /\ (writer # NoWriter => loop.pc = "emit")
    BY <2>2 DEF LogInv, HostType, RegistryInv, Memory, Open
  <2>4. \A c \in Code : /\ game[c].st \in {"AddingPlayers", "WaitingForSetup", "Setup"}
                        /\ Len(game[c].envelopes) <= MAX_PLAYERS
                        /\ state_lock[c] \in Handler \cup {NoHandler}
    BY <2>2 DEF HostType, RegistryInv, Metadata
  <2>5. /\ reader.pc \in {"off", "sleep", "send", "ended"}
        /\ loop.pc \in {"off", "recv", "emit", "spin", "error", "dropped"}
        /\ loop.queue \subseteq Pair
    BY <2>2 DEF Memory
  <2>6. Len(channel) <= 1
    <3>1. channel = <<>> \/ \E x : channel = <<x>>
      BY <2>2 DEF ReplayInv, ReaderInv
    <3>2. Len(<<>>) = 0 /\ \A x : Len(<<x>>) = 1
      OBVIOUS
    <3>3. QED BY ONLY <3>1, <3>2
  <2>7. TypeOK
    BY <2>3, <2>4, <2>5, <2>6 DEF TypeOK
  <2>8. OneChainPerGame
    BY <2>2 DEF ChainInv, OneChainPerGame
  <2>9. EndObservedOnce
    BY <2>2, EndsOnce DEF HostType
  <2>10. QED BY <2>7, <2>8, <2>9 DEF HappensOnce
<1>2. QED BY <1>1, Invariance, PTL

\* A crash or a failure between the two commits of process_psbt_fail_ok, or while the
\* parts of a transaction arrive, leaves nothing half done: what was posted is in the
\* log or was torn, by a crash or by the second commit, and what handle_psbts finalized
\* in this life is in the log.
THEOREM CrashLosesNothingAlways == FairSpec => []CrashLosesNothing
<1>1. IndInv => CrashLosesNothing
  BY Recorded DEF IndInv, HostType, EmissionsInv, CrashLosesNothing
<1>2. QED BY <1>1, Invariance, PTL

\* Unless a database, a thread or the module's loading fails inside a handler, event_loop
\* ends with an error only at an observation, or at arguments that the module refuses:
\* never for the module's bytes, for the arguments of create without the module, or for
\* a periodic event before the contract compiled.
THEOREM EndsOnlyForCauseAlways == FairSpec => []EndsOnlyForCause
<1>1. IndInv => EndsOnlyForCause
  BY DEF IndInv, ReplayInv, LoopInv, EndsOnlyForCause
<1>2. QED BY <1>1, Invariance, PTL

\* A step of the two processes replays the log: it handles the next occurrence,
\* begins again, lets the log grow, counts on without a reader, or does none of it.
Over == loop.pc = "spin"
Stutters == Rows' = Rows /\ loop'.counter = loop.counter /\ state' = state /\ Over' = Over
GrowsOn == /\ IsPrefix(Rows, Rows') /\ Rows' # Rows
           /\ loop'.counter = loop.counter /\ state' = state /\ Over' = Over
TakesOne == /\ ~Over /\ ~Over' /\ loop.counter < Len(Rows) /\ loop'.counter = loop.counter + 1
            /\ state' = Meaning(SubSeq(Rows, 1, loop'.counter)) /\ Rows' = Rows
CountsOn == Over' /\ loop'.counter = loop.counter + 1 /\ Rows' = Rows /\ state' = state
BeginsAgain == loop'.counter = 0 /\ state' = Meaning(<<>>) /\ Rows' = Rows /\ ~Over'
LEMMA ReplayStep ==
    ASSUME IndInv, [Next]_vars, ReplayInv'
    PROVE  Stutters \/ GrowsOn \/ TakesOne \/ CountsOn \/ BeginsAgain
<1>1. /\ LogInv /\ ReplayInv /\ Memory /\ loop.counter \in Nat
      /\ loop \in [pc : {"off", "recv", "emit", "spin", "error", "dropped"}, counter : Nat,
                   queue : SUBSET Pair, fault : BOOLEAN]
  BY DEF IndInv, InstanceInv, Memory
<1>2. occurrences' = occurrences => Rows' = Rows
  BY DEF Rows, occurrences_for_group, occurrences_for_group_after_id, key
<1>3. ~Over' => state' = Meaning(SubSeq(Rows', 1, loop'.counter))
  <2>1. (Meaning(SubSeq(Rows, 1, loop.counter)))' = Meaning(SubSeq(Rows', 1, loop'.counter))
    BY DEF Meaning, Index, Accepted, Hit
  <2>2. QED BY <2>1 DEF ReplayInv, LoopInv, Over
<1>a. ~Over => ReaderInv /\ LoopInv
  BY <1>1 DEF ReplayInv, Over
<1>4. \A pc : Loop(pc).counter = 0 /\ Loop(pc).pc = pc
  BY DEF Loop
<1>5. litigator_crashes => BeginsAgain
  <2>1. litigator_crashes => loop' = Loop("off") /\ state' = NotLoaded /\ occurrences' = occurrences
    BY DEF litigator_crashes
  <2>2. QED BY <1>2, <1>4, <2>1, NothingKnown DEF BeginsAgain, Over
<1>6. litigate_contract => BeginsAgain
  <2>1. litigate_contract => /\ loop' \in {Loop("recv"), Loop("dropped")} /\ state' = state
                             /\ occurrences' = occurrences /\ state = NotLoaded
    BY <1>1 DEF litigate_contract, evlog, Memory
  <2>2. QED BY <1>2, <1>4, <2>1, NothingKnown DEF BeginsAgain, Over
<1>7. event_log_processor_wakes \/ event_log_processor_sends => Stutters
  BY <1>2 DEF event_log_processor_wakes, event_log_processor_sends, evlog, Stutters, Over
<1>8. emit_ends => TakesOne
  <2>1. SUFFICES ASSUME emit_ends PROVE TakesOne
    OBVIOUS
  <2>2. loop.pc = "emit" /\ loop' = [loop EXCEPT !.pc = "recv", !.counter = loop.counter + 1]
        /\ occurrences' = occurrences
    BY <2>1 DEF emit_ends, Unread, evlog
  <2>3. loop'.counter = loop.counter + 1 /\ ~Over /\ ~Over'
    BY <1>1, <2>2 DEF Over
  <2>4. Len(Rows) = Len(Ids) /\ Len(Ids) \in Nat
    BY <1>1, IdsFacts
  <2>5. Taken = loop.counter + 1 /\ Taken <= Sent /\ Sent \in 0..Len(Ids)
    BY <1>1, <1>a, <2>2, <2>3, Counts
  <2>6. loop.counter < Len(Rows)
    BY <1>1, <2>4, <2>5
  <2>7. QED BY <1>2, <1>3, <2>2, <2>3, <2>6 DEF TakesOne
<1>9. recv_none => CountsOn
  <2>1. recv_none => state' = state /\ loop' = [loop EXCEPT !.pc = "spin", !.counter = loop.counter + 1]
                     /\ occurrences' = occurrences
    BY DEF recv_none, Unread, evlog
  <2>2. QED BY <1>1, <1>2, <2>1 DEF CountsOn, Over
<1>10. ASSUME Handle, ~recv_none PROVE Stutters \/ TakesOne
  <2>1. Rows' = Rows /\ loop.pc = "recv" /\ channel # <<>> /\ ~Over /\ ~Over'
    BY <1>2, <1>10, Handlers DEF evlog, Over
  <2>2. CASE loop'.counter = loop.counter + 1
    <3>1. loop.counter < Len(Rows)
      BY <2>1, Holds
    <3>2. QED BY <1>3, <2>1, <2>2, <3>1 DEF TakesOne
  <2>3. CASE loop'.counter = loop.counter /\ state' = state
    BY <2>1, <2>3 DEF Stutters, Over
  <2>4. QED BY <1>10, <2>2, <2>3, Handlers
<1>11. ASSUME HandlerFails PROVE Stutters
  <2>1. loop' = [loop EXCEPT !.pc = "error", !.fault = TRUE] /\ UNCHANGED <<occurrences, state>>
    BY <1>11, FailureBreaks DEF Breaks, evlog
  <2>2. loop.pc = "recv"
    BY <1>11 DEF HandlerFails, module_bytes_fail, create_args_fail, new_information_fails,
                 synthetic_periodic_fails, Received
  <2>3. QED BY <1>1, <1>2, <2>1, <2>2 DEF Stutters, Over
<1>12. ASSUME ~litigator_crashes, ~litigate_contract, ~event_log_processor_wakes,
              ~event_log_processor_sends, ~Handle, ~HandlerFails, ~emit_ends
       PROVE  Stutters \/ GrowsOn
  <2>1. loop'.counter = loop.counter /\ state' = state /\ Over' = Over
    BY <1>1, <1>12, LoopRests DEF Over
  <2>2. occurrences' = occurrences \/ \E o \in Entry : occurrences' = Append(occurrences, o)
    BY LogSteps DEF Adds
  <2>3. /\ Rows \in Seq(Entry) /\ Rows' \in Seq(Entry) /\ Len(Rows) \in Nat /\ Len(Rows') \in Nat
        /\ Len(Rows) <= Len(Rows') /\ \A n \in 1..Len(Rows) : Rows'[n] = Rows[n]
    <3>1. Rows \in Seq(Entry) /\ Len(Rows) = Len(Ids) /\ Len(Ids) \in Nat
      BY <1>1, IdsFacts
    <3>2. /\ Len(Ids)' \in Nat /\ Len(Ids) <= Len(Ids)'
          /\ \A n \in 1..Len(Ids) : Rows'[n] = Rows[n]
          /\ Rows' \in Seq(Entry) /\ Len(Rows)' = Len(Ids)'
      BY <1>1, <2>2, IdsGrow
    <3>3. QED BY <3>1, <3>2
  <2>4. SubSeq(Rows', 1, Len(Rows)) = SubSeq(Rows, 1, Len(Rows))
    <3>1. Len(Rows) \in 0..Len(Rows)
      BY <2>3
    <3>2. QED BY <2>3, <3>1, PrefixStays
  <2>5. IsPrefix(Rows, Rows')
    BY <2>3, <2>4 DEF IsPrefix
  <2>6. QED BY <2>1, <2>5 DEF Stutters, GrowsOn
<1>13. QED BY <1>5, <1>6, <1>7, <1>8, <1>9, <1>10, <1>11, <1>12

\* event_log_processor and event_loop implement EventReplay: through the reader's
\* cursor and its notifications, the channel, crashes and restarts, and with every
\* other process writing to the log, the instance handles each occurrence of its
\* contract once and in order, and its state is what they mean.  Without its reader the
\* loop counts on, and changes nothing more.
THEOREM ReplaysItsLog == FairSpec => ReplaysLog
<1>1. Init => Replay!Init
  <2>1. SUFFICES ASSUME Init PROVE Replay!Init
    OBVIOUS
  <2>2. loop = Loop("off") /\ state = NotLoaded
    BY <2>1 DEF Init, Forgotten
  <2>3. loop.counter = 0 /\ state = Meaning(<<>>) /\ (loop.pc = "spin") = FALSE
    BY <2>2, NothingKnown DEF Loop
  <2>4. QED BY <2>3 DEF Replay!Init
<1>2. IndInv /\ IndInv' /\ [Next]_vars
        => [Replay!Grow \/ Replay!HandleOne \/ Replay!Overrun \/ Replay!Restart]_<<occurrences_for_group(key), loop.counter, state, loop.pc = "spin">>
  <2>1. SUFFICES ASSUME IndInv, IndInv', [Next]_vars
                 PROVE  [Replay!Grow \/ Replay!HandleOne \/ Replay!Overrun \/ Replay!Restart]_<<occurrences_for_group(key), loop.counter, state, loop.pc = "spin">>
    OBVIOUS
  <2>2. Stutters \/ GrowsOn \/ TakesOne \/ CountsOn \/ BeginsAgain
    BY <2>1, ReplayStep DEF IndInv
  <2>3. Rows = occurrences_for_group(key) /\ Rows' = occurrences_for_group(key)'
    BY DEF Rows
  <2>4. \A s, t : IsPrefix(s, t) => Replay!IsPrefix(s, t)
    BY DEF IsPrefix, Replay!IsPrefix
  <2>5. Stutters => UNCHANGED <<occurrences_for_group(key), loop.counter, state, loop.pc = "spin">>
    BY <2>3 DEF Stutters, Over
  <2>6. GrowsOn => Replay!Grow
    BY <2>3, <2>4 DEF GrowsOn, Over, Replay!Grow
  <2>7. TakesOne => Replay!HandleOne
    BY <2>3 DEF TakesOne, Over, Replay!HandleOne
  <2>8. CountsOn => Replay!Overrun
    BY <2>3 DEF CountsOn, Over, Replay!Overrun
  <2>9. BeginsAgain => Replay!Restart
    BY <2>3 DEF BeginsAgain, Over, Replay!Restart
  <2>10. QED BY <2>2, <2>5, <2>6, <2>7, <2>8, <2>9
<1>3. QED
  BY <1>1, <1>2, Invariance, PTL DEF FairSpec, ReplaysLog, Replay!Spec, Replay!vars
=============================================================================
