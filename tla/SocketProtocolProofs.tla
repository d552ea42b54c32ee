------------------------ MODULE SocketProtocolProofs ------------------------
(***************************************************************************)
(* Proofs about SocketProtocol for any set of requests and any window.      *)
(*                                                                          *)
(* What a side has emitted and the other not read is its wire followed by   *)
(* the message it is sending.  Every such message belongs to exactly one    *)
(* entry of the in-flight table of the side that asked: a request is the    *)
(* asker's own, a response the other side's, and no entry has two messages  *)
(* under way.  The other invariants follow from that correspondence.        *)
(***************************************************************************)
EXTENDS SocketProtocol, FiniteSetTheorems, FunctionTheorems, SequenceTheorems, TLAPS

Out == [s \in Side |-> wire[s] \o sending[s]]

\* The side whose request a message of s carries or answers.
Owner(s, m) == IF m.type = "Request" THEN s ELSE Peer(s)

Registered(out, table) ==
    \A s \in Side : \A i \in 1..Len(out[s]) :
        /\ out[s][i].seq \in DOMAIN table[Owner(s, out[s][i])]
        /\ table[Owner(s, out[s][i])][out[s][i].seq] = out[s][i].request

OnceOut(out) ==
    \A s \in Side : \A i, j \in 1..Len(out[s]) :
        out[s][i].type = out[s][j].type /\ out[s][i].seq = out[s][j].seq => i = j

NotAskedAndAnswered(out) ==
    \A s \in Side : \A i \in 1..Len(out[s]) : \A j \in 1..Len(out[Peer(s)]) :
        out[s][i].type = "Request" /\ out[Peer(s)][j].type = "Response"
        => out[s][i].seq # out[Peer(s)][j].seq

Linked(out, table) ==
    Registered(out, table) /\ OnceOut(out) /\ NotAskedAndAnswered(out)

IsTable(t) == DOMAIN t \subseteq Nat /\ \A n \in DOMAIN t : t[n] \in Request

-----------------------------------------------------------------------------
(* How the correspondence survives the four ways a step changes it *)

LEMMA PeerFacts ==
  ASSUME NEW s \in Side
  PROVE  Peer(s) \in Side /\ Peer(s) # s /\ Peer(Peer(s)) = s
BY DEF Side, Peer

\* A request with a fresh number goes out and into the table.
Ask(out, out2, table, table2, s, n, r) ==
    /\ out \in [Side -> Seq(Msg)] /\ out2 \in [Side -> Seq(Msg)]
    /\ n \in Nat /\ n \notin DOMAIN table[s] /\ r \in Request
    /\ out2[s] = Append(out[s], [type |-> "Request", seq |-> n, request |-> r])
    /\ out2[Peer(s)] = out[Peer(s)]
    /\ DOMAIN table2[s] = DOMAIN table[s] \cup {n}
    /\ table2[s][n] = r
    /\ \A i \in DOMAIN table[s] : table2[s][i] = table[s][i]
    /\ table2[Peer(s)] = table[Peer(s)]

LEMMA LinkedAsk ==
  ASSUME NEW out, NEW out2, NEW table, NEW table2, NEW s \in Side, NEW n, NEW r,
         Linked(out, table), Ask(out, out2, table, table2, s, n, r)
  PROVE  Linked(out2, table2)
<1> USE DEF Ask
<1> DEFINE m == [type |-> "Request", seq |-> n, request |-> r]
           p == Peer(s)
<1>1. p \in Side /\ p # s /\ Peer(p) = s /\ Side = {s, p}
  BY DEF Side, Peer
<1>2. m \in Msg /\ m.type = "Request" /\ m.seq = n /\ m.request = r
  BY DEF Msg
<1>3. /\ Len(out2[s]) = Len(out[s]) + 1
      /\ out2[s][Len(out[s]) + 1] = m
      /\ \A i \in 1..Len(out[s]) : out2[s][i] = out[s][i] /\ out[s][i] \in Msg
      /\ Len(out[s]) \in Nat
  BY <1>2
<1> HIDE DEF m, p
<1>4. Registered(out2, table2)
  <2>1. ASSUME NEW i \in 1..Len(out2[s])
        PROVE  /\ out2[s][i].seq \in DOMAIN table2[Owner(s, out2[s][i])]
               /\ table2[Owner(s, out2[s][i])][out2[s][i].seq] = out2[s][i].request
    <3>1. CASE i = Len(out[s]) + 1
      BY <3>1, <1>2, <1>3 DEF Owner
    <3>2. CASE i \in 1..Len(out[s])
      BY <3>2, <1>1, <1>3 DEF Owner, Linked, Registered, p
    <3>3. QED
      BY <2>1, <3>1, <3>2, <1>3
  <2>2. ASSUME NEW i \in 1..Len(out2[p])
        PROVE  /\ out2[p][i].seq \in DOMAIN table2[Owner(p, out2[p][i])]
               /\ table2[Owner(p, out2[p][i])][out2[p][i].seq] = out2[p][i].request
    BY <2>2, <1>1 DEF Owner, Linked, Registered, p
  <2>3. QED
    BY <1>1, <2>1, <2>2 DEF Registered
<1>5. OnceOut(out2)
  <2>1. ASSUME NEW i \in 1..Len(out[s]), out[s][i].type = "Request"
        PROVE  out[s][i].seq # n
    BY <2>1, <1>1 DEF Linked, Registered, Owner
  <2>2. ASSUME NEW i \in 1..Len(out2[s]), NEW j \in 1..Len(out2[s]),
               out2[s][i].type = out2[s][j].type, out2[s][i].seq = out2[s][j].seq
        PROVE  i = j
    <3>1. \A l \in 1..Len(out2[s]) : l = Len(out[s]) + 1 \/ l \in 1..Len(out[s])
      BY <1>3
    <3>2. CASE i = Len(out[s]) + 1 /\ j \in 1..Len(out[s])
      BY <2>1, <2>2, <3>2, <1>2, <1>3
    <3>3. CASE j = Len(out[s]) + 1 /\ i \in 1..Len(out[s])
      BY <2>1, <2>2, <3>3, <1>2, <1>3
    <3>4. CASE i \in 1..Len(out[s]) /\ j \in 1..Len(out[s])
      BY <2>2, <3>4, <1>3 DEF Linked, OnceOut
    <3>5. QED
      BY <2>2, <3>1, <3>2, <3>3, <3>4
  <2>3. ASSUME NEW i \in 1..Len(out2[p]), NEW j \in 1..Len(out2[p]),
               out2[p][i].type = out2[p][j].type, out2[p][i].seq = out2[p][j].seq
        PROVE  i = j
    BY <2>3, <1>1 DEF Linked, OnceOut, p
  <2>4. QED
    <3>1. SUFFICES ASSUME NEW t \in Side, NEW i \in 1..Len(out2[t]),
                          NEW j \in 1..Len(out2[t]),
                          out2[t][i].type = out2[t][j].type,
                          out2[t][i].seq = out2[t][j].seq
                   PROVE  i = j
      BY DEF OnceOut
    <3>2. t = s \/ t = p
      BY <1>1
    <3>3. QED
      BY <3>1, <3>2, <2>2, <2>3
<1>6. NotAskedAndAnswered(out2)
  <2>1. ASSUME NEW j \in 1..Len(out[p]), out[p][j].type = "Response"
        PROVE  out[p][j].seq # n
    BY <2>1, <1>1 DEF Linked, Registered, Owner
  <2>2. ASSUME NEW i \in 1..Len(out2[s]), NEW j \in 1..Len(out2[p]),
               out2[s][i].type = "Request", out2[p][j].type = "Response"
        PROVE  out2[s][i].seq # out2[p][j].seq
    BY <2>1, <2>2, <1>1, <1>2, <1>3 DEF Linked, NotAskedAndAnswered, p
  <2>3. ASSUME NEW i \in 1..Len(out2[p]), NEW j \in 1..Len(out2[s]),
               out2[p][i].type = "Request", out2[s][j].type = "Response"
        PROVE  out2[p][i].seq # out2[s][j].seq
    BY <2>3, <1>1, <1>2, <1>3 DEF Linked, NotAskedAndAnswered, p
  <2>4. QED
    <3>1. SUFFICES ASSUME NEW t \in Side, NEW i \in 1..Len(out2[t]),
                          NEW j \in 1..Len(out2[Peer(t)]),
                          out2[t][i].type = "Request",
                          out2[Peer(t)][j].type = "Response"
                   PROVE  out2[t][i].seq # out2[Peer(t)][j].seq
      BY DEF NotAskedAndAnswered
    <3>2. CASE t = s
      BY <3>1, <3>2, <2>2 DEF p
    <3>3. CASE t = p
      BY <3>1, <3>3, <2>3, <1>1
    <3>4. QED
      BY <3>2, <3>3, <1>1
<1>7. QED
  BY <1>4, <1>5, <1>6 DEF Linked

\* No message for entry n of t's table is under way.
NoneUnderWay(out, t, n) ==
    /\ \A i \in 1..Len(out[t]) : out[t][i].type = "Request" => out[t][i].seq # n
    /\ \A i \in 1..Len(out[Peer(t)]) :
          out[Peer(t)][i].type = "Response" => out[Peer(t)][i].seq # n

\* A message is read; its entry has none under way any more.
ReadFrom(out, out2, s) ==
    /\ out \in [Side -> Seq(Msg)] /\ out2 \in [Side -> Seq(Msg)]
    /\ out[s] # <<>> /\ out2[s] = Tail(out[s]) /\ out2[Peer(s)] = out[Peer(s)]

LEMMA LinkedRead ==
  ASSUME NEW out, NEW out2, NEW table, NEW s \in Side,
         Linked(out, table), ReadFrom(out, out2, s)
  PROVE  /\ Linked(out2, table) /\ Head(out[s]) \in Msg
         /\ NoneUnderWay(out2, Owner(s, Head(out[s])), Head(out[s]).seq)
         /\ Head(out[s]).seq \in DOMAIN table[Owner(s, Head(out[s]))]
         /\ table[Owner(s, Head(out[s]))][Head(out[s]).seq] = Head(out[s]).request
<1> USE DEF ReadFrom
<1> DEFINE p == Peer(s)
<1>1. p \in Side /\ p # s /\ Peer(p) = s /\ Side = {s, p}
  BY DEF Side, Peer
<1>2. /\ Len(out[s]) \in Nat /\ Len(out[s]) >= 1
      /\ Len(out2[s]) = Len(out[s]) - 1
      /\ \A i \in 1..Len(out2[s]) : out2[s][i] = out[s][i + 1]
      /\ Head(out[s]) = out[s][1]
  OBVIOUS
<1> HIDE DEF p
<1>3. Registered(out2, table)
  <2>1. SUFFICES ASSUME NEW t \in Side, NEW i \in 1..Len(out2[t])
                 PROVE  /\ out2[t][i].seq \in DOMAIN table[Owner(t, out2[t][i])]
                        /\ table[Owner(t, out2[t][i])][out2[t][i].seq] = out2[t][i].request
    BY DEF Registered
  <2>2. CASE t = s
    <3>1. i + 1 \in 1..Len(out[s])
      BY <2>2, <1>2
    <3>2. QED
      BY <2>2, <3>1, <1>2 DEF Linked, Registered
  <2>3. CASE t = p
    BY <2>3, <1>1 DEF Linked, Registered, p
  <2>4. QED
    BY <2>2, <2>3, <1>1
<1>4. OnceOut(out2)
  <2>1. SUFFICES ASSUME NEW t \in Side, NEW i \in 1..Len(out2[t]),
                        NEW j \in 1..Len(out2[t]),
                        out2[t][i].type = out2[t][j].type,
                        out2[t][i].seq = out2[t][j].seq
                 PROVE  i = j
    BY DEF OnceOut
  <2>2. CASE t = s
    <3>1. i + 1 \in 1..Len(out[s]) /\ j + 1 \in 1..Len(out[s])
      BY <2>2, <1>2
    <3>2. i + 1 = j + 1
      BY <2>1, <2>2, <3>1, <1>2 DEF Linked, OnceOut
    <3>3. QED
      BY <3>2
  <2>3. CASE t = p
    BY <2>1, <2>3, <1>1 DEF Linked, OnceOut, p
  <2>4. QED
    BY <2>2, <2>3, <1>1
<1>5. NotAskedAndAnswered(out2)
  <2>1. SUFFICES ASSUME NEW t \in Side, NEW i \in 1..Len(out2[t]),
                        NEW j \in 1..Len(out2[Peer(t)]),
                        out2[t][i].type = "Request",
                        out2[Peer(t)][j].type = "Response"
                 PROVE  out2[t][i].seq # out2[Peer(t)][j].seq
    BY DEF NotAskedAndAnswered
  <2>2. CASE t = s
    <3>1. i + 1 \in 1..Len(out[s]) /\ j \in 1..Len(out[p])
      BY <2>2, <1>2 DEF p
    <3>2. QED
      BY <2>1, <2>2, <3>1, <1>2 DEF Linked, NotAskedAndAnswered, p
  <2>3. CASE t = p
    <3>1. j + 1 \in 1..Len(out[s]) /\ i \in 1..Len(out[p])
      BY <2>3, <1>1, <1>2 DEF p
    <3>2. QED
      BY <2>1, <2>3, <3>1, <1>1, <1>2 DEF Linked, NotAskedAndAnswered, p
  <2>4. QED
    BY <2>2, <2>3, <1>1
<1>6. ASSUME NEW i \in 1..Len(out2[s]), out2[s][i].type = Head(out[s]).type
      PROVE  out2[s][i].seq # Head(out[s]).seq
  <2>1. i + 1 \in 1..Len(out[s]) /\ 1 \in 1..Len(out[s]) /\ i + 1 # 1
    BY <1>6, <1>2
  <2>2. QED
    BY <2>1, <1>6, <1>2 DEF Linked, OnceOut
<1>7. 1 \in 1..Len(out[s])
  BY <1>2
<1>8. Head(out[s]) \in Msg
  BY <1>2, <1>7
<1>9. NoneUnderWay(out2, Owner(s, Head(out[s])), Head(out[s]).seq)
  <2>1. CASE Head(out[s]).type = "Request"
    <3>1. \A j \in 1..Len(out2[p]) :
            out2[p][j].type = "Response" => out2[p][j].seq # Head(out[s]).seq
      BY <1>2, <1>7, <2>1 DEF Linked, NotAskedAndAnswered, p
    <3>2. Owner(s, Head(out[s])) = s
      BY <2>1 DEF Owner
    <3>3. QED
      BY <1>6, <2>1, <3>1, <3>2 DEF NoneUnderWay, p
  <2>2. CASE Head(out[s]).type = "Response"
    <3>1. \A i \in 1..Len(out2[p]) :
            out2[p][i].type = "Request" => out2[p][i].seq # Head(out[s]).seq
      BY <1>1, <1>2, <1>7, <2>2 DEF Linked, NotAskedAndAnswered, p
    <3>2. Owner(s, Head(out[s])) = p /\ Peer(p) = s
      BY <1>1, <2>2 DEF Owner, p
    <3>3. QED
      BY <1>6, <2>2, <3>1, <3>2 DEF NoneUnderWay
  <2>3. QED
    BY <1>8, <2>1, <2>2 DEF Msg
<1>10. /\ Head(out[s]).seq \in DOMAIN table[Owner(s, Head(out[s]))]
       /\ table[Owner(s, Head(out[s]))][Head(out[s]).seq] = Head(out[s]).request
  BY <1>2, <1>7 DEF Linked, Registered
<1>11. QED
  BY <1>3, <1>4, <1>5, <1>8, <1>9, <1>10 DEF Linked

\* A response goes out for an entry that has no other message under way.
Reply(out, out2, table, s, m) ==
    /\ out \in [Side -> Seq(Msg)] /\ out2 \in [Side -> Seq(Msg)]
    /\ m \in Msg /\ m.type = "Response"
    /\ m.seq \in DOMAIN table[Peer(s)] /\ table[Peer(s)][m.seq] = m.request
    /\ \A i \in 1..Len(out[s]) : out[s][i].type = "Response" => out[s][i].seq # m.seq
    /\ \A i \in 1..Len(out[Peer(s)]) :
          out[Peer(s)][i].type = "Request" => out[Peer(s)][i].seq # m.seq
    /\ out2[s] = Append(out[s], m) /\ out2[Peer(s)] = out[Peer(s)]

LEMMA LinkedReply ==
  ASSUME NEW out, NEW out2, NEW table, NEW s \in Side, NEW m,
         Linked(out, table), Reply(out, out2, table, s, m)
  PROVE  Linked(out2, table)
<1> USE DEF Reply
<1> DEFINE p == Peer(s)
<1>1. p \in Side /\ p # s /\ Peer(p) = s /\ Side = {s, p}
  BY DEF Side, Peer
<1>2. /\ Len(out[s]) \in Nat
      /\ Len(out2[s]) = Len(out[s]) + 1
      /\ out2[s][Len(out[s]) + 1] = m
      /\ \A i \in 1..Len(out[s]) : out2[s][i] = out[s][i]
  OBVIOUS
<1> HIDE DEF p
<1>3. Registered(out2, table)
  <2>1. SUFFICES ASSUME NEW t \in Side, NEW i \in 1..Len(out2[t])
                 PROVE  /\ out2[t][i].seq \in DOMAIN table[Owner(t, out2[t][i])]
                        /\ table[Owner(t, out2[t][i])][out2[t][i].seq] = out2[t][i].request
    BY DEF Registered
  <2>2. CASE t = s /\ i = Len(out[s]) + 1
    BY <2>2, <1>2 DEF Owner
  <2>3. CASE t = s /\ i \in 1..Len(out[s])
    BY <2>3, <1>2 DEF Linked, Registered
  <2>4. CASE t = p
    BY <2>4, <1>1 DEF Linked, Registered, p
  <2>5. QED
    BY <2>2, <2>3, <2>4, <1>1, <1>2
<1>4. OnceOut(out2)
  <2>1. SUFFICES ASSUME NEW t \in Side, NEW i \in 1..Len(out2[t]),
                        NEW j \in 1..Len(out2[t]),
                        out2[t][i].type = out2[t][j].type,
                        out2[t][i].seq = out2[t][j].seq
                 PROVE  i = j
    BY DEF OnceOut
  <2>2. CASE t = s
    <3>1. \A k \in 1..Len(out2[s]) : k = Len(out[s]) + 1 \/ k \in 1..Len(out[s])
      BY <1>2
    <3>2. CASE i = Len(out[s]) + 1 /\ j \in 1..Len(out[s])
      BY <2>1, <2>2, <3>2, <1>2
    <3>3. CASE j = Len(out[s]) + 1 /\ i \in 1..Len(out[s])
      BY <2>1, <2>2, <3>3, <1>2
    <3>4. CASE i \in 1..Len(out[s]) /\ j \in 1..Len(out[s])
      BY <2>1, <2>2, <3>4, <1>2 DEF Linked, OnceOut
    <3>5. QED
      BY <2>1, <2>2, <3>1, <3>2, <3>3, <3>4
  <2>3. CASE t = p
    BY <2>1, <2>3, <1>1 DEF Linked, OnceOut, p
  <2>4. QED
    BY <2>2, <2>3, <1>1
<1>5. NotAskedAndAnswered(out2)
  <2>1. SUFFICES ASSUME NEW t \in Side, NEW i \in 1..Len(out2[t]),
                        NEW j \in 1..Len(out2[Peer(t)]),
                        out2[t][i].type = "Request",
                        out2[Peer(t)][j].type = "Response"
                 PROVE  out2[t][i].seq # out2[Peer(t)][j].seq
    BY DEF NotAskedAndAnswered
  <2>2. CASE t = s
    <3>1. i \in 1..Len(out[s]) /\ j \in 1..Len(out[p])
      BY <2>1, <2>2, <1>2 DEF p
    <3>2. out2[t][i] = out[s][i] /\ out2[Peer(t)][j] = out[p][j]
      BY <2>2, <3>1, <1>2 DEF p
    <3>3. out[s][i].type = "Request" /\ out[p][j].type = "Response"
          => out[s][i].seq # out[p][j].seq
      BY <3>1 DEF Linked, NotAskedAndAnswered, p
    <3>4. QED
      BY <2>1, <3>2, <3>3
  <2>3. CASE t = p
    <3>1. i \in 1..Len(out[p]) /\ out2[t][i] = out[p][i] /\ Peer(t) = s
      BY <2>1, <2>3, <1>1 DEF p
    <3>2. CASE j = Len(out[s]) + 1
      BY <2>1, <2>3, <3>1, <3>2, <1>2 DEF p
    <3>3. CASE j \in 1..Len(out[s])
      <4>1. out[p][i].type = "Request" /\ out[s][j].type = "Response"
            => out[p][i].seq # out[s][j].seq
        BY <3>1, <3>3, <1>1 DEF Linked, NotAskedAndAnswered
      <4>2. QED
        BY <2>1, <3>1, <3>3, <4>1, <1>2
    <3>4. QED
      BY <2>1, <3>1, <3>2, <3>3, <1>2
  <2>4. QED
    BY <2>2, <2>3, <1>1
<1>6. QED
  BY <1>3, <1>4, <1>5 DEF Linked

\* An entry that has no message under way leaves the table.
Forget(out, table, table2, s, n) ==
    /\ out \in [Side -> Seq(Msg)]
    /\ \A i \in 1..Len(out[s]) : out[s][i].type = "Request" => out[s][i].seq # n
    /\ \A i \in 1..Len(out[Peer(s)]) :
          out[Peer(s)][i].type = "Response" => out[Peer(s)][i].seq # n
    /\ DOMAIN table2[s] = DOMAIN table[s] \ {n}
    /\ \A i \in DOMAIN table2[s] : table2[s][i] = table[s][i]
    /\ table2[Peer(s)] = table[Peer(s)]

LEMMA LinkedForget ==
  ASSUME NEW out, NEW table, NEW table2, NEW s \in Side, NEW n,
         Linked(out, table), Forget(out, table, table2, s, n)
  PROVE  Linked(out, table2)
<1> USE DEF Forget
<1> DEFINE p == Peer(s)
<1>1. p \in Side /\ p # s /\ Peer(p) = s /\ Side = {s, p}
  BY DEF Side, Peer
<1>2. ASSUME NEW t \in Side, NEW i \in 1..Len(out[t])
      PROVE  /\ out[t][i].seq \in DOMAIN table2[Owner(t, out[t][i])]
             /\ table2[Owner(t, out[t][i])][out[t][i].seq] = out[t][i].request
  <2>1. out[t][i] \in Msg
    BY <1>2
  <2>2. /\ out[t][i].seq \in DOMAIN table[Owner(t, out[t][i])]
        /\ table[Owner(t, out[t][i])][out[t][i].seq] = out[t][i].request
    BY <1>2 DEF Linked, Registered
  <2>3. Owner(t, out[t][i]) = s => out[t][i].seq # n
    BY <1>1, <1>2, <2>1 DEF Owner, Msg
  <2>4. Owner(t, out[t][i]) = s \/ Owner(t, out[t][i]) = p
    BY <1>1, <1>2 DEF Owner
  <2>5. QED
    BY <2>2, <2>3, <2>4
<1>3. QED
  BY <1>2 DEF Linked, Registered

-----------------------------------------------------------------------------
(* The inductive invariant *)

SendShape ==
    \A s \in Side : /\ pc[s] = "select" => sending[s] = <<>>
                    /\ pc[s] = "send" => Len(sending[s]) = 1

\* Numbers in the table have been used, so a new round's number is fresh.
Fresh ==
    \A s \in Side : \A n \in DOMAIN inflight_requests[s] :
        n <= seq[s] /\ (pc[s] = "select" => n < seq[s])

FiniteTables == \A s \in Side : IsFiniteSet(DOMAIN inflight_requests[s])

IndInv ==
    /\ TypeOK /\ SendShape /\ Fresh /\ FiniteTables
    /\ Linked(Out, inflight_requests)
    /\ DefecitIsInflight /\ NoProtocolError /\ OwnAnswer

LEMMA QuitType ==
  ASSUME TypeOK, NEW s \in Side,
         NEW why \in {"Disconnected", "SocketClosed", "DatabaseError",
                      "ResponseTypeIncorrect", "UnrequestedResponse"},
         quit(s, why)
  PROVE  /\ pc' \in [Side -> {"select", "send", "done"}]
         /\ error' \in [Side -> {"none", "Disconnected", "SocketClosed",
               "DatabaseError", "ResponseTypeIncorrect", "UnrequestedResponse"}]
         /\ queue' \in [Side -> [Kind -> Seq(Request)]]
         /\ outcome' \in [Request -> Outcome \cup Request]
<1>1. [k \in Kind |-> <<>>] \in [Kind -> Seq(Request)]
  OBVIOUS
<1>2. queue' \in [Side -> [Kind -> Seq(Request)]]
  BY <1>1 DEF TypeOK, quit
<1>3. outcome' \in [Request -> Outcome \cup Request]
  BY DEF TypeOK, quit, Outcome
<1>4. QED
  BY <1>2, <1>3 DEF TypeOK, quit

LEMMA TypeStep ==
  ASSUME TypeOK, SendShape, [Next]_vars
  PROVE  TypeOK'
<1> USE SessionAssumption
<1>1. ASSUME NEW r \in Request, ask(r)
      PROVE  TypeOK'
  <2>1. asker[r] \in Side /\ kind[r] \in Kind
    OBVIOUS
  <2>2. queue' \in [Side -> [Kind -> Seq(Request)]]
    <3>1. CASE pc[asker[r]] = "done"
      BY <1>1, <3>1 DEF TypeOK, ask
    <3>2. CASE pc[asker[r]] # "done"
      <4>1. queue[asker[r]][kind[r]] \in Seq(Request)
        BY <2>1 DEF TypeOK
      <4>2. Append(queue[asker[r]][kind[r]], r) \in Seq(Request)
        BY <4>1
      <4>3. queue' = [queue EXCEPT ![asker[r]][kind[r]] = Append(@, r)]
        BY <1>1, <3>2 DEF ask
      <4>4. QED
        BY <2>1, <4>2, <4>3 DEF TypeOK
    <3>3. QED
      BY <3>1, <3>2
  <2>3. outcome' \in [Request -> Outcome \cup Request]
    BY <1>1 DEF TypeOK, ask, Outcome
  <2>4. QED
    BY <1>1, <2>2, <2>3 DEF TypeOK, ask, session
<1>2. ASSUME NEW s \in Side, NEW k \in Kind, handle_internal_request(s, k)
      PROVE  TypeOK'
  <2> DEFINE r == Head(queue[s][k])
  <2>1. queue[s][k] \in Seq(Request) /\ queue[s][k] # <<>> /\ seq[s] \in Nat
    BY <1>2 DEF TypeOK, handle_internal_request
  <2>2. r \in Request /\ Tail(queue[s][k]) \in Seq(Request)
    BY <2>1
  <2>3. queue' \in [Side -> [Kind -> Seq(Request)]]
    BY <1>2, <2>2 DEF TypeOK, handle_internal_request
  <2>4. <<[type |-> "Request", seq |-> seq[s], request |-> r]>> \in Seq(Msg)
    BY <2>1, <2>2 DEF Msg
  <2>5. sending' \in [Side -> Seq(Msg)]
    BY <1>2, <2>4 DEF TypeOK, handle_internal_request
  <2>6. /\ DOMAIN inflight_requests' = Side
        /\ \A t \in Side : /\ DOMAIN inflight_requests'[t] \subseteq Nat
                           /\ \A n \in DOMAIN inflight_requests'[t] :
                                inflight_requests'[t][n] \in Request
    BY <1>2, <2>1, <2>2 DEF TypeOK, handle_internal_request, Insert
  <2>7. pc' \in [Side -> {"select", "send", "done"}] /\ defecit' \in [Side -> Int]
    <3>1. defecit' = [defecit EXCEPT ![s] = @ + 1] /\ pc' = [pc EXCEPT ![s] = "send"]
      BY <1>2 DEF handle_internal_request
    <3>2. defecit[s] + 1 \in Int
      BY DEF TypeOK
    <3>3. QED
      BY <3>1, <3>2 DEF TypeOK
  <2>8. QED
    BY <1>2, <2>3, <2>5, <2>6, <2>7 DEF TypeOK, handle_internal_request
<1>3. ASSUME NEW s \in Side, handle_request(s)
      PROVE  TypeOK'
  <2>1. /\ Peer(s) \in Side
        /\ wire[Peer(s)] \in Seq(Msg) /\ wire[Peer(s)] # <<>>
    BY <1>3, PeerFacts DEF TypeOK, handle_request, Incoming
  <2>2. Head(wire[Peer(s)]) \in Msg /\ Tail(wire[Peer(s)]) \in Seq(Msg)
    BY <2>1
  <2>3. ResponseTo(s, Head(wire[Peer(s)])) \in Msg
    BY <2>2 DEF ResponseTo, Msg
  <2>4. wire' \in [Side -> Seq(Msg)]
    BY <1>3, <2>2 DEF TypeOK, handle_request
  <2>5. CASE quit(s, "DatabaseError") /\ UNCHANGED sending
    BY <1>3, <2>4, <2>5, QuitType DEF TypeOK, handle_request
  <2>6. CASE /\ sending' = [sending EXCEPT ![s] = <<ResponseTo(s, Head(wire[Peer(s)]))>>]
             /\ pc' = [pc EXCEPT ![s] = "send"]
             /\ UNCHANGED <<queue, error, outcome>>
    <3>1. sending' \in [Side -> Seq(Msg)] /\ pc' \in [Side -> {"select", "send", "done"}]
      BY <2>3, <2>6 DEF TypeOK
    <3>2. QED
      BY <1>3, <2>4, <2>6, <3>1 DEF TypeOK, handle_request
  <2>7. QED
    BY <1>3, <2>5, <2>6 DEF handle_request
<1>4. ASSUME NEW s \in Side, handle_response(s)
      PROVE  TypeOK'
  <2> DEFINE m == Head(wire[Peer(s)])
             table == inflight_requests[s]
  <2>1. /\ Peer(s) \in Side
        /\ wire[Peer(s)] \in Seq(Msg) /\ wire[Peer(s)] # <<>>
    BY <1>4, PeerFacts DEF TypeOK, handle_response, Incoming
  <2>2. m \in Msg /\ Tail(wire[Peer(s)]) \in Seq(Msg)
    BY <2>1
  <2>3. wire' \in [Side -> Seq(Msg)] /\ defecit' \in [Side -> Int]
    <3>1. /\ defecit' = [defecit EXCEPT ![s] = @ - 1]
          /\ wire' = [wire EXCEPT ![Peer(s)] = Tail(@)]
      BY <1>4 DEF handle_response
    <3>2. defecit[s] - 1 \in Int
      BY DEF TypeOK
    <3>3. QED
      BY <2>2, <3>1, <3>2 DEF TypeOK
  <2>4. /\ DOMAIN inflight_requests' = Side
        /\ \A t \in Side : /\ DOMAIN inflight_requests'[t] \subseteq Nat
                           /\ \A n \in DOMAIN inflight_requests'[t] :
                                inflight_requests'[t][n] \in Request
    BY <1>4 DEF TypeOK, handle_response, Remove
  <2>5. CASE quit(s, "UnrequestedResponse") /\ UNCHANGED seq
    BY <1>4, <2>3, <2>4, <2>5, QuitType DEF TypeOK, handle_response
  <2>6. CASE quit(s, "ResponseTypeIncorrect") /\ UNCHANGED seq
    BY <1>4, <2>3, <2>4, <2>6, QuitType DEF TypeOK, handle_response
  <2>7. CASE /\ m.seq \in DOMAIN table
             /\ outcome' = [outcome EXCEPT ![table[m.seq]] = m.request]
             /\ NextRound(s) /\ UNCHANGED <<queue, error>>
    <3>1. m.request \in Request
      BY <2>2 DEF Msg
    <3>2. outcome' \in [Request -> Outcome \cup Request]
      BY <2>7, <3>1 DEF TypeOK
    <3>3. pc' \in [Side -> {"select", "send", "done"}] /\ seq' \in [Side -> Nat]
      <4>1. seq[s] + 1 \in Nat
        BY DEF TypeOK
      <4>2. QED
        BY <2>7, <4>1 DEF TypeOK, NextRound
    <3>4. QED
      BY <1>4, <2>3, <2>4, <2>7, <3>2, <3>3 DEF TypeOK, handle_response
  <2>8. QED
    BY <1>4, <2>5, <2>6, <2>7 DEF handle_response
<1>5. ASSUME NEW s \in Side, disconnected(s)
      PROVE  TypeOK'
  BY <1>5, QuitType DEF TypeOK, disconnected
<1>6. ASSUME NEW s \in Side, t_send(s)
      PROVE  TypeOK'
  <2>1. sending[s] \in Seq(Msg) /\ Len(sending[s]) = 1 /\ wire[s] \in Seq(Msg)
    BY <1>6 DEF TypeOK, SendShape, t_send
  <2>2. Append(wire[s], Head(sending[s])) \in Seq(Msg)
    BY <2>1
  <2>3. wire' \in [Side -> Seq(Msg)] /\ sending' \in [Side -> Seq(Msg)]
    BY <1>6, <2>2 DEF TypeOK, t_send
  <2>4. pc' \in [Side -> {"select", "send", "done"}] /\ seq' \in [Side -> Nat]
    BY <1>6 DEF TypeOK, t_send, NextRound
  <2>5. QED
    BY <1>6, <2>3, <2>4 DEF TypeOK, t_send
<1>7. ASSUME NEW s \in Side, t_send_error(s)
      PROVE  TypeOK'
  BY <1>7, QuitType DEF TypeOK, t_send_error
<1>8. CASE lose_connection
  BY <1>8 DEF TypeOK, lose_connection, session
<1>9. CASE UNCHANGED vars
  BY <1>9 DEF TypeOK, vars, session
<1>10. QED
  BY <1>1, <1>2, <1>3, <1>4, <1>5, <1>6, <1>7, <1>8, <1>9
     DEF Next, run_protocol_inner

LEMMA OutType ==
  ASSUME TypeOK, TypeOK'
  PROVE  /\ Out \in [Side -> Seq(Msg)] /\ Out' \in [Side -> Seq(Msg)]
         /\ \A s \in Side : Out[s] = wire[s] \o sending[s]
         /\ \A s \in Side : Out'[s] = wire'[s] \o sending'[s]
<1>1. \A s \in Side : /\ wire[s] \in Seq(Msg) /\ sending[s] \in Seq(Msg)
                      /\ wire'[s] \in Seq(Msg) /\ sending'[s] \in Seq(Msg)
  BY DEF TypeOK
<1>2. \A s \in Side : /\ wire[s] \o sending[s] \in Seq(Msg)
                      /\ wire'[s] \o sending'[s] \in Seq(Msg)
  BY <1>1
<1>3. QED
  BY <1>2 DEF Out

LEMMA ConcatLast ==
  ASSUME NEW S, NEW w \in Seq(S), NEW x \in S, NEW q, NEW q2, q = <<>>, q2 = <<x>>
  PROVE  w \o q = w /\ w \o q2 = Append(w, x)
BY ConcatEmptySeq, AppendIsConcat

\* Reading the head of a non-empty wire reads the head of what was emitted.
LEMMA ConcatHead ==
  ASSUME NEW S, NEW w \in Seq(S), NEW q \in Seq(S), w # <<>>
  PROVE  /\ w \o q \in Seq(S) /\ w \o q # <<>> /\ Head(w \o q) = Head(w)
         /\ Tail(w) \o q = Tail(w \o q)
<1> DEFINE c == w \o q
           a == Tail(w) \o q
           b == Tail(c)
<1>1. Len(w) \in Nat /\ Len(w) >= 1 /\ Len(q) \in Nat
  BY EmptySeq, LenProperties
<1>2. /\ c \in Seq(S) /\ Len(c) = Len(w) + Len(q)
      /\ \A i \in 1..Len(w) + Len(q) : c[i] = IF i <= Len(w) THEN w[i] ELSE q[i - Len(w)]
  BY ConcatProperties
<1>3. /\ Tail(w) \in Seq(S) /\ Len(Tail(w)) = Len(w) - 1
      /\ \A i \in 1..Len(Tail(w)) : Tail(w)[i] = w[i + 1]
  BY HeadTailProperties
<1>4. /\ a \in Seq(S) /\ Len(a) = (Len(w) - 1) + Len(q)
      /\ \A i \in 1..(Len(w) - 1) + Len(q) :
           a[i] = IF i <= Len(w) - 1 THEN Tail(w)[i] ELSE q[i - (Len(w) - 1)]
  BY <1>3, ConcatProperties
<1>5. c # <<>> /\ Head(c) = c[1] /\ Head(w) = w[1] /\ c[1] = w[1]
  <2> HIDE DEF c
  <2>1. c # <<>>
    BY <1>1, <1>2, EmptySeq
  <2>2. c[1] = w[1]
    BY <1>1, <1>2
  <2>3. QED
    BY <2>1, <2>2, <1>1, <1>2
<1>6. /\ b \in Seq(S) /\ Len(b) = Len(c) - 1
      /\ \A i \in 1..Len(b) : b[i] = c[i + 1]
  <2> HIDE DEF c
  <2>1. QED
    BY <1>2, <1>5, HeadTailProperties
<1> HIDE DEF a, b, c
<1>7. ASSUME NEW i \in 1..Len(a)
      PROVE  a[i] = b[i]
  <2>1. b[i] = c[i + 1] /\ i + 1 \in 1..Len(w) + Len(q) /\ i \in 1..(Len(w) - 1) + Len(q)
    BY <1>1, <1>2, <1>4, <1>6
  <2>2. CASE i <= Len(w) - 1
    BY <2>1, <2>2, <1>1, <1>2, <1>3, <1>4
  <2>3. CASE ~(i <= Len(w) - 1)
    <3>1. i - (Len(w) - 1) = (i + 1) - Len(w)
      BY <1>1, <1>4
    <3>2. QED
      BY <2>1, <2>3, <3>1, <1>1, <1>2, <1>4
  <2>4. QED
    BY <2>2, <2>3
<1>8. Len(a) = Len(b)
  BY <1>1, <1>2, <1>4, <1>6
<1>9. a = b
  BY <1>4, <1>6, <1>7, <1>8, SeqEqual
<1>10. QED
  BY <1>2, <1>5, <1>9 DEF a, b, c

-----------------------------------------------------------------------------
(* Every step keeps the inductive invariant *)

\* A step that leaves wire and sending alone leaves what was emitted alone.
LEMMA SameOut ==
  ASSUME UNCHANGED <<wire, sending>>
  PROVE  Out' = Out
BY DEF Out

\* A side that gives up for another reason than a protocol error.
LEMMA QuitStep ==
  ASSUME IndInv, NEW s \in Side,
         NEW why \in {"Disconnected", "SocketClosed", "DatabaseError"},
         quit(s, why), UNCHANGED <<seq, defecit, inflight_requests, sending>>
  PROVE  /\ SendShape' /\ Fresh' /\ FiniteTables' /\ DefecitIsInflight'
         /\ NoProtocolError' /\ OwnAnswer'
<1>1. SendShape'
  BY DEF IndInv, TypeOK, SendShape, quit
<1>2. Fresh'
  BY DEF IndInv, TypeOK, Fresh, quit
<1>3. FiniteTables' /\ DefecitIsInflight'
  BY DEF IndInv, FiniteTables, DefecitIsInflight
<1>4. NoProtocolError'
  BY DEF IndInv, TypeOK, NoProtocolError, quit
<1>5. OwnAnswer'
  <2>1. SUFFICES ASSUME NEW r \in Request, outcome'[r] \in Request
                 PROVE  outcome'[r] = r
    BY DEF OwnAnswer
  <2>2. outcome'[r] = "closed" \/ outcome'[r] = outcome[r]
    BY DEF quit
  <2>3. "closed" \notin Request
    BY SessionAssumption DEF Outcome
  <2>4. QED
    BY <2>1, <2>2, <2>3 DEF IndInv, OwnAnswer
<1>6. QED
  BY <1>1, <1>2, <1>3, <1>4, <1>5

LEMMA AskInv ==
  ASSUME IndInv, TypeOK', NEW r \in Request, ask(r)
  PROVE  IndInv'
<1>1. UNCHANGED <<pc, seq, defecit, inflight_requests, sending, error, wire>>
  BY DEF ask, session
<1>2. Linked(Out, inflight_requests)'
  BY <1>1, SameOut DEF IndInv
<1>3. SendShape' /\ Fresh' /\ FiniteTables' /\ DefecitIsInflight' /\ NoProtocolError'
  BY <1>1 DEF IndInv, SendShape, Fresh, FiniteTables, DefecitIsInflight, NoProtocolError
<1>4. OwnAnswer'
  <2>1. SUFFICES ASSUME NEW q \in Request, outcome'[q] \in Request
                 PROVE  outcome'[q] = q
    BY DEF OwnAnswer
  <2>2. outcome'[q] = "closed" \/ outcome'[q] = "waiting" \/ outcome'[q] = outcome[q]
    BY DEF ask, IndInv, TypeOK
  <2>3. "closed" \notin Request /\ "waiting" \notin Request
    BY SessionAssumption DEF Outcome
  <2>4. QED
    BY <2>1, <2>2, <2>3 DEF IndInv, OwnAnswer
<1>5. QED
  BY <1>2, <1>3, <1>4 DEF IndInv

LEMMA InternalRequestInv ==
  ASSUME IndInv, TypeOK', NEW s \in Side, NEW k \in Kind, handle_internal_request(s, k)
  PROVE  IndInv'
<1> DEFINE r == Head(queue[s][k])
           m == [type |-> "Request", seq |-> seq[s], request |-> r]
           table == inflight_requests
<1>1. /\ Peer(s) \in Side /\ Peer(s) # s /\ Side = {s, Peer(s)}
      /\ seq[s] \in Nat /\ queue[s][k] \in Seq(Request) /\ queue[s][k] # <<>>
      /\ sending[s] = <<>> /\ wire[s] \in Seq(Msg) /\ pc[s] = "select"
  BY DEF IndInv, TypeOK, SendShape, handle_internal_request, Side, Peer
<1>2. r \in Request
  BY <1>1
<1>3. m \in Msg
  BY <1>1, <1>2 DEF Msg
<1>4. sending' = [sending EXCEPT ![s] = <<m>>] /\ wire' = wire
  BY DEF handle_internal_request
<1>5. /\ table' = [table EXCEPT ![s] = Insert(@, seq[s], r)]
      /\ defecit' = [defecit EXCEPT ![s] = @ + 1]
      /\ pc' = [pc EXCEPT ![s] = "send"]
      /\ UNCHANGED <<seq, error, outcome>>
  BY DEF handle_internal_request
<1>6. /\ DOMAIN table'[s] = DOMAIN table[s] \cup {seq[s]}
      /\ table'[s][seq[s]] = r
      /\ \A i \in DOMAIN table[s] \ {seq[s]} : table'[s][i] = table[s][i]
      /\ table'[Peer(s)] = table[Peer(s)]
  BY <1>1, <1>5 DEF IndInv, TypeOK, Insert
<1>7. seq[s] \notin DOMAIN table[s]
  BY <1>1 DEF IndInv, Fresh, TypeOK
<1> HIDE DEF r, m, table
<1>8. Linked(Out, table)'
  <2>1. /\ Out \in [Side -> Seq(Msg)] /\ Out' \in [Side -> Seq(Msg)]
        /\ \A t \in Side : Out[t] = wire[t] \o sending[t]
        /\ \A t \in Side : Out'[t] = wire'[t] \o sending'[t]
    BY OutType DEF IndInv
  <2>2. sending'[s] = <<m>> /\ sending'[Peer(s)] = sending[Peer(s)]
    BY <1>1, <1>4 DEF IndInv, TypeOK
  <2>3. wire[s] \o sending[s] = wire[s] /\ wire[s] \o sending'[s] = Append(wire[s], m)
    BY <1>1, <1>3, <2>2, ConcatLast
  <2>4. Out'[s] = Append(Out[s], [type |-> "Request", seq |-> seq[s], request |-> r])
    BY <1>4, <2>1, <2>3 DEF m
  <2>5. Out'[Peer(s)] = Out[Peer(s)]
    BY <1>1, <1>4, <2>1, <2>2
  <2>6. Linked(Out, table)
    BY DEF IndInv, table
  <2>7. \A i \in DOMAIN table[s] : table'[s][i] = table[s][i]
    BY <1>6, <1>7
  <2>8. Linked(Out', table')
    <3>1. Ask(Out, Out', table, table', s, seq[s], r)
      BY <1>1, <1>2, <1>6, <1>7, <2>1, <2>4, <2>5, <2>7 DEF Ask
    <3>2. QED
      BY <2>6, <3>1, LinkedAsk
  <2>9. QED
    BY <2>8
<1>9. SendShape'
  BY <1>1, <1>4, <1>5 DEF IndInv, TypeOK, SendShape
<1>10. Fresh'
  <2>1. SUFFICES ASSUME NEW t \in Side, NEW n \in DOMAIN table'[t]
                 PROVE  n <= seq'[t] /\ (pc'[t] = "select" => n < seq'[t])
    BY DEF Fresh, table
  <2>2. CASE t = s
    BY <1>1, <1>5, <1>6, <2>1, <2>2 DEF IndInv, TypeOK, Fresh, table
  <2>3. CASE t = Peer(s)
    BY <1>1, <1>5, <1>6, <2>1, <2>3 DEF IndInv, TypeOK, Fresh, table
  <2>4. QED
    BY <1>1, <2>2, <2>3
<1>11. FiniteTables' /\ DefecitIsInflight'
  <2>1. IsFiniteSet(DOMAIN table[s])
    BY DEF IndInv, FiniteTables, table
  <2>2. /\ IsFiniteSet(DOMAIN table'[s])
        /\ Cardinality(DOMAIN table'[s]) = Cardinality(DOMAIN table[s]) + 1
    BY <1>6, <1>7, <2>1, FS_AddElement
  <2>3. /\ IsFiniteSet(DOMAIN table'[Peer(s)])
        /\ Cardinality(DOMAIN table'[Peer(s)]) = Cardinality(DOMAIN table[Peer(s)])
    BY <1>1, <1>6 DEF IndInv, FiniteTables, table
  <2>4. defecit[s] \in Int /\ defecit'[s] = defecit[s] + 1
        /\ defecit'[Peer(s)] = defecit[Peer(s)]
    BY <1>1, <1>5 DEF IndInv, TypeOK
  <2>5. defecit[s] < MAX_MESSAGE_DEFECIT /\ MAX_MESSAGE_DEFECIT \in Nat
    BY SessionAssumption DEF handle_internal_request, WindowOpen
  <2>6. /\ defecit'[s] = Cardinality(DOMAIN table'[s])
        /\ defecit'[s] <= MAX_MESSAGE_DEFECIT
    BY <2>2, <2>4, <2>5 DEF IndInv, DefecitIsInflight, table
  <2>7. /\ defecit'[Peer(s)] = Cardinality(DOMAIN table'[Peer(s)])
        /\ defecit'[Peer(s)] <= MAX_MESSAGE_DEFECIT
    BY <1>1, <2>3, <2>4 DEF IndInv, DefecitIsInflight, table
  <2>8. ASSUME NEW t \in Side
        PROVE  /\ IsFiniteSet(DOMAIN table'[t])
               /\ defecit'[t] = Cardinality(DOMAIN table'[t])
               /\ defecit'[t] <= MAX_MESSAGE_DEFECIT
    BY <1>1, <2>2, <2>3, <2>6, <2>7
  <2>9. QED
    BY <2>8 DEF FiniteTables, DefecitIsInflight, table
<1>12. NoProtocolError' /\ OwnAnswer'
  BY <1>5 DEF IndInv, NoProtocolError, OwnAnswer
<1>13. QED
  BY <1>8, <1>9, <1>10, <1>11, <1>12 DEF IndInv, table

\* What reading the head of p's wire does, when p's own message stays.
LEMMA ReadOut ==
  ASSUME TypeOK, TypeOK', NEW p \in Side, wire[p] # <<>>,
         wire' = [wire EXCEPT ![p] = Tail(@)], sending'[p] = sending[p]
  PROVE  /\ Out[p] # <<>> /\ Head(Out[p]) = Head(wire[p])
         /\ Out'[p] = Tail(Out[p])
         /\ wire'[Peer(p)] = wire[Peer(p)]
<1>1. wire[p] \in Seq(Msg) /\ sending[p] \in Seq(Msg) /\ wire'[p] = Tail(wire[p])
  BY DEF TypeOK
<1>2. Out[p] = wire[p] \o sending[p] /\ Out'[p] = Tail(wire[p]) \o sending[p]
  BY <1>1, OutType
<1>3. /\ wire[p] \o sending[p] # <<>> /\ Head(wire[p] \o sending[p]) = Head(wire[p])
      /\ Tail(wire[p]) \o sending[p] = Tail(wire[p] \o sending[p])
  BY <1>1, ConcatHead
<1>4. wire'[Peer(p)] = wire[Peer(p)]
  BY PeerFacts DEF TypeOK
<1>5. QED
  BY <1>2, <1>3, <1>4

LEMMA RequestInv ==
  ASSUME IndInv, TypeOK', NEW s \in Side, handle_request(s)
  PROVE  IndInv'
<1> DEFINE p == Peer(s)
           m == Head(wire[p])
           table == inflight_requests
           out2 == [Out EXCEPT ![p] = Tail(@)]
<1>1. p \in Side /\ p # s /\ Peer(p) = s
  BY PeerFacts
<1>2. /\ pc[s] = "select" /\ wire[p] # <<>> /\ m.type = "Request"
      /\ wire' = [wire EXCEPT ![p] = Tail(@)]
      /\ UNCHANGED <<seq, defecit, inflight_requests>>
  BY DEF handle_request, Incoming
<1>3. \/ /\ sending' = [sending EXCEPT ![s] = <<ResponseTo(s, m)>>]
         /\ pc' = [pc EXCEPT ![s] = "send"]
         /\ UNCHANGED <<queue, error, outcome>>
      \/ quit(s, "DatabaseError") /\ UNCHANGED sending
  BY DEF handle_request
<1>4. sending'[p] = sending[p]
  BY <1>1, <1>3 DEF IndInv, TypeOK
<1> HIDE DEF p, m
<1>5. /\ Out \in [Side -> Seq(Msg)] /\ Out' \in [Side -> Seq(Msg)]
      /\ \A t \in Side : Out[t] = wire[t] \o sending[t]
      /\ \A t \in Side : Out'[t] = wire'[t] \o sending'[t]
  BY OutType DEF IndInv
<1>6. /\ Out[p] # <<>> /\ Head(Out[p]) = m /\ Out'[p] = Tail(Out[p])
      /\ wire'[s] = wire[s]
  <2>1. /\ Out[p] # <<>> /\ Head(Out[p]) = Head(wire[p]) /\ Out'[p] = Tail(Out[p])
        /\ wire'[Peer(p)] = wire[Peer(p)]
    BY <1>1, <1>2, <1>4, ReadOut DEF IndInv
  <2>2. QED
    BY <1>1, <2>1 DEF m
<1>7. ReadFrom(Out, out2, p) /\ out2[s] = Out[s]
  <2>1. Tail(Out[p]) \in Seq(Msg)
    BY <1>1, <1>5, <1>6
  <2>2. out2 \in [Side -> Seq(Msg)] /\ out2[p] = Tail(Out[p]) /\ out2[s] = Out[s]
    BY <1>1, <1>5, <2>1
  <2>3. QED
    BY <1>1, <1>5, <1>6, <2>2 DEF ReadFrom
<1> HIDE DEF out2
<1>8. /\ Linked(out2, table) /\ m \in Msg /\ NoneUnderWay(out2, p, m.seq)
      /\ m.seq \in DOMAIN table[p] /\ table[p][m.seq] = m.request
  <2>1. Owner(p, m) = p
    BY <1>2 DEF Owner
  <2>2. Linked(Out, table)
    BY DEF IndInv
  <2>3. /\ Linked(out2, table) /\ Head(Out[p]) \in Msg
        /\ NoneUnderWay(out2, Owner(p, Head(Out[p])), Head(Out[p]).seq)
        /\ Head(Out[p]).seq \in DOMAIN table[Owner(p, Head(Out[p]))]
        /\ table[Owner(p, Head(Out[p]))][Head(Out[p]).seq] = Head(Out[p]).request
    BY <1>1, <1>7, <2>2, LinkedRead
  <2>4. QED
    BY <1>6, <2>1, <2>3
<1>9. FiniteTables' /\ DefecitIsInflight'
  BY <1>2 DEF IndInv, FiniteTables, DefecitIsInflight
<1>10. CASE /\ sending' = [sending EXCEPT ![s] = <<ResponseTo(s, m)>>]
            /\ pc' = [pc EXCEPT ![s] = "send"]
            /\ UNCHANGED <<queue, error, outcome>>
  <2> DEFINE a == ResponseTo(s, m)
  <2>1. /\ a \in Msg /\ a.type = "Response" /\ a.seq = m.seq /\ a.request = m.request
    BY <1>8 DEF ResponseTo, Msg
  <2>2. wire[s] \in Seq(Msg) /\ sending[s] = <<>> /\ sending'[s] = <<a>>
    BY <1>2, <1>10 DEF IndInv, TypeOK, SendShape
  <2> HIDE DEF a
  <2>3. wire[s] \o sending[s] = wire[s] /\ wire[s] \o sending'[s] = Append(wire[s], a)
    BY <2>1, <2>2, ConcatLast
  <2>4. Out'[s] = Append(out2[s], a)
    BY <1>5, <1>6, <1>7, <2>3
  <2>5. Out'[p] = out2[p]
    BY <1>6, <1>7 DEF ReadFrom
  <2>6. Reply(out2, Out', table, s, a)
    <3>1. /\ \A i \in 1..Len(out2[s]) : out2[s][i].type = "Response" => out2[s][i].seq # a.seq
          /\ \A i \in 1..Len(out2[p]) : out2[p][i].type = "Request" => out2[p][i].seq # a.seq
      BY <1>1, <1>8, <2>1 DEF NoneUnderWay
    <3>2. out2 \in [Side -> Seq(Msg)]
      BY <1>7 DEF ReadFrom
    <3>3. QED
      BY <1>5, <1>8, <2>1, <2>4, <2>5, <3>1, <3>2 DEF Reply, p
  <2>7. Linked(Out', table)
    BY <1>8, <2>6, LinkedReply
  <2>8. Linked(Out, table)'
    BY <1>2, <2>7
  <2>9. SendShape'
    BY <1>10 DEF IndInv, TypeOK, SendShape
  <2>10. Fresh'
    BY <1>2, <1>10 DEF IndInv, TypeOK, Fresh
  <2>11. NoProtocolError' /\ OwnAnswer'
    BY <1>10 DEF IndInv, NoProtocolError, OwnAnswer
  <2>12. QED
    BY <1>9, <2>8, <2>9, <2>10, <2>11 DEF IndInv
<1>11. CASE quit(s, "DatabaseError") /\ UNCHANGED sending
  <2>1. Out'[s] = out2[s] /\ Out'[p] = out2[p]
    BY <1>5, <1>6, <1>7, <1>11 DEF ReadFrom
  <2>2. Out' = out2
    <3>1. out2 \in [Side -> Seq(Msg)] /\ Side = {s, p}
      BY <1>7 DEF ReadFrom, Side, Peer, p
    <3>2. QED
      BY <1>5, <2>1, <3>1
  <2>3. Linked(Out, table)'
    BY <1>2, <1>8, <2>2
  <2>4. SendShape' /\ Fresh' /\ NoProtocolError' /\ OwnAnswer'
    BY <1>2, <1>11, QuitStep
  <2>5. QED
    BY <1>9, <2>3, <2>4 DEF IndInv
<1>12. QED
  BY <1>3, <1>10, <1>11

\* The message is registered in this side's table under the request it
\* answers, so neither error branch is taken.
LEMMA ResponseInv ==
  ASSUME IndInv, TypeOK', NEW s \in Side, handle_response(s)
  PROVE  IndInv'
<1> DEFINE p == Peer(s)
           m == Head(wire[p])
           table == inflight_requests
<1>1. p \in Side /\ p # s /\ Peer(p) = s /\ Side = {s, p}
  BY PeerFacts DEF Side, Peer
<1>2. /\ pc[s] = "select" /\ wire[p] # <<>> /\ m.type = "Response"
      /\ wire' = [wire EXCEPT ![p] = Tail(@)]
      /\ table' = [table EXCEPT ![s] = Remove(@, m.seq)]
      /\ defecit' = [defecit EXCEPT ![s] = @ - 1]
      /\ UNCHANGED sending
  BY DEF handle_response, Incoming
<1>3. m.seq \in DOMAIN table[s] /\ kind[m.request] = kind[table[s][m.seq]] =>
         /\ outcome' = [outcome EXCEPT ![table[s][m.seq]] = m.request]
         /\ NextRound(s) /\ UNCHANGED <<queue, error>>
  BY DEF handle_response
<1> HIDE DEF p, m
<1>4. /\ Out \in [Side -> Seq(Msg)] /\ Out' \in [Side -> Seq(Msg)]
      /\ \A t \in Side : Out[t] = wire[t] \o sending[t]
      /\ \A t \in Side : Out'[t] = wire'[t] \o sending'[t]
  BY OutType DEF IndInv
<1>5. /\ Out[p] # <<>> /\ Head(Out[p]) = m /\ Out'[p] = Tail(Out[p])
      /\ wire'[s] = wire[s]
  <2>1. /\ Out[p] # <<>> /\ Head(Out[p]) = Head(wire[p]) /\ Out'[p] = Tail(Out[p])
        /\ wire'[Peer(p)] = wire[Peer(p)]
    BY <1>1, <1>2, ReadOut DEF IndInv
  <2>2. QED
    BY <1>1, <2>1 DEF m
<1>6. ReadFrom(Out, Out', p)
  BY <1>1, <1>2, <1>4, <1>5 DEF ReadFrom
<1>7. /\ Linked(Out', table) /\ m \in Msg /\ NoneUnderWay(Out', s, m.seq)
      /\ m.seq \in DOMAIN table[s] /\ table[s][m.seq] = m.request
  <2>1. Owner(p, m) = s
    BY <1>1, <1>2 DEF Owner
  <2>2. Linked(Out, table)
    BY DEF IndInv
  <2>3. /\ Linked(Out', table) /\ Head(Out[p]) \in Msg
        /\ NoneUnderWay(Out', Owner(p, Head(Out[p])), Head(Out[p]).seq)
        /\ Head(Out[p]).seq \in DOMAIN table[Owner(p, Head(Out[p]))]
        /\ table[Owner(p, Head(Out[p]))][Head(Out[p]).seq] = Head(Out[p]).request
    BY <1>1, <1>6, <2>2, LinkedRead
  <2>4. QED
    BY <1>5, <2>1, <2>3
<1>8. /\ outcome' = [outcome EXCEPT ![m.request] = m.request]
      /\ pc' = [pc EXCEPT ![s] = "select"] /\ seq' = [seq EXCEPT ![s] = @ + 1]
      /\ UNCHANGED error
  BY <1>3, <1>7 DEF NextRound
<1>9. /\ DOMAIN table'[s] = DOMAIN table[s] \ {m.seq}
      /\ \A i \in DOMAIN table'[s] : table'[s][i] = table[s][i]
      /\ table'[p] = table[p]
  BY <1>1, <1>2 DEF IndInv, TypeOK, Remove
<1> HIDE DEF table
<1>10. Linked(Out, table)'
  <2>1. Forget(Out', table, table', s, m.seq)
    BY <1>4, <1>7, <1>9 DEF Forget, NoneUnderWay, p
  <2>2. Linked(Out', table')
    BY <1>7, <2>1, LinkedForget
  <2>3. QED
    BY <2>2
<1>11. SendShape'
  BY <1>2, <1>8 DEF IndInv, TypeOK, SendShape
<1>12. Fresh'
  <2>1. SUFFICES ASSUME NEW t \in Side, NEW n \in DOMAIN table'[t]
                 PROVE  n <= seq'[t] /\ (pc'[t] = "select" => n < seq'[t])
    BY DEF Fresh, table
  <2>2. seq[s] \in Nat /\ seq'[s] = seq[s] + 1 /\ seq'[p] = seq[p] /\ pc'[p] = pc[p]
    BY <1>1, <1>8 DEF IndInv, TypeOK
  <2>3. CASE t = s
    <3>1. n \in DOMAIN table[s] /\ n \in Nat
      BY <1>9, <2>1, <2>3 DEF IndInv, TypeOK, table
    <3>2. n <= seq[s]
      BY <3>1 DEF IndInv, Fresh, table
    <3>3. QED
      BY <2>2, <2>3, <3>1, <3>2
  <2>4. CASE t = p
    BY <1>1, <1>9, <2>1, <2>2, <2>4 DEF IndInv, Fresh, table
  <2>5. QED
    BY <1>1, <2>3, <2>4
<1>13. FiniteTables' /\ DefecitIsInflight'
  <2>1. IsFiniteSet(DOMAIN table[s])
    BY DEF IndInv, FiniteTables, table
  <2>2. /\ IsFiniteSet(DOMAIN table'[s])
        /\ Cardinality(DOMAIN table'[s]) = Cardinality(DOMAIN table[s]) - 1
    BY <1>7, <1>9, <2>1, FS_RemoveElement
  <2>3. defecit[s] \in Int /\ defecit'[s] = defecit[s] - 1 /\ defecit'[p] = defecit[p]
    BY <1>1, <1>2 DEF IndInv, TypeOK
  <2>4. MAX_MESSAGE_DEFECIT \in Nat
    BY SessionAssumption
  <2>5. /\ defecit'[s] = Cardinality(DOMAIN table'[s])
        /\ defecit'[s] <= MAX_MESSAGE_DEFECIT
    BY <2>2, <2>3, <2>4 DEF IndInv, DefecitIsInflight, table
  <2>6. /\ IsFiniteSet(DOMAIN table'[p])
        /\ defecit'[p] = Cardinality(DOMAIN table'[p])
        /\ defecit'[p] <= MAX_MESSAGE_DEFECIT
    BY <1>1, <1>9, <2>3 DEF IndInv, FiniteTables, DefecitIsInflight, table
  <2>7. ASSUME NEW t \in Side
        PROVE  /\ IsFiniteSet(DOMAIN table'[t])
               /\ defecit'[t] = Cardinality(DOMAIN table'[t])
               /\ defecit'[t] <= MAX_MESSAGE_DEFECIT
    BY <1>1, <2>2, <2>5, <2>6
  <2>8. QED
    BY <2>7 DEF FiniteTables, DefecitIsInflight, table
<1>14. NoProtocolError' /\ OwnAnswer'
  BY <1>8 DEF IndInv, TypeOK, NoProtocolError, OwnAnswer
<1>15. QED
  BY <1>10, <1>11, <1>12, <1>13, <1>14 DEF IndInv, table

\* The message moves from sending to the wire: nothing new is emitted.
LEMMA SendInv ==
  ASSUME IndInv, TypeOK', NEW s \in Side, t_send(s)
  PROVE  IndInv'
<1> DEFINE m == Head(sending[s])
<1>1. /\ wire' = [wire EXCEPT ![s] = Append(@, m)]
      /\ sending' = [sending EXCEPT ![s] = <<>>]
      /\ pc' = [pc EXCEPT ![s] = "select"] /\ seq' = [seq EXCEPT ![s] = @ + 1]
      /\ UNCHANGED <<defecit, inflight_requests, error, outcome>>
      /\ pc[s] = "send"
  BY DEF t_send, NextRound
<1>2. /\ wire[s] \in Seq(Msg) /\ sending[s] \in Seq(Msg) /\ Len(sending[s]) = 1
      /\ wire'[s] = Append(wire[s], m) /\ sending'[s] = <<>>
  BY <1>1 DEF IndInv, TypeOK, SendShape
<1>3. m \in Msg /\ sending[s] = <<m>>
  BY <1>2
<1> HIDE DEF m
<1>4. Out' = Out
  <2>1. /\ Out \in [Side -> Seq(Msg)] /\ Out' \in [Side -> Seq(Msg)]
        /\ \A t \in Side : Out[t] = wire[t] \o sending[t]
        /\ \A t \in Side : Out'[t] = wire'[t] \o sending'[t]
    BY OutType DEF IndInv
  <2>2. Append(wire[s], m) \in Seq(Msg)
    BY <1>2, <1>3
  <2>3. wire[s] \o sending[s] = Append(wire[s], m)
    BY <1>2, <1>3, ConcatLast
  <2>4. wire'[s] \o sending'[s] = Append(wire[s], m)
    BY <1>2, <2>2, ConcatEmptySeq
  <2>5. \A t \in Side : t # s => wire'[t] = wire[t] /\ sending'[t] = sending[t]
    BY <1>1 DEF IndInv, TypeOK
  <2>6. \A t \in Side : Out'[t] = Out[t]
    BY <2>1, <2>3, <2>4, <2>5
  <2>7. QED
    BY <2>1, <2>6
<1>5. Linked(Out, inflight_requests)'
  BY <1>1, <1>4 DEF IndInv
<1>6. SendShape'
  BY <1>1 DEF IndInv, TypeOK, SendShape
<1>7. Fresh'
  <2>1. SUFFICES ASSUME NEW t \in Side, NEW n \in DOMAIN inflight_requests[t]
                 PROVE  n <= seq'[t] /\ (pc'[t] = "select" => n < seq'[t])
    BY <1>1 DEF Fresh
  <2>2. n \in Nat /\ seq[t] \in Nat /\ n <= seq[t]
    BY DEF IndInv, TypeOK, Fresh
  <2>3. CASE t = s
    <3>1. seq'[t] = seq[t] + 1
      BY <1>1, <2>3 DEF IndInv, TypeOK
    <3>2. QED
      BY <2>2, <3>1
  <2>4. CASE t # s
    BY <1>1, <2>4 DEF IndInv, TypeOK, Fresh
  <2>5. QED
    BY <2>3, <2>4
<1>8. FiniteTables' /\ DefecitIsInflight' /\ NoProtocolError' /\ OwnAnswer'
  BY <1>1 DEF IndInv, FiniteTables, DefecitIsInflight, NoProtocolError, OwnAnswer
<1>9. QED
  BY <1>5, <1>6, <1>7, <1>8 DEF IndInv

LEMMA InvStep ==
  ASSUME IndInv, [Next]_vars
  PROVE  IndInv'
<1>1. TypeOK'
  BY TypeStep DEF IndInv
<1>2. ASSUME NEW s \in Side, disconnected(s)
      PROVE  IndInv'
  <2>1. /\ quit(s, "Disconnected")
        /\ UNCHANGED <<seq, defecit, inflight_requests, sending, wire>>
    BY <1>2 DEF disconnected
  <2>2. Linked(Out, inflight_requests)'
    BY <2>1, SameOut DEF IndInv
  <2>3. QED
    BY <1>1, <2>1, <2>2, QuitStep DEF IndInv
<1>3. ASSUME NEW s \in Side, t_send_error(s)
      PROVE  IndInv'
  <2>1. /\ quit(s, "SocketClosed")
        /\ UNCHANGED <<seq, defecit, inflight_requests, sending, wire>>
    BY <1>3 DEF t_send_error
  <2>2. Linked(Out, inflight_requests)'
    BY <2>1, SameOut DEF IndInv
  <2>3. QED
    BY <1>1, <2>1, <2>2, QuitStep DEF IndInv
<1>4. ASSUME UNCHANGED <<queue, session, wire, outcome>>
      PROVE  IndInv'
  <2>1. Linked(Out, inflight_requests)'
    BY <1>4, SameOut DEF IndInv, session
  <2>2. QED
    BY <1>1, <1>4, <2>1 DEF IndInv, session, SendShape, Fresh, FiniteTables,
                           DefecitIsInflight, NoProtocolError, OwnAnswer
<1>5. QED
  BY <1>1, <1>2, <1>3, <1>4, AskInv, InternalRequestInv, RequestInv, ResponseInv,
     SendInv DEF Next, run_protocol_inner, lose_connection, vars

LEMMA InitInv == Init => IndInv
<1> SUFFICES ASSUME Init
             PROVE  IndInv
  OBVIOUS
<1>1. TypeOK
  <2>1. <<>> \in Seq(Request) /\ <<>> \in Seq(Msg)
    OBVIOUS
  <2>2. DOMAIN <<>> = {}
    OBVIOUS
  <2>3. /\ DOMAIN inflight_requests = Side
        /\ \A s \in Side : /\ DOMAIN inflight_requests[s] \subseteq Nat
                           /\ \A n \in DOMAIN inflight_requests[s] :
                                inflight_requests[s][n] \in Request
    BY <2>2 DEF Init
  <2>4. QED
    BY <2>1, <2>3 DEF Init, TypeOK, Outcome
<1>2. \A s \in Side : Out[s] = <<>> \o <<>>
  BY DEF Init, Out
<1>3. \A s \in Side : Len(Out[s]) = 0
  BY <1>2
<1>4. Linked(Out, inflight_requests)
  <2>1. \A s \in Side : 1..Len(Out[s]) = {}
    BY <1>3
  <2>2. QED
    BY <2>1, PeerFacts DEF Linked, Registered, OnceOut, NotAskedAndAnswered
<1>5. \A s \in Side : DOMAIN inflight_requests[s] = {}
  BY DEF Init
<1>6. SendShape /\ Fresh /\ NoProtocolError
  BY <1>5 DEF Init, SendShape, Fresh, NoProtocolError
<1>7. FiniteTables /\ DefecitIsInflight
  BY <1>5, FS_EmptySet, SessionAssumption DEF Init, FiniteTables, DefecitIsInflight
<1>8. OwnAnswer
  BY SessionAssumption DEF Init, OwnAnswer, Outcome
<1>9. QED
  BY <1>1, <1>4, <1>6, <1>7, <1>8 DEF IndInv

-----------------------------------------------------------------------------
(* A side emits at most one message per entry of the two tables *)

LEMMA EmittedBound ==
  ASSUME IndInv, NEW s \in Side
  PROVE  Len(wire[s]) + Len(sending[s]) <= 2 * MAX_MESSAGE_DEFECIT
<1> DEFINE out == wire[s] \o sending[s]
           p == Peer(s)
           table == inflight_requests
           I == {i \in 1..Len(out) : out[i].type = "Request"}
           J == {i \in 1..Len(out) : out[i].type = "Response"}
           f == [i \in I |-> out[i].seq]
           g == [i \in J |-> out[i].seq]
<1>1. /\ wire[s] \in Seq(Msg) /\ sending[s] \in Seq(Msg) /\ p \in Side /\ Out[s] = out
      /\ MAX_MESSAGE_DEFECIT \in Nat
  BY PeerFacts, SessionAssumption DEF IndInv, TypeOK, Out
<1>2. out \in Seq(Msg) /\ Len(out) = Len(wire[s]) + Len(sending[s]) /\ Len(out) \in Nat
  BY <1>1, ConcatProperties, LenProperties
<1> HIDE DEF out
<1>3. \A i \in 1..Len(out) :
        /\ out[i].seq \in DOMAIN table[Owner(s, out[i])]
        /\ out[i].type \in {"Request", "Response"}
        /\ \A j \in 1..Len(out) :
             out[i].type = out[j].type /\ out[i].seq = out[j].seq => i = j
  <2>1. \A i \in 1..Len(out) : out[i] \in Msg
    BY <1>2, ElementOfSeq
  <2>2. QED
    BY <1>1, <2>1 DEF IndInv, Linked, Registered, OnceOut, Msg
<1> HIDE DEF p
<1>4. /\ IsFiniteSet(DOMAIN table[s]) /\ IsFiniteSet(DOMAIN table[p])
      /\ Cardinality(DOMAIN table[s]) <= MAX_MESSAGE_DEFECIT
      /\ Cardinality(DOMAIN table[p]) <= MAX_MESSAGE_DEFECIT
  BY <1>1 DEF IndInv, FiniteTables, DefecitIsInflight
<1>5. f \in Injection(I, DOMAIN table[s])
  <2>1. \A i \in I : out[i].seq \in DOMAIN table[s]
    BY <1>3 DEF Owner
  <2>2. \A i, j \in I : out[i].seq = out[j].seq => i = j
    BY <1>3
  <2>3. QED
    BY <2>1, <2>2 DEF Injection, IsInjective
<1>6. g \in Injection(J, DOMAIN table[p])
  <2>1. \A i \in J : out[i].seq \in DOMAIN table[p]
    BY <1>3 DEF Owner, p
  <2>2. \A i, j \in J : out[i].seq = out[j].seq => i = j
    BY <1>3
  <2>3. QED
    BY <2>1, <2>2 DEF Injection, IsInjective
<1>7. I \cup J = 1..Len(out)
  BY <1>3
<1> HIDE DEF I, J, f, g
<1>8. IsFiniteSet(I) /\ Cardinality(I) <= Cardinality(DOMAIN table[s])
  BY <1>4, <1>5, FS_Injection
<1>9. IsFiniteSet(J) /\ Cardinality(J) <= Cardinality(DOMAIN table[p])
  BY <1>4, <1>6, FS_Injection
<1>10. Cardinality(1..Len(out)) = Len(out)
  <2>1. ASSUME NEW n \in Nat
        PROVE  Cardinality(1..n) = n
    BY FS_Interval
  <2>2. Len(out) \in Nat
    BY <1>2
  <2>3. QED
    BY <2>1, <2>2, Zenon
<1>11. Cardinality(I \cup J) = Cardinality(I) + Cardinality(J) - Cardinality(I \cap J)
  BY <1>8, <1>9, FS_Union
<1>12. IsFiniteSet(I \cap J)
  BY <1>8, FS_Subset
<1>13. /\ Cardinality(I) \in Nat /\ Cardinality(J) \in Nat /\ Cardinality(I \cap J) \in Nat
       /\ Cardinality(DOMAIN table[s]) \in Nat /\ Cardinality(DOMAIN table[p]) \in Nat
  BY <1>4, <1>8, <1>9, <1>12, FS_CardinalityType
<1>14. Len(out) <= 2 * MAX_MESSAGE_DEFECIT
  <2>1. Len(out) = Cardinality(I) + Cardinality(J) - Cardinality(I \cap J)
    BY <1>7, <1>10, <1>11
  <2>2. QED
    BY <1>1, <1>4, <1>8, <1>9, <1>13, <2>1
<1>15. QED
  BY <1>2, <1>14

-----------------------------------------------------------------------------
(* Theorems *)

\* The inductive invariant holds in every reachable state of a session.
THEOREM Invariance == Spec => []IndInv
<1>1. Init => IndInv
  BY InitInv
<1>2. IndInv /\ [Next]_vars => IndInv'
  BY InvStep
<1>3. QED
  BY <1>1, <1>2, PTL DEF Spec

\* Type correctness of both sides of a session.
THEOREM TypeCorrect == Spec => []TypeOK
<1>1. IndInv => TypeOK
  BY DEF IndInv
<1>2. QED
  BY <1>1, Invariance, PTL

\* The window of run_protocol_inner: the deficit counts the table's entries and
\* never exceeds MAX_MESSAGE_DEFECIT.
THEOREM WindowKept == Spec => []DefecitIsInflight
<1>1. IndInv => DefecitIsInflight
  BY DEF IndInv
<1>2. QED
  BY <1>1, Invariance, PTL

\* Neither error of handle_message_from_peer's response branch is ever met.
THEOREM NoErrors == Spec => []NoProtocolError
<1>1. IndInv => NoProtocolError
  BY DEF IndInv
<1>2. QED
  BY <1>1, Invariance, PTL

\* handle_message_from_peer routes every answer to its own caller.
THEOREM AnswersRouted == Spec => []OwnAnswer
<1>1. IndInv => OwnAnswer
  BY DEF IndInv
<1>2. QED
  BY <1>1, Invariance, PTL

\* What is emitted and not read, in every session over any transport: with the
\* message in t_send no more than a window of requests and one of responses.
THEOREM WireBounded == Spec => []WindowBoundsWire
<1>1. IndInv => WindowBoundsWire
  BY EmittedBound DEF WindowBoundsWire
<1>2. QED
  BY <1>1, Invariance, PTL

=============================================================================
