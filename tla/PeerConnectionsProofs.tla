------------------------- MODULE PeerConnectionsProofs -------------------------
(***************************************************************************)
(* What PeerConnections' run checks on two nodes and three callers, proved   *)
(* for any nodes, any callers and any number of attempts, websockets,        *)
(* timeouts and losses: the connection table names the sessions that run,    *)
(* and who serves has authenticated its peer.                                *)
(***************************************************************************)
EXTENDS PeerConnections, FiniteSetTheorems, SequenceTheorems, TLAPS

Role == {"client", "server"}
EndPc == {"hello", "name", "hash", "ack", "secret", "authenticate", "learned", "response",
          "enter", "run", "refused", "ended"}
Msg == {"name", "hash", "ack", "cookie"}
Side == [node : Node, pc : EndPc, inbox : Seq(Msg)]
Socket == [client : Side, server : Side, cookie : Nat, up : BOOLEAN]
PeerState ==
    {Closed} \cup {Pending(c) : c \in Nat} \cup {Open(s, role) : s \in Nat, role \in Role}
CallerPc == {"idle", "absent", "polling", "connected", "giving up", "starting", "aborted"}

SockType == sock \in Seq(Socket)
\* A cookie is an attempt that was spent.
LeftType ==
    /\ left \in [calling : SUBSET Caller, attempts : Nat, timeouts : Nat, losses : Nat,
                 aborts : Nat]
    /\ \A n \in Node : cookies[n] + left.attempts <= MaxAttempts
CallerType ==
    /\ caller \in [Caller -> [pc : CallerPc, cookie : Nat]]
    /\ \A k \in Caller : caller[k].cookie <= cookies[At[k]]
TableType ==
    /\ table \in [Node -> [Node -> PeerState]]
    /\ \A n, p \in Node :
          /\ \A c \in Nat : table[n][p] = Pending(c) => c \in 1..cookies[n]
          /\ \A s \in Nat : \A role \in Role : table[n][p] = Open(s, role) =>
                s \in DOMAIN sock /\ Me(<<s, role>>) = n /\ Them(<<s, role>>) = p
JarType ==
    /\ jar \in [Node -> SUBSET DOMAIN sock]
    /\ \A n \in Node : IsFiniteSet(jar[n]) /\ Cardinality(jar[n]) <= JarSize + 1
Types ==
    /\ SockType /\ LeftType /\ CallerType /\ TableType /\ JarType
    /\ cookies \in [Node -> Nat]
    /\ dialing \subseteq Node \X Node \X Nat

\* A cookie reaches the server only from a client that has learned the secret, and
\* then the challenge of the websocket x is no longer in the jar j.
HasCookie(x) == \E i \in DOMAIN x.server.inbox : x.server.inbox[i] = "cookie"
Safe(s, x, j) ==
    /\ x.server.pc \in {"enter", "run", "refused"} \/ HasCookie(x) =>
          x.client.pc \in {"enter", "run"} \cup Over /\ s \notin j[x.client.node]
    /\ x.client.pc = "learned" => s \notin j[x.client.node]
HandshakeInv == \A s \in DOMAIN sock : Safe(s, sock[s], jar)

IndInv == Types /\ LiveIsRegistered /\ PendingHasOwner /\ HandshakeInv

-----------------------------------------------------------------------------
(* The data. *)

\* A fault that is spent leaves the others.
LEMMA SpendFacts ==
    ASSUME LeftType, NEW fault \in {"attempts", "timeouts", "losses", "aborts"}, Spend(fault)
    PROVE  /\ left' \in [calling : SUBSET Caller, attempts : Nat, timeouts : Nat, losses : Nat,
                         aborts : Nat]
           /\ left'.attempts = IF fault = "attempts" THEN left.attempts - 1 ELSE left.attempts
           /\ fault = "attempts" => left.attempts > 0
<1> DEFINE LT == [calling : SUBSET Caller, attempts : Nat, timeouts : Nat, losses : Nat, aborts : Nat]
<1>1. left \in LT
  BY DEF LeftType
<1>2. CASE fault = "attempts"
  BY <1>1, <1>2 DEF Spend
<1>3. CASE fault = "timeouts"
  BY <1>1, <1>3 DEF Spend
<1>4. CASE fault = "losses"
  BY <1>1, <1>4 DEF Spend
<1>5. CASE fault = "aborts"
  BY <1>1, <1>5 DEF Spend
<1>6. QED BY <1>2, <1>3, <1>4, <1>5

\* The kinds of entry exclude each other.
LEMMA EntryKinds ==
    /\ \A c : Pending(c).state = "pending" /\ Pending(c).cookie = c /\ Pending(c) # Closed
    /\ \A s, role : /\ Open(s, role).state = "open" /\ Open(s, role).sock = s
                    /\ Open(s, role).role = role /\ Open(s, role) # Closed
    /\ \A c, s, role : Pending(c) # Open(s, role)
    /\ Closed.state = "closed"
BY DEF Pending, Open, Closed

\* An entry is closed, pending under its cookie, or open with its end of a websocket.
LEMMA EntryCases ==
    ASSUME NEW x \in PeerState
    PROVE  \/ x = Closed /\ x.state = "closed"
           \/ x.cookie \in Nat /\ x = Pending(x.cookie) /\ x.state = "pending"
           \/ x.sock \in Nat /\ x.role \in Role /\ x = Open(x.sock, x.role) /\ x.state = "open"
<1>1. CASE x = Closed
  BY <1>1, EntryKinds
<1>2. CASE \E c \in Nat : x = Pending(c)
  BY <1>2, EntryKinds
<1>3. CASE \E s \in Nat : \E role \in Role : x = Open(s, role)
  <2>1. PICK s \in Nat, role \in Role : x = Open(s, role)
    BY <1>3
  <2>2. x.state = "open" /\ x.sock = s /\ x.role = role
    BY <2>1, EntryKinds
  <2>3. QED BY <2>1, <2>2
<1>4. QED BY <1>1, <1>2, <1>3 DEF PeerState

\* The ends of the websockets, by websocket and role.
LEMMA Ends ==
    ASSUME SockType
    PROVE  /\ \A e : e \in End <=> \E s \in DOMAIN sock : \E role \in Role : e = <<s, role>>
           /\ DOMAIN sock = 1..Len(sock) /\ Len(sock) \in Nat
           /\ \A s \in DOMAIN sock : sock[s] \in Socket
           /\ \A s \in DOMAIN sock : /\ Pc(<<s, "client">>) = sock[s].client.pc
                                     /\ Pc(<<s, "server">>) = sock[s].server.pc
                                     /\ Me(<<s, "client">>) = sock[s].client.node
                                     /\ Me(<<s, "server">>) = sock[s].server.node
                                     /\ Them(<<s, "client">>) = sock[s].server.node
                                     /\ Them(<<s, "server">>) = sock[s].client.node
<1>1. DOMAIN sock = 1..Len(sock) /\ Len(sock) \in Nat /\ \A s \in DOMAIN sock : sock[s] \in Socket
  BY DEF SockType
<1>2. \A e : e \in End <=> \E s \in DOMAIN sock : \E role \in Role : e = <<s, role>>
  BY DEF End, Role
<1>3. QED BY <1>1, <1>2 DEF Pc, Me, Them, Other, Socket

\* The ends of a websocket are at nodes.
LEMMA NodesOfEnds ==
    ASSUME SockType, NEW e \in End
    PROVE  Me(e) \in Node /\ Them(e) \in Node /\ Pc(e) \in EndPc
<1>1. PICK s \in DOMAIN sock, role \in Role : e = <<s, role>>
  BY Ends
<1>2. sock[s].client \in Side /\ sock[s].server \in Side
  BY Ends DEF Socket
<1>3. CASE role = "client"
  BY <1>1, <1>2, <1>3, Ends DEF Side
<1>4. CASE role = "server"
  BY <1>1, <1>2, <1>4, Ends DEF Side
<1>5. QED BY <1>3, <1>4 DEF Role

\* The ends of the websockets of the next state, by websocket and role.
LEMMA EndsNext ==
    ASSUME SockType'
    PROVE  /\ \A e : e \in End' <=> \E s \in DOMAIN sock' : \E role \in Role : e = <<s, role>>
           /\ \A s \in DOMAIN sock' : /\ Pc(<<s, "client">>)' = sock'[s].client.pc
                                      /\ Pc(<<s, "server">>)' = sock'[s].server.pc
                                      /\ Me(<<s, "client">>)' = sock'[s].client.node
                                      /\ Me(<<s, "server">>)' = sock'[s].server.node
                                      /\ Them(<<s, "client">>)' = sock'[s].server.node
                                      /\ Them(<<s, "server">>)' = sock'[s].client.node
<1>1. (SockType =>
         /\ \A e : e \in End <=> \E s \in DOMAIN sock : \E role \in Role : e = <<s, role>>
         /\ \A s \in DOMAIN sock : /\ Pc(<<s, "client">>) = sock[s].client.pc
                                   /\ Pc(<<s, "server">>) = sock[s].server.pc
                                   /\ Me(<<s, "client">>) = sock[s].client.node
                                   /\ Me(<<s, "server">>) = sock[s].server.node
                                   /\ Them(<<s, "client">>) = sock[s].server.node
                                   /\ Them(<<s, "server">>) = sock[s].client.node)'
  BY Ends, PTL
<1>2. QED BY <1>1

\* The initial states satisfy the invariant: nothing is open, pending or on its way.
LEMMA IndInvInit == Init => IndInv
<1>1. SUFFICES ASSUME Init PROVE IndInv
  OBVIOUS
<1>2. sock = <<>> /\ DOMAIN sock = {} /\ SockType
  BY <1>1 DEF Init, SockType
<1>3. left \in [calling : SUBSET Caller, attempts : 0..MaxAttempts, timeouts : Nat,
                losses : Nat, aborts : Nat]
  BY <1>1, ConnectionsAssumption DEF Init
<1>4. cookies \in [Node -> Nat] /\ LeftType
  BY <1>1, <1>3, ConnectionsAssumption DEF Init, LeftType, NoCookie
<1>5. CallerType
  BY <1>1, <1>4, ConnectionsAssumption DEF Init, CallerType, CallerPc, NoCookie
<1>6. TableType
  <2>1. \A n, p \in Node : table[n][p] = Closed
    BY <1>1 DEF Init
  <2>2. table \in [Node -> [Node -> PeerState]]
    BY <1>1 DEF Init, PeerState
  <2>3. ASSUME NEW n \in Node, NEW p \in Node, NEW c \in Nat, table[n][p] = Pending(c) PROVE FALSE
    BY <2>1, <2>3, EntryKinds, Zenon
  <2>4. ASSUME NEW n \in Node, NEW p \in Node, NEW s \in Nat, NEW role \in Role,
               table[n][p] = Open(s, role)
        PROVE  FALSE
    BY <2>1, <2>4, EntryKinds, Zenon
  <2>5. QED BY <2>2, <2>3, <2>4 DEF TableType
<1>7. JarType
  BY <1>1, FS_EmptySet, ConnectionsAssumption DEF Init, JarType
<1>8. LiveIsRegistered /\ HandshakeInv
  BY <1>2, Ends DEF LiveIsRegistered, HandshakeInv
<1>9. PendingHasOwner
  BY <1>1, EntryKinds DEF Init, PendingHasOwner
<1>10. QED BY <1>1, <1>2, <1>4, <1>5, <1>6, <1>7, <1>8, <1>9 DEF IndInv, Types, Init

-----------------------------------------------------------------------------
(* A step of one websocket. *)

\* Websocket s becomes v, with the same nodes at its ends.
Becomes(s, v) ==
    /\ sock' = [sock EXCEPT ![s] = v]
    /\ v.client.node = sock[s].client.node /\ v.server.node = sock[s].server.node

\* When one websocket changes, the others stay and nobody changes its node.
LEMMA BecomesFacts ==
    ASSUME SockType, NEW s \in DOMAIN sock, NEW v \in Socket, Becomes(s, v)
    PROVE  /\ SockType' /\ DOMAIN sock' = DOMAIN sock /\ sock'[s] = v
           /\ \A t \in DOMAIN sock : t # s => sock'[t] = sock[t]
           /\ \A t \in DOMAIN sock : /\ sock'[t].client.node = sock[t].client.node
                                     /\ sock'[t].server.node = sock[t].server.node
           /\ \A e \in End : e \in End' /\ Me(e)' = Me(e) /\ Them(e)' = Them(e)
           /\ \A e \in End' : e \in End
<1>1. sock' = [sock EXCEPT ![s] = v] /\ DOMAIN sock = 1..Len(sock) /\ Len(sock) \in Nat
  BY Ends DEF Becomes
<1>2. SockType'
  <2>1. sock' \in Seq(Socket)
    BY <1>1 DEF SockType
  <2>2. QED BY <2>1 DEF SockType
<1>3. DOMAIN sock' = DOMAIN sock /\ sock'[s] = v /\ \A t \in DOMAIN sock : t # s => sock'[t] = sock[t]
  BY <1>1
<1>4. \A t \in DOMAIN sock : /\ sock'[t].client.node = sock[t].client.node
                             /\ sock'[t].server.node = sock[t].server.node
  BY <1>3 DEF Becomes
<1>5. \A e : e \in End' <=> e \in End
  BY <1>2, <1>3, EndsNext, Ends
<1>6. ASSUME NEW e \in End PROVE Me(e)' = Me(e) /\ Them(e)' = Them(e)
  <2>1. PICK t \in DOMAIN sock, role \in Role : e = <<t, role>>
    BY Ends
  <2>2. CASE role = "client"
    <3>1. Me(e) = sock[t].client.node /\ Them(e) = sock[t].server.node
      BY <2>1, <2>2, Ends
    <3>2. Me(e)' = sock'[t].client.node /\ Them(e)' = sock'[t].server.node
      BY <1>2, <1>3, <2>1, <2>2, EndsNext
    <3>3. QED BY <1>4, <3>1, <3>2
  <2>3. CASE role = "server"
    <3>1. Me(e) = sock[t].server.node /\ Them(e) = sock[t].client.node
      BY <2>1, <2>3, Ends
    <3>2. Me(e)' = sock'[t].server.node /\ Them(e)' = sock'[t].client.node
      BY <1>2, <1>3, <2>1, <2>3, EndsNext
    <3>3. QED BY <1>4, <3>1, <3>2
  <2>4. QED BY <2>2, <2>3 DEF Role
<1>7. QED BY <1>2, <1>3, <1>4, <1>5, <1>6

\* A caller that will give up the attempt x of its node n for the peer p, in the
\* state y of the callers.
Owner(k, y, n, p, x) ==
    /\ At[k] = n /\ Peer[k] = p
    /\ \/ y[k].pc = "aborted"
       \/ /\ y[k].pc \in {"polling", "giving up", "starting"}
          /\ y[k].cookie = x.cookie
Owned(n, p, x, y) == x.state = "pending" => \E k \in Caller : Owner(k, y, n, p, x)

\* PendingHasOwner says of each entry alone that it is owned while it is pending.
LEMMA Owners == PendingHasOwner <=> \A n, p \in Node : Owned(n, p, table[n][p], caller)
BY DEF PendingHasOwner, Owned, Owner

\* The same of the next state.
LEMMA OwnersNext ==
    PendingHasOwner' <=> \A n, p \in Node : Owned(n, p, table'[n][p], caller')
<1>1. (PendingHasOwner <=> \A n, p \in Node : Owned(n, p, table[n][p], caller))'
  BY Owners, PTL
<1>2. QED BY <1>1 DEF Owned, Owner

\* A step of the handshake: nobody enters the table or begins to run, and nobody but
\* websocket s gets into a jar.
LEMMA HandshakeStep ==
    ASSUME IndInv, NEW s \in DOMAIN sock, NEW v \in Socket, Becomes(s, v),
           v.client.pc = "run" => sock[s].client.pc = "run",
           v.server.pc = "run" => sock[s].server.pc = "run",
           UNCHANGED <<table, cookies, caller, dialing>>,
           LeftType', JarType',
           \A t \in DOMAIN sock \ {s} : \A n \in Node : t \in jar'[n] => t \in jar[n],
           Safe(s, v, jar')
    PROVE  IndInv'
<1>1. Types
  BY DEF IndInv
<1>2. SockType
  BY <1>1 DEF Types
<1>3. /\ SockType' /\ DOMAIN sock' = DOMAIN sock /\ sock'[s] = v
      /\ \A t \in DOMAIN sock : t # s => sock'[t] = sock[t]
      /\ \A t \in DOMAIN sock : /\ sock'[t].client.node = sock[t].client.node
                                /\ sock'[t].server.node = sock[t].server.node
      /\ \A e \in End : e \in End' /\ Me(e)' = Me(e) /\ Them(e)' = Them(e)
      /\ \A e \in End' : e \in End
  BY <1>2, BecomesFacts
<1>4. TableType'
  <2>1. \A n, p \in Node : \A t \in Nat : \A role \in Role : table[n][p] = Open(t, role) =>
            t \in DOMAIN sock' /\ Me(<<t, role>>)' = n /\ Them(<<t, role>>)' = p
    BY <1>1, <1>2, <1>3, Ends DEF Types, TableType
  <2>2. QED BY <1>1, <2>1 DEF Types, TableType
<1>5. LiveIsRegistered'
  <2>1. ASSUME NEW e \in End, Pc(e)' = "run" PROVE Pc(e) = "run"
    <3>1. PICK t \in DOMAIN sock, role \in Role : e = <<t, role>>
      BY <1>2, Ends
    <3>2. CASE role = "client"
      <4>1. sock'[t].client.pc = "run" /\ Pc(e) = sock[t].client.pc
        BY <1>2, <1>3, <2>1, <3>1, <3>2, Ends, EndsNext
      <4>2. QED BY <1>3, <4>1
    <3>3. CASE role = "server"
      <4>1. sock'[t].server.pc = "run" /\ Pc(e) = sock[t].server.pc
        BY <1>2, <1>3, <2>1, <3>1, <3>3, Ends, EndsNext
      <4>2. QED BY <1>3, <4>1
    <3>4. QED BY <3>2, <3>3 DEF Role
  <2>2. \A e \in End : Pc(e) = "run" => table[Me(e)][Them(e)] = Open(e[1], e[2])
    BY DEF IndInv, LiveIsRegistered
  <2>3. \A e \in End' : Pc(e)' = "run" => table'[Me(e)'][Them(e)'] = Open(e[1], e[2])
    BY <1>3, <2>1, <2>2
  <2>4. QED BY <2>3 DEF LiveIsRegistered, Open
<1>6. PendingHasOwner'
  <2>1. \A n, p \in Node : Owned(n, p, table[n][p], caller)
    BY Owners DEF IndInv
  <2>2. QED BY <2>1, OwnersNext
<1>7. HandshakeInv'
  <2>1. ASSUME NEW t \in DOMAIN sock, t # s PROVE Safe(t, sock[t], jar')
    <3>1. Safe(t, sock[t], jar) /\ sock[t].client.node \in Node
      BY <1>2, <2>1, Ends DEF IndInv, HandshakeInv, Socket, Side
    <3>2. QED BY <2>1, <3>1 DEF Safe
  <2>2. \A t \in DOMAIN sock' : Safe(t, sock'[t], jar')
    BY <1>3, <2>1
  <2>3. QED BY <2>2 DEF HandshakeInv, Safe, HasCookie, Over
<1>8. Types'
  BY <1>1, <1>3, <1>4 DEF Types, CallerType
<1>9. QED BY <1>4, <1>5, <1>6, <1>7, <1>8 DEF IndInv

\* What the steps of the handshake make of a websocket: the points at which its ends
\* are, and what the server has not read yet.
Turns(s, v, client, server, inbox) ==
    /\ v \in Socket /\ Becomes(s, v)
    /\ v.client.pc = client /\ v.server.pc = server /\ v.server.inbox = inbox
Receive(s, msg) ==
    IF sock[s].up THEN Append(sock[s].server.inbox, msg) ELSE sock[s].server.inbox

\* The client sends a message.
LEMMA ClientSends ==
    ASSUME SockType, NEW s \in DOMAIN sock, NEW pc \in EndPc, NEW msg \in Msg,
           Send(<<s, "client">>, pc, msg)
    PROVE  \E v : Turns(s, v, pc, sock[s].server.pc, Receive(s, msg))
<1>1. sock[s] \in Socket /\ sock[s].client \in Side /\ sock[s].server \in Side
  BY Ends DEF Socket
<1> DEFINE in == Receive(s, msg)
<1>2. in \in Seq(Msg)
  BY <1>1 DEF Side, Receive
<1> DEFINE v == [sock[s] EXCEPT !.client.pc = pc, !.server.inbox = in]
<1>3. sock' = [sock EXCEPT ![s]["client"].pc = pc, ![s]["server"].inbox = in]
  BY DEF Send, Other, Receive
<1> HIDE DEF in
<1>4. v \in Socket
  BY <1>1, <1>2 DEF Socket, Side
<1>5. sock' = [sock EXCEPT ![s] = v]
  BY <1>3
<1>6. /\ v.client.node = sock[s].client.node /\ v.server.node = sock[s].server.node
      /\ v.client.pc = pc /\ v.server.pc = sock[s].server.pc
      /\ v.server.inbox = in
  BY <1>1, <1>2 DEF Socket, Side
<1> HIDE DEF v
<1>7. QED BY <1>4, <1>5, <1>6 DEF Turns, Becomes, in

\* The client takes a message and answers it.
LEMMA ClientAnswers ==
    ASSUME SockType, NEW s \in DOMAIN sock, NEW pc \in EndPc, NEW msg \in Msg,
           sock[s].client.inbox # <<>>, Answer(<<s, "client">>, pc, msg)
    PROVE  \E v : Turns(s, v, pc, sock[s].server.pc, Receive(s, msg))
<1>1. sock[s] \in Socket /\ sock[s].client \in Side /\ sock[s].server \in Side
  BY Ends DEF Socket
<1> DEFINE in == Receive(s, msg)
           rest == Tail(sock[s].client.inbox)
<1>2. in \in Seq(Msg) /\ rest \in Seq(Msg)
  BY <1>1 DEF Side, Receive
<1> DEFINE v == [sock[s] EXCEPT !.client.pc = pc, !.client.inbox = rest, !.server.inbox = in]
<1>3. sock' = [sock EXCEPT ![s]["client"].pc = pc, ![s]["client"].inbox = rest,
                         ![s]["server"].inbox = in]
  BY DEF Answer, Other, Receive
<1> HIDE DEF in, rest
<1>4. v \in Socket
  BY <1>1, <1>2 DEF Socket, Side
<1>5. sock' = [sock EXCEPT ![s] = v]
  BY <1>3
<1>6. /\ v.client.node = sock[s].client.node /\ v.server.node = sock[s].server.node
      /\ v.client.pc = pc /\ v.server.pc = sock[s].server.pc
      /\ v.server.inbox = in
  BY <1>1, <1>2 DEF Socket, Side
<1> HIDE DEF v
<1>7. QED BY <1>4, <1>5, <1>6 DEF Turns, Becomes, in, rest

\* The server takes a message and answers it.
LEMMA ServerAnswers ==
    ASSUME SockType, NEW s \in DOMAIN sock, NEW pc \in EndPc, NEW msg \in Msg,
           sock[s].server.inbox # <<>>, Answer(<<s, "server">>, pc, msg)
    PROVE  \E v : Turns(s, v, sock[s].client.pc, pc, Tail(sock[s].server.inbox))
<1>1. sock[s] \in Socket /\ sock[s].client \in Side /\ sock[s].server \in Side
  BY Ends DEF Socket
<1> DEFINE out == IF sock[s].up THEN Append(sock[s].client.inbox, msg) ELSE sock[s].client.inbox
           rest == Tail(sock[s].server.inbox)
<1>2. out \in Seq(Msg) /\ rest \in Seq(Msg)
  BY <1>1 DEF Side
<1> DEFINE v == [sock[s] EXCEPT !.server.pc = pc, !.server.inbox = rest, !.client.inbox = out]
<1>3. sock' = [sock EXCEPT ![s]["server"].pc = pc, ![s]["server"].inbox = rest,
                         ![s]["client"].inbox = out]
  BY DEF Answer, Other
<1> HIDE DEF out, rest
<1>4. v \in Socket
  BY <1>1, <1>2 DEF Socket, Side
<1>5. sock' = [sock EXCEPT ![s] = v]
  BY <1>3
<1>6. /\ v.client.node = sock[s].client.node /\ v.server.node = sock[s].server.node
      /\ v.client.pc = sock[s].client.pc /\ v.server.pc = pc
      /\ v.server.inbox = rest
  BY <1>1, <1>2 DEF Socket, Side
<1> HIDE DEF v
<1>7. QED BY <1>4, <1>5, <1>6 DEF Turns, Becomes, out, rest

\* The server takes a message.
LEMMA ServerTakes ==
    ASSUME SockType, NEW s \in DOMAIN sock, NEW pc \in EndPc,
           sock[s].server.inbox # <<>>, Take(<<s, "server">>, pc)
    PROVE  \E v : Turns(s, v, sock[s].client.pc, pc, Tail(sock[s].server.inbox))
<1>1. sock[s] \in Socket /\ sock[s].client \in Side /\ sock[s].server \in Side
  BY Ends DEF Socket
<1> DEFINE rest == Tail(sock[s].server.inbox)
<1>2. rest \in Seq(Msg)
  BY <1>1 DEF Side
<1> DEFINE v == [sock[s] EXCEPT !.server.pc = pc, !.server.inbox = rest]
<1>3. sock' = [sock EXCEPT ![s]["server"].pc = pc, ![s]["server"].inbox = rest]
  BY DEF Take
<1> HIDE DEF rest
<1>4. v \in Socket
  BY <1>1, <1>2 DEF Socket, Side
<1>5. sock' = [sock EXCEPT ![s] = v]
  BY <1>3
<1>6. /\ v.client.node = sock[s].client.node /\ v.server.node = sock[s].server.node
      /\ v.client.pc = sock[s].client.pc /\ v.server.pc = pc
      /\ v.server.inbox = rest
  BY <1>1, <1>2 DEF Socket, Side
<1> HIDE DEF v
<1>7. QED BY <1>4, <1>5, <1>6 DEF Turns, Becomes, rest

\* The client goes on without a message.
LEMMA ClientReturns ==
    ASSUME SockType, NEW s \in DOMAIN sock, NEW pc \in EndPc, Return(<<s, "client">>, pc)
    PROVE  \E v : Turns(s, v, pc, sock[s].server.pc, sock[s].server.inbox)
<1>1. sock[s] \in Socket /\ sock[s].client \in Side /\ sock[s].server \in Side
  BY Ends DEF Socket
<1> DEFINE v == [sock[s] EXCEPT !.client.pc = pc]
<1>3. sock' = [sock EXCEPT ![s]["client"].pc = pc]
  BY DEF Return
<1>4. v \in Socket
  BY <1>1 DEF Socket, Side
<1>5. sock' = [sock EXCEPT ![s] = v]
  BY <1>3
<1>6. /\ v.client.node = sock[s].client.node /\ v.server.node = sock[s].server.node
      /\ v.client.pc = pc /\ v.server.pc = sock[s].server.pc
      /\ v.server.inbox = sock[s].server.inbox
  BY <1>1 DEF Socket, Side
<1> HIDE DEF v
<1>7. QED BY <1>4, <1>5, <1>6 DEF Turns, Becomes

\* The server goes on without a message.
LEMMA ServerReturns ==
    ASSUME SockType, NEW s \in DOMAIN sock, NEW pc \in EndPc, Return(<<s, "server">>, pc)
    PROVE  \E v : Turns(s, v, sock[s].client.pc, pc, sock[s].server.inbox)
<1>1. sock[s] \in Socket /\ sock[s].client \in Side /\ sock[s].server \in Side
  BY Ends DEF Socket
<1> DEFINE v == [sock[s] EXCEPT !.server.pc = pc]
<1>3. sock' = [sock EXCEPT ![s]["server"].pc = pc]
  BY DEF Return
<1>4. v \in Socket
  BY <1>1 DEF Socket, Side
<1>5. sock' = [sock EXCEPT ![s] = v]
  BY <1>3
<1>6. /\ v.client.node = sock[s].client.node /\ v.server.node = sock[s].server.node
      /\ v.client.pc = sock[s].client.pc /\ v.server.pc = pc
      /\ v.server.inbox = sock[s].server.inbox
  BY <1>1 DEF Socket, Side
<1> HIDE DEF v
<1>7. QED BY <1>4, <1>5, <1>6 DEF Turns, Becomes

\* A cookie that is still to be read was there before.
LEMMA CookieFacts ==
    ASSUME NEW q \in Seq(Msg)
    PROVE  /\ q # <<>> => \A i \in DOMAIN Tail(q) : i + 1 \in DOMAIN q /\ Tail(q)[i] = q[i + 1]
           /\ q # <<>> => 1 \in DOMAIN q /\ Head(q) = q[1]
           /\ \A m \in Msg : \A i \in DOMAIN Append(q, m) :
                 (i \in DOMAIN q /\ Append(q, m)[i] = q[i]) \/ Append(q, m)[i] = m
OBVIOUS

-----------------------------------------------------------------------------
(* The handshake. *)

Entered == {"enter", "run", "refused"}

\* What is left is spent or kept.
LEMMA LeftNext ==
    ASSUME LeftType, cookies \in [Node -> Nat], UNCHANGED cookies,
           \/ UNCHANGED left
           \/ \E fault \in {"timeouts", "losses", "aborts"} : Spend(fault)
    PROVE  LeftType'
<1>1. CASE UNCHANGED left
  BY <1>1 DEF LeftType
<1>2. ASSUME NEW fault \in {"timeouts", "losses", "aborts"}, Spend(fault) PROVE LeftType'
  <2>1. /\ left' \in [calling : SUBSET Caller, attempts : Nat, timeouts : Nat, losses : Nat,
                      aborts : Nat]
        /\ left'.attempts = left.attempts
    BY <1>2, SpendFacts
  <2>2. QED BY <2>1 DEF LeftType
<1>3. QED BY <1>1, <1>2

\* A step after which nobody has learned or received anything: the server has no more
\* cookies than before, and enters only on one; the client does not go back, and what
\* it runs or has learned it did before.
Quiet(s, v) ==
    /\ v \in Socket /\ Becomes(s, v)
    /\ HasCookie(v) => HasCookie(sock[s])
    /\ v.server.pc \in Entered => sock[s].server.pc \in Entered \/ HasCookie(sock[s])
    /\ sock[s].client.pc \in {"enter", "run"} \cup Over => v.client.pc \in {"enter", "run"} \cup Over
    /\ v.client.pc = "learned" => sock[s].client.pc = "learned"
    /\ v.client.pc = "run" => sock[s].client.pc = "run"
    /\ v.server.pc = "run" => sock[s].server.pc = "run"

\* A quiet step of one websocket keeps the invariant.
LEMMA QuietStep ==
    ASSUME IndInv, NEW s \in DOMAIN sock, NEW v, Quiet(s, v),
           UNCHANGED <<table, cookies, caller, dialing, jar>>, LeftType'
    PROVE  IndInv'
<1>1. /\ v \in Socket /\ Becomes(s, v) /\ v.client.node = sock[s].client.node
      /\ v.client.pc = "run" => sock[s].client.pc = "run"
      /\ v.server.pc = "run" => sock[s].server.pc = "run"
  BY DEF Quiet, Becomes
<1>2. Types /\ SockType /\ Safe(s, sock[s], jar)
  BY DEF IndInv, Types, HandshakeInv
<1>3. DOMAIN sock' = DOMAIN sock
  BY <1>1, <1>2, BecomesFacts
<1>4. JarType'
  BY <1>2, <1>3 DEF Types, JarType
<1>5. Safe(s, v, jar)
  BY <1>1, <1>2 DEF Safe, Entered, Quiet
<1>6. Safe(s, v, jar')
  BY <1>5 DEF Safe
<1>7. QED BY <1>1, <1>4, <1>6, HandshakeStep

\* The client's name is no cookie.
LEMMA ClientSendsName ==
    ASSUME IndInv, NEW s \in DOMAIN sock, client_sends_name(<<s, "client">>)
    PROVE  IndInv'
<1>1. Types /\ SockType
  BY DEF IndInv, Types
<1>2. sock[s].client.pc = "hello" /\ sock[s].server \in Side
  BY <1>1, Ends DEF client_sends_name, Socket
<1>3. PICK v : Turns(s, v, "hash", sock[s].server.pc, Receive(s, "name"))
  BY <1>1, ClientSends DEF client_sends_name, EndPc, Msg
<1>4. \A i \in DOMAIN Receive(s, "name") : Receive(s, "name")[i] = "cookie" => HasCookie(sock[s])
  BY <1>2, CookieFacts DEF Receive, HasCookie, Side, Msg
<1>5. Quiet(s, v)
  BY <1>2, <1>3, <1>4 DEF Turns, Quiet, HasCookie, Over
<1>6. LeftType'
  BY <1>1, LeftNext DEF Types, client_sends_name
<1>7. QED BY <1>5, <1>6, QuietStep DEF client_sends_name

\* The server reads the client's name.
LEMMA ServerSendsChallenge ==
    ASSUME IndInv, NEW s \in DOMAIN sock, server_sends_challenge(<<s, "server">>)
    PROVE  IndInv'
<1>1. Types /\ SockType
  BY DEF IndInv, Types
<1>2. /\ sock[s].server.pc = "name" /\ sock[s].server \in Side /\ sock[s].client.pc \in EndPc
      /\ sock[s].server.inbox # <<>> /\ Head(sock[s].server.inbox) = "name"
  BY <1>1, Ends DEF server_sends_challenge, Receives, Socket, Side
<1>3. PICK v : Turns(s, v, sock[s].client.pc, "ack", Tail(sock[s].server.inbox))
  BY <1>1, <1>2, ServerAnswers DEF server_sends_challenge, EndPc, Msg
<1>4. \A i \in DOMAIN Tail(sock[s].server.inbox) :
        Tail(sock[s].server.inbox)[i] = "cookie" => HasCookie(sock[s])
  BY <1>2, CookieFacts DEF HasCookie, Side
<1>6. Quiet(s, v)
  BY <1>2, <1>3, <1>4 DEF Turns, Quiet, HasCookie, Entered
<1>7. LeftType'
  BY <1>1, LeftNext DEF Types, server_sends_challenge
<1>8. QED BY <1>6, <1>7, QuietStep DEF server_sends_challenge

\* The server reads that its challenge is expected.
LEMMA ServerAcknowledged ==
    ASSUME IndInv, NEW s \in DOMAIN sock, server_acknowledged(<<s, "server">>)
    PROVE  IndInv'
<1>1. Types /\ SockType
  BY DEF IndInv, Types
<1>2. /\ sock[s].server.pc = "ack" /\ sock[s].server \in Side /\ sock[s].client.pc \in EndPc
      /\ sock[s].server.inbox # <<>> /\ Head(sock[s].server.inbox) = "ack"
  BY <1>1, Ends DEF server_acknowledged, Receives, Socket, Side
<1>3. PICK v : Turns(s, v, sock[s].client.pc, "authenticate", Tail(sock[s].server.inbox))
  BY <1>1, <1>2, ServerTakes DEF server_acknowledged, EndPc, Msg
<1>4. \A i \in DOMAIN Tail(sock[s].server.inbox) :
        Tail(sock[s].server.inbox)[i] = "cookie" => HasCookie(sock[s])
  BY <1>2, CookieFacts DEF HasCookie, Side
<1>6. Quiet(s, v)
  BY <1>2, <1>3, <1>4 DEF Turns, Quiet, HasCookie, Entered
<1>7. LeftType'
  BY <1>1, LeftNext DEF Types, server_acknowledged
<1>8. QED BY <1>6, <1>7, QuietStep DEF server_acknowledged

\* The server reads the cookie, so it was on its way.
LEMMA ServerChecksCookie ==
    ASSUME IndInv, NEW s \in DOMAIN sock, server_checks_cookie(<<s, "server">>)
    PROVE  IndInv'
<1>1. Types /\ SockType
  BY DEF IndInv, Types
<1>2. /\ sock[s].server.pc = "response" /\ sock[s].server \in Side /\ sock[s].client.pc \in EndPc
      /\ sock[s].server.inbox # <<>> /\ Head(sock[s].server.inbox) = "cookie"
  BY <1>1, Ends DEF server_checks_cookie, Receives, Socket, Side
<1>3. PICK v : Turns(s, v, sock[s].client.pc, "enter", Tail(sock[s].server.inbox))
  BY <1>1, <1>2, ServerTakes DEF server_checks_cookie, EndPc, Msg
<1>4. \A i \in DOMAIN Tail(sock[s].server.inbox) :
        Tail(sock[s].server.inbox)[i] = "cookie" => HasCookie(sock[s])
  BY <1>2, CookieFacts DEF HasCookie, Side
<1>5. HasCookie(sock[s])
  BY <1>2, CookieFacts DEF HasCookie, Side
<1>6. Quiet(s, v)
  BY <1>2, <1>3, <1>4, <1>5 DEF Turns, Quiet, HasCookie, Entered
<1>7. LeftType'
  BY <1>1, LeftNext DEF Types, server_checks_cookie
<1>8. QED BY <1>6, <1>7, QuietStep DEF server_checks_cookie

\* An end gives up, or is refused when it would enter.
LEMMA EndReturns ==
    ASSUME IndInv, NEW e \in End, NEW pc, Return(e, pc),
           pc = "ended" \/ (pc = "refused" /\ Pc(e) = "enter"),
           UNCHANGED <<table, cookies, caller, dialing, jar>>, LeftType'
    PROVE  IndInv'
<1>1. Types /\ SockType /\ pc \in EndPc
  BY DEF IndInv, Types, EndPc
<1>2. PICK s \in DOMAIN sock, role \in Role : e = <<s, role>>
  BY <1>1, Ends
<1>3. CASE role = "client"
  <2>1. PICK v : Turns(s, v, pc, sock[s].server.pc, sock[s].server.inbox)
    BY <1>1, <1>2, <1>3, ClientReturns
  <2>2. Quiet(s, v)
    BY <2>1 DEF Turns, Quiet, HasCookie, Over
  <2>3. QED BY <2>2, QuietStep
<1>4. CASE role = "server"
  <2>1. PICK v : Turns(s, v, sock[s].client.pc, pc, sock[s].server.inbox)
    BY <1>1, <1>2, <1>4, ServerReturns
  <2>2. pc = "ended" \/ (pc = "refused" /\ sock[s].server.pc = "enter")
    BY <1>1, <1>2, <1>4, Ends
  <2>3. Quiet(s, v)
    BY <2>1, <2>2 DEF Turns, Quiet, HasCookie, Entered
  <2>4. QED BY <2>3, QuietStep
<1>5. QED BY <1>3, <1>4 DEF Role

\* A timeout, a dropped channel or the end of the stream makes an end give up.
LEMMA GivesUp ==
    ASSUME IndInv, NEW e \in End,
           handshake_timeout(e) \/ cookie_channel_dropped(e) \/ socket_closed(e)
    PROVE  IndInv'
<1>1. Return(e, "ended") /\ UNCHANGED <<table, cookies, caller, dialing, jar>>
  BY DEF handshake_timeout, cookie_channel_dropped, socket_closed
<1>2. UNCHANGED left \/ Spend("timeouts")
  BY DEF handshake_timeout, cookie_channel_dropped, socket_closed
<1>3. LeftType'
  BY <1>1, <1>2, LeftNext DEF IndInv, Types
<1> DEFINE pc == "ended"
<1>4. Return(e, pc) /\ (pc = "ended" \/ (pc = "refused" /\ Pc(e) = "enter"))
  BY <1>1
<1> HIDE DEF pc
<1>5. QED BY <1>1, <1>3, <1>4, EndReturns

\* What is under way on a lost websocket is gone.
LEMMA LoseConnection ==
    ASSUME IndInv, NEW s \in DOMAIN sock, lose_connection(s)
    PROVE  IndInv'
<1>1. Types /\ SockType
  BY DEF IndInv, Types
<1>2. sock[s] \in Socket /\ sock[s].server \in Side /\ sock[s].client \in Side /\ <<>> \in Seq(Msg)
  BY <1>1, Ends DEF Socket
<1> DEFINE v == [sock[s] EXCEPT !.up = FALSE, !.client.inbox = <<>>, !.server.inbox = <<>>]
<1>3. sock' = [sock EXCEPT ![s].up = FALSE, ![s].client.inbox = <<>>, ![s].server.inbox = <<>>]
  BY DEF lose_connection
<1>4. v \in Socket
  BY <1>2 DEF Socket, Side
<1>5. sock' = [sock EXCEPT ![s] = v]
  BY <1>3
<1>6. /\ v.client.node = sock[s].client.node /\ v.server.node = sock[s].server.node
      /\ v.client.pc = sock[s].client.pc /\ v.server.pc = sock[s].server.pc
      /\ v.server.inbox = <<>>
  BY <1>2 DEF Socket, Side
<1> HIDE DEF v
<1>7. Quiet(s, v)
  BY <1>4, <1>5, <1>6 DEF Quiet, Becomes, HasCookie, Entered
<1>8. LeftType'
  BY <1>1, LeftNext DEF Types, lose_connection
<1>9. QED BY <1>7, <1>8, QuietStep DEF lose_connection

\* The client's jar takes the challenge, before the server has anything from it.
LEMMA ClientAcknowledges ==
    ASSUME IndInv, NEW s \in DOMAIN sock, client_acknowledges(<<s, "client">>)
    PROVE  IndInv'
<1>1. Types /\ SockType /\ Safe(s, sock[s], jar)
  BY DEF IndInv, Types, HandshakeInv
<1>2. /\ sock[s].client.pc = "hash" /\ sock[s].client.inbox # <<>> /\ sock[s].client.node \in Node
      /\ sock[s].server \in Side
  BY <1>1, Ends DEF client_acknowledges, Receives, Socket, Side
<1>3. PICK v : Turns(s, v, "secret", sock[s].server.pc, Receive(s, "ack"))
  BY <1>1, <1>2, ClientAnswers DEF client_acknowledges, EndPc, Msg
<1>4. /\ v \in Socket /\ Becomes(s, v) /\ v.client.pc = "secret"
      /\ v.server.pc = sock[s].server.pc /\ v.server.inbox = Receive(s, "ack")
      /\ DOMAIN sock' = DOMAIN sock
  BY <1>1, <1>3, BecomesFacts DEF Turns
<1>5. Safe(s, v, jar')
  <2>1. HasCookie(v) => HasCookie(sock[s])
    BY <1>2, <1>4, CookieFacts DEF Receive, HasCookie, Side, Msg
  <2>2. QED BY <1>1, <1>2, <1>4, <2>1 DEF Safe, Over
<1> DEFINE n == sock[s].client.node
<1>6. PICK kept \in SUBSET jar[n] : expect_a_cookie(n, s, kept)
  BY <1>1, <1>2, Ends DEF client_acknowledges
<1>7. jar' = [jar EXCEPT ![n] = kept \cup {s}] /\ jar \in [Node -> SUBSET DOMAIN sock] /\ n \in Node
  BY <1>1, <1>2, <1>6 DEF expect_a_cookie, Types, JarType
<1>8. IsFiniteSet(kept \cup {s}) /\ Cardinality(kept \cup {s}) <= JarSize + 1
  <2>1. IsFiniteSet(jar[n]) /\ Cardinality(jar[n]) \in Nat /\ JarSize \in Nat
    BY <1>1, <1>2, FS_CardinalityType, ConnectionsAssumption DEF Types, JarType
  <2>2. IsFiniteSet(kept) /\ Cardinality(kept) \in Nat
    BY <2>1, FS_Subset, FS_CardinalityType
  <2>3. Cardinality(kept) <= JarSize
    BY <1>6, <2>1 DEF expect_a_cookie
  <2>4. IsFiniteSet(kept \cup {s}) /\ Cardinality(kept \cup {s}) \in {Cardinality(kept), Cardinality(kept) + 1}
    BY <2>2, FS_AddElement
  <2>5. QED BY <2>1, <2>2, <2>3, <2>4
<1> HIDE DEF n
<1>9. JarType'
  BY <1>1, <1>4, <1>7, <1>8 DEF Types, JarType
<1>10. \A t \in DOMAIN sock \ {s} : \A m \in Node : t \in jar'[m] => t \in jar[m]
  BY <1>7
<1>11. LeftType'
  BY <1>1, LeftNext DEF Types, client_acknowledges
<1>12. QED BY <1>4, <1>5, <1>9, <1>10, <1>11, HandshakeStep DEF client_acknowledges

\* The secret takes the challenge out of the jar of the node that the client claims
\* to be.
LEMMA Authenticate ==
    ASSUME IndInv, NEW s \in DOMAIN sock, authenticate(<<s, "server">>)
    PROVE  IndInv'
<1>1. Types /\ SockType /\ Safe(s, sock[s], jar)
  BY DEF IndInv, Types, HandshakeInv
<1>2. /\ sock[s].server.pc = "authenticate" /\ sock[s] \in Socket /\ sock[s].client.node \in Node
      /\ Them(<<s, "server">>) = sock[s].client.node
  BY <1>1, Ends DEF authenticate, Socket, Side
<1> DEFINE n == sock[s].client.node
           pc == IF s \in jar[n] /\ sock[s].client.pc = "secret" THEN "learned" ELSE sock[s].client.pc
           v == [sock[s] EXCEPT !.server.pc = "response", !.client.pc = pc]
<1>3. sock' = [sock EXCEPT ![s].server.pc = "response", ![s].client.pc = pc]
  BY <1>2 DEF authenticate
<1>4. jar' = [jar EXCEPT ![n] = @ \ {s}]
  BY <1>2 DEF authenticate
<1>5. pc \in EndPc
  BY <1>2 DEF Socket, Side, EndPc
<1>6. pc = "run" => sock[s].client.pc = "run"
  OBVIOUS
<1>7. pc \in {"enter", "run"} \cup Over <=> sock[s].client.pc \in {"enter", "run"} \cup Over
  BY DEF Over
<1> HIDE DEF pc
<1>8. v \in Socket
  BY <1>2, <1>5 DEF Socket, Side, EndPc
<1>9. sock' = [sock EXCEPT ![s] = v]
  BY <1>3
<1>10. /\ v.client.node = n /\ v.server.node = sock[s].server.node
       /\ v.client.pc = pc /\ v.server.pc = "response" /\ v.server.inbox = sock[s].server.inbox
  BY <1>2 DEF Socket, Side
<1> HIDE DEF v
<1>11. Becomes(s, v)
  BY <1>9, <1>10 DEF Becomes
<1>12. DOMAIN sock' = DOMAIN sock
  BY <1>1, <1>8, <1>11, BecomesFacts
<1>13. jar \in [Node -> SUBSET DOMAIN sock] /\ s \notin jar'[n]
       /\ \A m \in Node : jar'[m] \subseteq jar[m]
  BY <1>1, <1>2, <1>4 DEF Types, JarType
<1>14. Safe(s, v, jar')
  <2>1. HasCookie(v) <=> HasCookie(sock[s])
    BY <1>10 DEF HasCookie
  <2>2. QED BY <1>1, <1>7, <1>10, <1>13, <2>1 DEF Safe
<1>15. JarType'
  <2>1. ASSUME NEW m \in Node PROVE IsFiniteSet(jar'[m]) /\ Cardinality(jar'[m]) <= JarSize + 1
    <3>1. IsFiniteSet(jar[m]) /\ Cardinality(jar[m]) <= JarSize + 1 /\ jar'[m] \subseteq jar[m]
      BY <1>1, <1>13, <2>1 DEF Types, JarType
    <3>2. IsFiniteSet(jar'[m]) /\ Cardinality(jar'[m]) <= Cardinality(jar[m])
          /\ Cardinality(jar'[m]) \in Nat /\ Cardinality(jar[m]) \in Nat
      BY <3>1, FS_Subset, FS_CardinalityType
    <3>3. QED BY <3>1, <3>2, ConnectionsAssumption
  <2>2. jar' \in [Node -> SUBSET DOMAIN sock']
    BY <1>4, <1>12, <1>13
  <2>3. QED BY <2>1, <2>2 DEF JarType
<1>16. LeftType'
  BY <1>1, LeftNext DEF Types, authenticate
<1>17. \A t \in DOMAIN sock \ {s} : \A m \in Node : t \in jar'[m] => t \in jar[m]
  BY <1>13
<1>18. QED BY <1>6, <1>8, <1>10, <1>11, <1>14, <1>15, <1>16, <1>17, HandshakeStep DEF authenticate

\* Only a client that has learned the secret sends the cookie.
LEMMA ClientSendsCookie ==
    ASSUME IndInv, NEW s \in DOMAIN sock, client_sends_cookie(<<s, "client">>)
    PROVE  IndInv'
<1>1. Types /\ SockType /\ Safe(s, sock[s], jar)
  BY DEF IndInv, Types, HandshakeInv
<1>2. sock[s].client.pc = "learned"
  BY <1>1, Ends DEF client_sends_cookie
<1>3. PICK v : Turns(s, v, "enter", sock[s].server.pc, Receive(s, "cookie"))
  BY <1>1, ClientSends DEF client_sends_cookie, EndPc, Msg
<1>4. /\ v \in Socket /\ Becomes(s, v) /\ v.client.pc = "enter"
      /\ v.server.pc = sock[s].server.pc /\ DOMAIN sock' = DOMAIN sock
      /\ v.client.node = sock[s].client.node
  BY <1>1, <1>3, BecomesFacts DEF Turns, Becomes
<1>5. Safe(s, v, jar')
  BY <1>1, <1>2, <1>4 DEF Safe, client_sends_cookie
<1>6. JarType'
  BY <1>1, <1>4 DEF Types, JarType, client_sends_cookie
<1>7. LeftType'
  BY <1>1, LeftNext DEF Types, client_sends_cookie
<1>8. QED BY <1>4, <1>5, <1>6, <1>7, HandshakeStep DEF client_sends_cookie

-----------------------------------------------------------------------------
(* get_conn and the table. *)

\* While no websocket changes, its part of the invariant stays.
LEMMA SocketsStay ==
    ASSUME IndInv, UNCHANGED <<sock, jar>>
    PROVE  /\ SockType' /\ JarType' /\ HandshakeInv' /\ End' = End
           /\ \A e \in End : Pc(e)' = Pc(e) /\ Me(e)' = Me(e) /\ Them(e)' = Them(e)
<1>1. SockType' /\ JarType' /\ End' = End
  BY DEF IndInv, Types, SockType, JarType, End
<1>2. \A s \in DOMAIN sock' : Safe(s, sock'[s], jar')
  BY DEF IndInv, HandshakeInv, Safe
<1>3. HandshakeInv'
  BY <1>2 DEF HandshakeInv, Safe, HasCookie, Over
<1>4. \A e \in End : Pc(e)' = Pc(e) /\ Me(e)' = Me(e) /\ Them(e)' = Them(e)
  BY DEF Pc, Me, Them, Other
<1>5. QED BY <1>1, <1>3, <1>4

\* Every entry has a known kind; what is live is open.
LEMMA EntryFacts ==
    ASSUME IndInv, NEW n \in Node, NEW p \in Node
    PROVE  /\ table[n][p] \in PeerState
           /\ IsLive(table[n][p]) => table[n][p].state = "open"
           /\ table[n][p].state \in {"closed", "pending", "open"}
<1>1. table[n][p] \in PeerState
  BY DEF IndInv, Types, TableType
<1>2. QED BY <1>1, EntryCases DEF IsLive

\* One caller goes on and still owns the attempt that it owned.
LEMMA CallerStep ==
    ASSUME IndInv, NEW k \in Caller, NEW x \in [pc : CallerPc, cookie : Nat],
           x.cookie <= cookies[At[k]], caller' = [caller EXCEPT ![k] = x],
           UNCHANGED <<table, cookies, dialing, sock, jar>>, LeftType',
           Entry(k).state = "pending" /\ Owner(k, caller, At[k], Peer[k], Entry(k)) =>
               Owner(k, caller', At[k], Peer[k], Entry(k))
    PROVE  IndInv'
<1>1. Types /\ LiveIsRegistered /\ PendingHasOwner
  BY DEF IndInv
<1>2. /\ SockType' /\ JarType' /\ HandshakeInv' /\ End' = End
      /\ \A e \in End : Pc(e)' = Pc(e) /\ Me(e)' = Me(e) /\ Them(e)' = Them(e)
  BY SocketsStay
<1>3. CallerType'
  BY <1>1 DEF Types, CallerType
<1>4. TableType'
  <2>1. \A n, p \in Node : \A s \in Nat : \A role \in Role : table[n][p] = Open(s, role) =>
            s \in DOMAIN sock' /\ Me(<<s, role>>)' = n /\ Them(<<s, role>>)' = p
    BY <1>1, <1>2, Ends DEF Types, TableType
  <2>2. QED BY <1>1, <2>1 DEF Types, TableType
<1>5. LiveIsRegistered'
  <2>1. \A e \in End' : Pc(e)' = "run" => table'[Me(e)'][Them(e)'] = Open(e[1], e[2])
    BY <1>1, <1>2 DEF LiveIsRegistered
  <2>2. QED BY <2>1 DEF LiveIsRegistered, Open
<1>6. PendingHasOwner'
  <2>1. SUFFICES ASSUME NEW n \in Node, NEW p \in Node, table[n][p].state = "pending"
                 PROVE  \E i \in Caller : Owner(i, caller', n, p, table[n][p])
    BY OwnersNext DEF Owned
  <2>2. PICK i \in Caller : Owner(i, caller, n, p, table[n][p])
    BY <1>1, <2>1, Owners DEF Owned
  <2>3. CASE i = k
    <3>1. At[k] = n /\ Peer[k] = p
      BY <2>2, <2>3 DEF Owner
    <3>2. QED BY <2>1, <2>2, <2>3, <3>1 DEF Entry
  <2>4. CASE i # k
    <3>1. caller'[i] = caller[i]
      BY <1>1, <2>4 DEF Types, CallerType
    <3>2. QED BY <2>2, <3>1 DEF Owner
  <2>5. QED BY <2>3, <2>4
<1>7. QED BY <1>1, <1>2, <1>3, <1>4, <1>5, <1>6 DEF IndInv, Types

\* A new call owns no attempt; one that polls, finds or waits keeps its own.
LEMMA CallerGoesOn ==
    ASSUME IndInv, NEW k \in Caller, get_conn(k) \/ conn_already_exists(k) \/ abort(k)
    PROVE  IndInv'
<1>1. /\ Types /\ CallerType /\ caller[k] \in [pc : CallerPc, cookie : Nat]
      /\ cookies[At[k]] \in Nat /\ caller[k].cookie <= cookies[At[k]]
  BY ConnectionsAssumption DEF IndInv, Types, CallerType
<1>2. UNCHANGED <<table, cookies, dialing, sock, jar>>
  BY DEF get_conn, conn_already_exists, abort
<1>3. LeftType'
  BY <1>1, LeftNext DEF Types, get_conn, conn_already_exists, abort
<1>4. CASE get_conn(k)
  <2> DEFINE x == [pc |-> "polling", cookie |-> NoCookie]
  <2>1. x \in [pc : CallerPc, cookie : Nat] /\ x.cookie <= cookies[At[k]]
    <3>1. cookies[At[k]] \in Nat
      BY <1>1
    <3>2. NoCookie \in Nat /\ NoCookie <= cookies[At[k]]
      BY <3>1 DEF NoCookie
    <3>3. "polling" \in CallerPc
      BY DEF CallerPc
    <3>4. QED BY <3>2, <3>3
  <2>2. caller' = [caller EXCEPT ![k] = x] /\ caller[k].pc \in {"idle", "connected"}
    BY <1>4 DEF get_conn
  <2> HIDE DEF x
  <2>3. ~Owner(k, caller, At[k], Peer[k], Entry(k))
    BY <2>2 DEF Owner
  <2>4. QED BY <1>2, <1>3, <2>1, <2>2, <2>3, CallerStep
<1>5. ASSUME NEW pc \in CallerPc, Goto(k, pc), caller[k].pc # "aborted",
             \/ pc \in {"polling", "giving up", "starting", "aborted"}
             \/ Entry(k).state # "pending"
      PROVE  IndInv'
  <2> DEFINE x == [caller[k] EXCEPT !.pc = pc]
  <2>1. x \in [pc : CallerPc, cookie : Nat] /\ x.cookie = caller[k].cookie /\ x.pc = pc
    BY <1>1
  <2>2. caller' = [caller EXCEPT ![k] = x]
    BY <1>5 DEF Goto
  <2>3. caller'[k] = x
    BY <1>1, <2>2 DEF CallerType
  <2> HIDE DEF x
  <2>4. Entry(k).state = "pending" /\ Owner(k, caller, At[k], Peer[k], Entry(k)) =>
            Owner(k, caller', At[k], Peer[k], Entry(k))
    BY <1>5, <2>1, <2>3 DEF Owner
  <2>5. QED BY <1>1, <1>2, <1>3, <2>1, <2>2, <2>4, CallerStep
<1>6. CASE conn_already_exists(k)
  <2>1. Entry(k).state # "pending" \/ ~IsLive(Entry(k))
    BY EntryFacts, ConnectionsAssumption DEF Entry
  <2>2. \/ Goto(k, "connected") /\ IsLive(Entry(k))
        \/ Goto(k, "giving up") \/ Goto(k, "starting")
    BY <1>6 DEF conn_already_exists
  <2>3. caller[k].pc # "aborted"
    BY <1>6 DEF conn_already_exists
  <2>4. QED BY <1>5, <2>1, <2>2, <2>3 DEF CallerPc
<1>7. CASE abort(k)
  BY <1>5, <1>7 DEF abort, CallerPc
<1>8. QED BY <1>4, <1>6, <1>7

\* A caller makes the entry that it looks at closed or pending.  No session of that
\* entry runs, and if it is pending the caller owns it.
LEMMA RewriteStep ==
    ASSUME IndInv, NEW k \in Caller, NEW x \in {Closed} \cup {Pending(c) : c \in Nat},
           NEW y \in [pc : CallerPc, cookie : Nat],
           table' = [table EXCEPT ![At[k]][Peer[k]] = x], caller' = [caller EXCEPT ![k] = y],
           UNCHANGED <<sock, jar>>, ~IsLive(Entry(k)),
           cookies' \in [Node -> Nat], \A a \in Node : cookies[a] <= cookies'[a],
           \A c \in Nat : x = Pending(c) => c \in 1..cookies'[At[k]],
           y.cookie <= cookies'[At[k]],
           x.state = "pending" => Owner(k, caller', At[k], Peer[k], x),
           LeftType', dialing' \subseteq Node \X Node \X Nat
    PROVE  IndInv'
<1> DEFINE n == At[k]
           p == Peer[k]
<1>1. Types /\ LiveIsRegistered /\ PendingHasOwner
  BY DEF IndInv
<1>2. n \in Node /\ p \in Node /\ x \in PeerState /\ cookies \in [Node -> Nat]
  BY <1>1, ConnectionsAssumption DEF Types, PeerState
<1>3. /\ table' \in [Node -> [Node -> PeerState]] /\ table'[n][p] = x
      /\ \A a, b \in Node : a # n \/ b # p => table'[a][b] = table[a][b]
  <2>1. table \in [Node -> [Node -> PeerState]]
    BY <1>1 DEF Types, TableType
  <2>2. QED BY <1>2, <2>1
<1>4. /\ SockType' /\ JarType' /\ HandshakeInv' /\ End' = End
      /\ \A e \in End : Pc(e)' = Pc(e) /\ Me(e)' = Me(e) /\ Them(e)' = Them(e)
  BY SocketsStay
<1>5. \A s, role : x # Open(s, role)
  BY EntryKinds
<1>6. CallerType'
  <2>1. CallerType /\ At \in [Caller -> Node]
    BY <1>1, ConnectionsAssumption DEF Types
  <2>2. caller' \in [Caller -> [pc : CallerPc, cookie : Nat]]
    BY <2>1 DEF CallerType
  <2>3. ASSUME NEW i \in Caller PROVE caller'[i].cookie <= cookies'[At[i]]
    <3>1. CASE i = k
      BY <2>1, <3>1 DEF CallerType
    <3>2. CASE i # k
      <4>1. caller'[i] = caller[i] /\ caller[i].cookie <= cookies[At[i]]
            /\ caller[i].cookie \in Nat
        BY <2>1, <3>2 DEF CallerType
      <4>2. At[i] \in Node /\ cookies[At[i]] \in Nat /\ cookies'[At[i]] \in Nat
            /\ cookies[At[i]] <= cookies'[At[i]]
        BY <1>2, <2>1
      <4>3. QED BY <4>1, <4>2
    <3>3. QED BY <3>1, <3>2
  <2>4. QED BY <2>2, <2>3 DEF CallerType
<1>7. TableType'
  <2>1. ASSUME NEW a \in Node, NEW b \in Node, NEW c \in Nat, table'[a][b] = Pending(c)
        PROVE  c \in 1..cookies'[a]
    <3>1. CASE a = n /\ b = p
      BY <1>3, <2>1, <3>1
    <3>2. CASE a # n \/ b # p
      <4>1. c \in 1..cookies[a] /\ cookies[a] \in Nat /\ cookies'[a] \in Nat
            /\ cookies[a] <= cookies'[a]
        BY <1>1, <1>2, <1>3, <2>1, <3>2 DEF Types, TableType
      <4>2. QED BY <4>1
    <3>3. QED BY <3>1, <3>2
  <2>2. ASSUME NEW a \in Node, NEW b \in Node, NEW s \in Nat, NEW role \in Role,
               table'[a][b] = Open(s, role)
        PROVE  s \in DOMAIN sock' /\ Me(<<s, role>>)' = a /\ Them(<<s, role>>)' = b
    <3>1. table[a][b] = Open(s, role)
      BY <1>3, <1>5, <2>2
    <3>2. s \in DOMAIN sock /\ Me(<<s, role>>) = a /\ Them(<<s, role>>) = b
      BY <1>1, <2>2, <3>1 DEF Types, TableType
    <3>3. <<s, role>> \in End
      BY <1>1, <3>2, Ends DEF Types
    <3>4. QED BY <1>4, <3>2, <3>3
  <2>3. QED BY <1>3, <2>1, <2>2 DEF TableType
<1>8. LiveIsRegistered'
  <2>1. ASSUME NEW e \in End, Pc(e) = "run"
        PROVE  table'[Me(e)][Them(e)] = Open(e[1], e[2])
    <3>1. PICK s \in DOMAIN sock, role \in Role : e = <<s, role>>
      BY <1>1, Ends DEF Types
    <3>2. table[Me(e)][Them(e)] = Open(s, role)
      BY <1>1, <2>1, <3>1 DEF LiveIsRegistered
    <3>3. Me(e) \in Node /\ Them(e) \in Node
      BY <1>1, NodesOfEnds DEF Types
    <3>4. IsLive(Open(s, role))
      BY <2>1, <3>1, EntryKinds DEF IsLive
    <3>5. Me(e) # n \/ Them(e) # p
      BY <3>2, <3>4 DEF Entry
    <3>6. QED BY <1>3, <3>1, <3>2, <3>3, <3>5
  <2>2. \A e \in End' : Pc(e)' = "run" => table'[Me(e)'][Them(e)'] = Open(e[1], e[2])
    BY <1>4, <2>1
  <2>3. QED BY <2>2 DEF LiveIsRegistered, Open
<1>9. PendingHasOwner'
  <2>1. SUFFICES ASSUME NEW a \in Node, NEW b \in Node, table'[a][b].state = "pending"
                 PROVE  \E i \in Caller : Owner(i, caller', a, b, table'[a][b])
    BY OwnersNext DEF Owned
  <2>2. CASE a = n /\ b = p
    BY <1>3, <2>1, <2>2
  <2>3. CASE a # n \/ b # p
    <3>1. table'[a][b] = table[a][b]
      BY <1>3, <2>3
    <3>2. PICK i \in Caller : Owner(i, caller, a, b, table[a][b])
      BY <1>1, <2>1, <3>1, Owners DEF Owned
    <3>3. i # k
      BY <2>3, <3>2 DEF Owner
    <3>4. caller'[i] = caller[i]
      BY <1>1, <3>3 DEF Types, CallerType
    <3>5. QED BY <3>1, <3>2, <3>4 DEF Owner
  <2>4. QED BY <2>2, <2>3
<1>10. QED BY <1>4, <1>6, <1>7, <1>8, <1>9 DEF IndInv, Types

\* The owner of a pending entry gives it up, or finds it taken.
LEMMA GivesUpAttempt ==
    ASSUME IndInv, NEW k \in Caller, set_conn_closed_from_pending(k)
    PROVE  IndInv'
<1>1. /\ Types /\ CallerType /\ caller[k] \in [pc : CallerPc, cookie : Nat]
      /\ cookies[At[k]] \in Nat /\ caller[k].cookie <= cookies[At[k]]
      /\ At[k] \in Node /\ Peer[k] \in Node
  BY ConnectionsAssumption DEF IndInv, Types, CallerType
<1> DEFINE y == [caller[k] EXCEPT !.pc = "polling"]
<1>2. y \in [pc : CallerPc, cookie : Nat] /\ y.cookie = caller[k].cookie /\ y.pc = "polling"
  BY <1>1 DEF CallerPc
<1>3. /\ caller' = [caller EXCEPT ![k] = y] /\ caller[k].pc = "giving up"
      /\ UNCHANGED <<cookies, dialing, sock, jar, left>>
  BY DEF set_conn_closed_from_pending, Goto
<1>4. caller'[k] = y
  BY <1>1, <1>3 DEF CallerType
<1> HIDE DEF y
<1>5. LeftType'
  BY <1>1, <1>3, LeftNext DEF Types
<1>6. CASE Entry(k) = Pending(caller[k].cookie)
  <2>1. table' = [table EXCEPT ![At[k]][Peer[k]] = Closed]
    BY <1>6 DEF set_conn_closed_from_pending
  <2>2. ~IsLive(Entry(k))
    BY <1>6, EntryKinds DEF IsLive
  <2>3. \A c \in Nat : Closed # Pending(c)
    BY EntryKinds
  <2>4. Closed.state # "pending"
    BY EntryKinds
  <2>5. cookies' \in [Node -> Nat] /\ \A a \in Node : cookies[a] <= cookies'[a]
    <3>1. cookies' = cookies /\ cookies \in [Node -> Nat]
      BY <1>1, <1>3 DEF Types
    <3>2. \A a \in Node : cookies[a] \in Nat
      BY <3>1
    <3>3. QED BY <3>1, <3>2
  <2>6. y.cookie <= cookies'[At[k]] /\ dialing' \subseteq Node \X Node \X Nat
    BY <1>1, <1>2, <1>3 DEF Types
  <2>7. QED BY <1>2, <1>3, <1>5, <2>1, <2>2, <2>3, <2>4, <2>5, <2>6, RewriteStep
<1>7. CASE Entry(k) # Pending(caller[k].cookie)
  <2>1. UNCHANGED table
    BY <1>7 DEF set_conn_closed_from_pending
  <2>2. Entry(k).state = "pending" /\ Owner(k, caller, At[k], Peer[k], Entry(k)) =>
            Owner(k, caller', At[k], Peer[k], Entry(k))
    BY <1>2, <1>3, <1>4 DEF Owner
  <2>3. QED BY <1>1, <1>2, <1>3, <1>5, <2>1, <2>2, CallerStep
<1>8. QED BY <1>6, <1>7

\* A caller overwrites an entry that is not live by an attempt of its own.
LEMMA MakesAttempt ==
    ASSUME IndInv, NEW k \in Caller, set_conn_pending(k)
    PROVE  IndInv'
<1> DEFINE n == At[k]
           c == cookies[n] + 1
<1>1. /\ Types /\ CallerType /\ LeftType /\ cookies \in [Node -> Nat]
      /\ n \in Node /\ Peer[k] \in Node /\ cookies[n] \in Nat /\ c \in Nat
  BY ConnectionsAssumption DEF IndInv, Types
<1>2. CASE IsLive(Entry(k))
  <2> DEFINE y == [pc |-> "polling", cookie |-> NoCookie]
  <2>1. caller' = [caller EXCEPT ![k] = y]
        /\ UNCHANGED <<table, cookies, dialing, sock, jar, left>>
    BY <1>2 DEF set_conn_pending
  <2>2. y \in [pc : CallerPc, cookie : Nat] /\ y.cookie <= cookies[At[k]]
    <3>1. NoCookie \in Nat /\ NoCookie <= cookies[n]
      BY <1>1 DEF NoCookie
    <3>2. "polling" \in CallerPc
      BY DEF CallerPc
    <3>3. QED BY <3>1, <3>2
  <2>3. LeftType'
    BY <1>1, <2>1, LeftNext
  <2>4. Entry(k).state # "pending"
    BY <1>1, <1>2, EntryFacts DEF Entry
  <2> HIDE DEF y
  <2>5. QED BY <2>1, <2>2, <2>3, <2>4, CallerStep
<1>3. CASE ~IsLive(Entry(k))
  <2> DEFINE y == [pc |-> "polling", cookie |-> c]
  <2>1. /\ Spend("attempts") /\ cookies' = [cookies EXCEPT ![n] = c]
        /\ table' = [table EXCEPT ![n][Peer[k]] = Pending(c)]
        /\ dialing' = dialing \cup {<<n, Peer[k], c>>}
        /\ caller' = [caller EXCEPT ![k] = y] /\ UNCHANGED <<sock, jar>>
    BY <1>3 DEF set_conn_pending
  <2>2. cookies' \in [Node -> Nat] /\ cookies'[n] = c /\ \A a \in Node : cookies[a] <= cookies'[a]
    BY <1>1, <2>1
  <2>3. y \in [pc : CallerPc, cookie : Nat] /\ y.cookie = c /\ y.pc = "polling"
    BY <1>1 DEF CallerPc
  <2>4. caller'[k] = y
    BY <1>1, <2>1 DEF CallerType
  <2>5. Pending(c) \in {Closed} \cup {Pending(i) : i \in Nat}
    BY <1>1
  <2>6. \A i \in Nat : Pending(c) = Pending(i) => i \in 1..cookies'[At[k]]
    <3>1. ASSUME NEW i \in Nat, Pending(c) = Pending(i) PROVE i = c
      <4>1. Pending(c).cookie = c /\ Pending(i).cookie = i
        BY EntryKinds
      <4>2. QED BY <3>1, <4>1
    <3>2. QED BY <1>1, <2>2, <3>1
  <2> HIDE DEF y
  <2>7. Owner(k, caller', At[k], Peer[k], Pending(c))
    <3>1. Pending(c).cookie = c
      BY EntryKinds
    <3>2. QED BY <2>3, <2>4, <3>1 DEF Owner
  <2>8. LeftType'
    <3>1. /\ left' \in [calling : SUBSET Caller, attempts : Nat, timeouts : Nat, losses : Nat,
                        aborts : Nat]
          /\ left'.attempts = left.attempts - 1 /\ left.attempts \in Nat
      BY <1>1, <2>1, SpendFacts DEF LeftType
    <3>2. ASSUME NEW a \in Node PROVE cookies'[a] + left'.attempts <= MaxAttempts
      <4>1. cookies[a] + left.attempts <= MaxAttempts /\ cookies[a] \in Nat
            /\ cookies'[a] \in {cookies[a], cookies[a] + 1} /\ MaxAttempts \in Nat
        BY <1>1, <2>1, ConnectionsAssumption DEF LeftType
      <4>2. QED BY <3>1, <4>1
    <3>3. QED BY <3>1, <3>2 DEF LeftType
  <2>9. dialing' \subseteq Node \X Node \X Nat
    BY <1>1, <2>1 DEF Types
  <2>10. y.cookie <= cookies'[At[k]]
    BY <1>1, <2>2, <2>3
  <2> HIDE DEF c
  <2>11. QED BY <1>3, <2>1, <2>2, <2>3, <2>5, <2>6, <2>7, <2>8, <2>9, <2>10, RewriteStep
<1>4. QED BY <1>2, <1>3

-----------------------------------------------------------------------------
(* Websockets that open, and ends that enter the table. *)

\* The two ends at their places in the next state, when end e has moved to pc.
LEMMA ReturnFacts ==
    ASSUME SockType, NEW s \in DOMAIN sock, NEW role \in Role, NEW pc \in EndPc,
           Return(<<s, role>>, pc)
    PROVE  \E v \in Socket :
              /\ Becomes(s, v) /\ v.server.inbox = sock[s].server.inbox
              /\ v.client.pc = IF role = "client" THEN pc ELSE sock[s].client.pc
              /\ v.server.pc = IF role = "server" THEN pc ELSE sock[s].server.pc
<1>1. CASE role = "client"
  <2>1. PICK v : Turns(s, v, pc, sock[s].server.pc, sock[s].server.inbox)
    BY <1>1, ClientReturns
  <2>2. QED BY <1>1, <2>1 DEF Turns
<1>2. CASE role = "server"
  <2>1. PICK v : Turns(s, v, sock[s].client.pc, pc, sock[s].server.inbox)
    BY <1>2, ServerReturns
  <2>2. QED BY <1>2, <2>1 DEF Turns
<1>3. QED BY <1>1, <1>2 DEF Role

\* The other ends stay where they are.
LEMMA OtherEnds ==
    ASSUME SockType, NEW s \in DOMAIN sock, NEW role \in Role, NEW pc \in EndPc,
           Return(<<s, role>>, pc), NEW e \in End, e # <<s, role>>
    PROVE  Pc(e)' = Pc(e)
<1>1. PICK v \in Socket :
        /\ Becomes(s, v)
        /\ v.client.pc = IF role = "client" THEN pc ELSE sock[s].client.pc
        /\ v.server.pc = IF role = "server" THEN pc ELSE sock[s].server.pc
  BY ReturnFacts
<1>2. /\ SockType' /\ DOMAIN sock' = DOMAIN sock /\ sock'[s] = v
      /\ \A t \in DOMAIN sock : t # s => sock'[t] = sock[t]
  BY <1>1, BecomesFacts
<1>3. PICK t \in DOMAIN sock, r \in Role : e = <<t, r>>
  BY Ends
<1>4. CASE r = "client"
  <2>1. Pc(e)' = sock'[t].client.pc /\ Pc(e) = sock[t].client.pc
    BY <1>2, <1>3, <1>4, Ends, EndsNext
  <2>2. QED BY <1>1, <1>2, <1>3, <1>4, <2>1
<1>5. CASE r = "server"
  <2>1. Pc(e)' = sock'[t].server.pc /\ Pc(e) = sock[t].server.pc
    BY <1>2, <1>3, <1>5, Ends, EndsNext
  <2>2. QED BY <1>1, <1>2, <1>3, <1>5, <2>1
<1>6. QED BY <1>4, <1>5 DEF Role

\* The entry of one node for another becomes an end of a websocket.
Opens(me, them, s, role) == table' = [table EXCEPT ![me][them] = Open(s, role)]

\* The table when an end has entered it.
LEMMA OpensEntry ==
    ASSUME IndInv, NEW me \in Node, NEW them \in Node, NEW s \in Nat, NEW role \in Role,
           Opens(me, them, s, role)
    PROVE  /\ table' \in [Node -> [Node -> PeerState]] /\ table'[me][them] = Open(s, role)
           /\ \A a, b \in Node : a # me \/ b # them => table'[a][b] = table[a][b]
<1>1. PICK y \in PeerState : y = Open(s, role)
  BY DEF PeerState
<1>2. table' = [table EXCEPT ![me][them] = y]
  BY <1>1 DEF Opens
<1>3. /\ table' \in [Node -> [Node -> PeerState]] /\ table'[me][them] = y
      /\ \A a, b \in Node : a # me \/ b # them => table'[a][b] = table[a][b]
  <2>1. table \in [Node -> [Node -> PeerState]]
    BY DEF IndInv, Types, TableType
  <2>2. QED BY <1>2, <2>1
<1>4. QED BY <1>1, <1>3

\* An end enters an entry that is not open, and runs.
LEMMA Enters ==
    ASSUME IndInv, NEW w \in DOMAIN sock, NEW side \in Role, Pc(<<w, side>>) = "enter",
           NEW me \in Node, NEW them \in Node, me = Me(<<w, side>>), them = Them(<<w, side>>),
           table[me][them].state # "open", Return(<<w, side>>, "run"),
           Opens(me, them, w, side),
           UNCHANGED <<cookies, caller, dialing, jar, left>>
    PROVE  IndInv'
<1> DEFINE e == <<w, side>>
<1>1. Types /\ SockType /\ e \in End /\ "run" \in EndPc /\ LiveIsRegistered
  BY Ends DEF IndInv, Types, EndPc
<1>2. PICK v \in Socket :
        /\ Becomes(w, v) /\ v.server.inbox = sock[w].server.inbox
        /\ v.client.pc = IF side = "client" THEN "run" ELSE sock[w].client.pc
        /\ v.server.pc = IF side = "server" THEN "run" ELSE sock[w].server.pc
  BY <1>1, ReturnFacts
<1>3. /\ SockType' /\ DOMAIN sock' = DOMAIN sock /\ sock'[w] = v
      /\ \A t \in DOMAIN sock : t # w => sock'[t] = sock[t]
      /\ \A i \in End : i \in End' /\ Me(i)' = Me(i) /\ Them(i)' = Them(i)
      /\ \A i \in End' : i \in End
  BY <1>1, <1>2, BecomesFacts
<1>4. w \in Nat /\ Open(w, side) \in PeerState
  <2>1. w \in Nat
    BY <1>1, Ends
  <2>2. QED BY <2>1 DEF PeerState
<1>5. /\ table' \in [Node -> [Node -> PeerState]] /\ table'[me][them] = Open(w, side)
      /\ \A a, b \in Node : a # me \/ b # them => table'[a][b] = table[a][b]
  BY <1>4, OpensEntry
<1>6. \A i \in End : i # e => Pc(i)' = Pc(i)
  BY <1>1, OtherEnds
<1>7. TableType'
  <2>1. ASSUME NEW a \in Node, NEW b \in Node, NEW c \in Nat, table'[a][b] = Pending(c)
        PROVE  c \in 1..cookies'[a]
    <3>1. a # me \/ b # them
      BY <1>5, <2>1, EntryKinds
    <3>2. QED BY <1>1, <1>5, <2>1, <3>1 DEF Types, TableType
  <2>2. ASSUME NEW a \in Node, NEW b \in Node, NEW s \in Nat, NEW role \in Role,
               table'[a][b] = Open(s, role)
        PROVE  s \in DOMAIN sock' /\ Me(<<s, role>>)' = a /\ Them(<<s, role>>)' = b
    <3>1. CASE a = me /\ b = them
      <4>1. s = w /\ role = side
        <5>1. Open(s, role) = Open(w, side)
          BY <1>5, <2>2, <3>1
        <5>2. QED BY <5>1, EntryKinds
      <4>2. QED BY <1>1, <1>3, <3>1, <4>1
    <3>2. CASE a # me \/ b # them
      <4>4. table[a][b] = Open(s, role)
        BY <1>5, <2>2, <3>2
      <4>1. s \in DOMAIN sock /\ Me(<<s, role>>) = a /\ Them(<<s, role>>) = b
        BY <1>1, <4>4 DEF Types, TableType
      <4>2. <<s, role>> \in End
        BY <1>1, <4>1, Ends
      <4>3. QED BY <1>3, <4>1, <4>2
    <3>3. QED BY <3>1, <3>2
  <2>3. \A a, b \in Node : \A c \in Nat : table'[a][b] = Pending(c) => c \in 1..cookies'[a]
    BY <2>1
  <2>4. \A a, b \in Node : \A s \in Nat : \A role \in Role : table'[a][b] = Open(s, role) =>
            s \in DOMAIN sock' /\ Me(<<s, role>>)' = a /\ Them(<<s, role>>)' = b
    BY <2>2
  <2>5. QED BY <1>5, <2>3, <2>4 DEF TableType
<1>8. LiveIsRegistered'
  <2>1. ASSUME NEW i \in End, Pc(i)' = "run"
        PROVE  table'[Me(i)][Them(i)] = Open(i[1], i[2])
    <3>1. CASE i = e
      BY <1>5, <3>1
    <3>2. CASE i # e
      <4>1. table[Me(i)][Them(i)] = Open(i[1], i[2])
        BY <1>1, <1>6, <2>1, <3>2 DEF LiveIsRegistered
      <4>2. Me(i) # me \/ Them(i) # them
        BY <4>1, EntryKinds
      <4>3. Me(i) \in Node /\ Them(i) \in Node
        BY <1>1, NodesOfEnds
      <4>4. QED BY <1>5, <4>1, <4>2, <4>3
    <3>3. QED BY <3>1, <3>2
  <2>2. \A i \in End' : Pc(i)' = "run" => table'[Me(i)'][Them(i)'] = Open(i[1], i[2])
    BY <1>3, <2>1
  <2>3. QED BY <2>2 DEF LiveIsRegistered, Open
<1>9. PendingHasOwner'
  <2>1. SUFFICES ASSUME NEW a \in Node, NEW b \in Node, table'[a][b].state = "pending"
                 PROVE  \E k \in Caller : Owner(k, caller', a, b, table'[a][b])
    BY OwnersNext DEF Owned
  <2>2. a # me \/ b # them
    BY <1>5, <2>1, EntryKinds
  <2>3. table'[a][b] = table[a][b]
    BY <1>5, <2>2
  <2>4. PICK k \in Caller : Owner(k, caller, a, b, table[a][b])
    BY <2>1, <2>3, Owners DEF IndInv, Owned
  <2>5. QED BY <2>3, <2>4 DEF Owner
<1>10. HandshakeInv'
  <2>1. Safe(w, v, jar)
    <3>1. Safe(w, sock[w], jar) /\ v.client.node = sock[w].client.node
      BY <1>2 DEF IndInv, HandshakeInv, Becomes
    <3>2. HasCookie(v) => HasCookie(sock[w])
      BY <1>2 DEF HasCookie
    <3>3. CASE side = "client"
      <4>1. sock[w].client.pc = "enter"
        BY <1>1, <3>3, Ends
      <4>2. QED BY <1>2, <3>1, <3>2, <3>3, <4>1 DEF Safe
    <3>4. CASE side = "server"
      <4>1. sock[w].server.pc = "enter"
        BY <1>1, <3>4, Ends
      <4>2. QED BY <1>2, <3>1, <3>2, <3>4, <4>1 DEF Safe
    <3>5. QED BY <3>3, <3>4 DEF Role
  <2>2. \A t \in DOMAIN sock' : Safe(t, sock'[t], jar')
    BY <1>3, <2>1 DEF IndInv, HandshakeInv, Safe
  <2>3. QED BY <2>2 DEF HandshakeInv, Safe, HasCookie, Over
<1>11. JarType' /\ LeftType' /\ CallerType'
  BY <1>1, <1>3 DEF Types, JarType, LeftType, CallerType
<1>12. QED BY <1>1, <1>3, <1>7, <1>8, <1>9, <1>10, <1>11 DEF IndInv, Types

\* An end that would enter the table enters it or is refused (set_conn_open_prob).
LEMMA OpenProb ==
    ASSUME IndInv, NEW e \in End, set_conn_open_prob(e)
    PROVE  IndInv'
<1>1. SockType /\ Pc(e) = "enter"
  BY DEF IndInv, Types, set_conn_open_prob
<1>2. LeftType'
  BY LeftNext DEF IndInv, Types, set_conn_open_prob
<1>3. CASE table[Me(e)][Them(e)].state = "open" \/ Me(e) = Them(e)
  BY <1>1, <1>2, <1>3, EndReturns DEF set_conn_open_prob
<1>4. CASE ~(table[Me(e)][Them(e)].state = "open" \/ Me(e) = Them(e))
  <2>1. PICK s \in DOMAIN sock, role \in Role : e = <<s, role>>
    BY <1>1, Ends
  <2>2. PICK n \in Node, p \in Node : n = Me(e) /\ p = Them(e)
    BY <1>1, NodesOfEnds
  <2>3. /\ table[n][p].state # "open" /\ Return(<<s, role>>, "run")
        /\ Opens(n, p, s, role)
        /\ UNCHANGED <<cookies, caller, dialing, jar, left>>
    BY <1>4, <2>1, <2>2 DEF set_conn_open_prob, Opens
  <2>4. QED BY <1>1, <2>1, <2>2, <2>3, Enters
<1>5. QED BY <1>3, <1>4

\* A websocket that opens is at the beginning of its handshake.
LEMMA Connects ==
    ASSUME IndInv, NEW j \in dialing, connect(j)
    PROVE  IndInv'
<1> DEFINE new == [client |-> [node |-> j[1], pc |-> "hello", inbox |-> <<>>],
                   server |-> [node |-> j[2], pc |-> "name", inbox |-> <<>>],
                   cookie |-> j[3], up |-> TRUE]
           l == Len(sock) + 1
<1>1. Types /\ SockType /\ LiveIsRegistered /\ DOMAIN sock = 1..Len(sock) /\ Len(sock) \in Nat
  BY Ends DEF IndInv, Types
<1>2. j[1] \in Node /\ j[2] \in Node /\ j[3] \in Nat
  BY <1>1 DEF Types
<1>3. new \in Socket
  BY <1>2 DEF Socket, Side, EndPc
<1>4. /\ new.client.pc = "hello" /\ new.server.pc = "name" /\ new.server.inbox = <<>>
  OBVIOUS
<1>5. sock' = Append(sock, new) /\ UNCHANGED <<table, cookies, caller, jar, left>>
  BY DEF connect
<1> HIDE DEF new
<1>6. /\ SockType' /\ DOMAIN sock' = 1..l /\ sock'[l] = new
      /\ \A s \in DOMAIN sock : s \in DOMAIN sock' /\ sock'[s] = sock[s]
  BY <1>1, <1>3, <1>5 DEF SockType
<1>7. ASSUME NEW e \in End PROVE e \in End' /\ Pc(e)' = Pc(e) /\ Me(e)' = Me(e) /\ Them(e)' = Them(e)
  <2>1. PICK s \in DOMAIN sock, role \in Role : e = <<s, role>>
    BY <1>1, Ends
  <2>5. s \in DOMAIN sock' /\ sock'[s] = sock[s]
    BY <1>6
  <2>6. e \in End'
    BY <1>6, <2>1, <2>5, EndsNext
  <2>2. CASE role = "client"
    <3>1. /\ Pc(e) = sock[s].client.pc /\ Me(e) = sock[s].client.node
          /\ Them(e) = sock[s].server.node
      BY <1>1, <2>1, <2>2, Ends
    <3>2. /\ Pc(e)' = sock'[s].client.pc /\ Me(e)' = sock'[s].client.node
          /\ Them(e)' = sock'[s].server.node
      BY <1>6, <2>1, <2>2, <2>5, EndsNext
    <3>3. QED BY <2>5, <2>6, <3>1, <3>2
  <2>3. CASE role = "server"
    <3>1. /\ Pc(e) = sock[s].server.pc /\ Me(e) = sock[s].server.node
          /\ Them(e) = sock[s].client.node
      BY <1>1, <2>1, <2>3, Ends
    <3>2. /\ Pc(e)' = sock'[s].server.pc /\ Me(e)' = sock'[s].server.node
          /\ Them(e)' = sock'[s].client.node
      BY <1>6, <2>1, <2>3, <2>5, EndsNext
    <3>3. QED BY <2>5, <2>6, <3>1, <3>2
  <2>4. QED BY <2>2, <2>3 DEF Role
<1>8. ASSUME NEW e \in End', e \notin End PROVE Pc(e)' # "run"
  <2>1. PICK s \in DOMAIN sock', role \in Role : e = <<s, role>>
    BY <1>6, EndsNext
  <2>2. s = l
    <3>1. s \notin DOMAIN sock
      BY <1>1, <1>8, <2>1, Ends
    <3>2. QED BY <1>1, <1>6, <3>1
  <2>3. CASE role = "client"
    <3>1. Pc(e)' = sock'[s].client.pc
      BY <1>6, <2>1, <2>3, EndsNext
    <3>2. QED BY <1>4, <1>6, <2>2, <3>1
  <2>4. CASE role = "server"
    <3>1. Pc(e)' = sock'[s].server.pc
      BY <1>6, <2>1, <2>4, EndsNext
    <3>2. QED BY <1>4, <1>6, <2>2, <3>1
  <2>5. QED BY <2>3, <2>4 DEF Role
<1>9. TableType'
  <2>1. ASSUME NEW a \in Node, NEW b \in Node, NEW s \in Nat, NEW role \in Role,
               table[a][b] = Open(s, role)
        PROVE  s \in DOMAIN sock' /\ Me(<<s, role>>)' = a /\ Them(<<s, role>>)' = b
    <3>1. s \in DOMAIN sock /\ Me(<<s, role>>) = a /\ Them(<<s, role>>) = b
      BY <1>1, <2>1 DEF Types, TableType
    <3>2. <<s, role>> \in End
      BY <1>1, <3>1, Ends
    <3>3. QED BY <1>6, <1>7, <3>1, <3>2
  <2>2. QED BY <1>1, <1>5, <2>1 DEF Types, TableType
<1>10. LiveIsRegistered'
  <2>1. \A e \in End' : Pc(e)' = "run" => table'[Me(e)'][Them(e)'] = Open(e[1], e[2])
    BY <1>1, <1>5, <1>7, <1>8 DEF LiveIsRegistered
  <2>2. QED BY <2>1 DEF LiveIsRegistered, Open
<1>11. PendingHasOwner'
  <2>1. \A n, p \in Node : Owned(n, p, table[n][p], caller)
    BY Owners DEF IndInv
  <2>2. QED BY <1>5, <2>1, OwnersNext
<1>12. HandshakeInv'
  <2>1. Safe(l, new, jar)
    BY <1>4 DEF Safe, HasCookie
  <2>2. ASSUME NEW s \in DOMAIN sock' PROVE Safe(s, sock'[s], jar')
    <3>1. CASE s = l
      BY <1>5, <1>6, <2>1, <3>1 DEF Safe
    <3>2. CASE s # l
      <4>1. s \in DOMAIN sock
        BY <1>1, <1>6, <3>2
      <4>2. Safe(s, sock[s], jar)
        BY <4>1 DEF IndInv, HandshakeInv
      <4>3. QED BY <1>5, <1>6, <4>1, <4>2 DEF Safe
    <3>3. QED BY <3>1, <3>2
  <2>3. QED BY <2>2 DEF HandshakeInv, Safe, HasCookie, Over
<1>13. JarType' /\ LeftType' /\ CallerType'
  <2>1. DOMAIN sock \subseteq DOMAIN sock'
    BY <1>6
  <2>2. QED BY <1>1, <1>5, <2>1 DEF Types, JarType, LeftType, CallerType
<1>14. dialing' \subseteq Node \X Node \X Nat /\ cookies' \in [Node -> Nat]
  BY <1>1, <1>5 DEF Types, connect
<1>15. QED BY <1>6, <1>9, <1>10, <1>11, <1>12, <1>13, <1>14 DEF IndInv, Types

-----------------------------------------------------------------------------
(* The invariant and the results. *)

\* A step of either end of a websocket.
LEMMA HandshakeNext ==
    ASSUME IndInv, NEW s \in DOMAIN sock, Handshake(s)
    PROVE  IndInv'
<1>1. <<s, "client">> \in End /\ <<s, "server">> \in End
  BY DEF End
<1>2. ASSUME NEW e \in End, set_conn_open_prob(e) \/ socket_closed(e) PROVE IndInv'
  BY <1>2, OpenProb, GivesUp
<1>3. CASE cookie_channel_dropped(<<s, "client">>)
  BY <1>1, <1>3, GivesUp
<1>4. QED
  BY <1>1, <1>2, <1>3, ClientSendsName, ClientAcknowledges, ClientSendsCookie,
     ServerSendsChallenge, ServerAcknowledged, Authenticate, ServerChecksCookie DEF Handshake

\* Every step keeps the invariant.
LEMMA IndInvNext == IndInv /\ [Next]_vars => IndInv'
<1>1. SUFFICES ASSUME IndInv, [Next]_vars PROVE IndInv'
  OBVIOUS
<1>2. ASSUME NEW k \in Caller, get_conn(k) \/ GetConn(k) \/ abort(k) PROVE IndInv'
  BY <1>1, <1>2, CallerGoesOn, GivesUpAttempt, MakesAttempt DEF GetConn
<1>3. ASSUME NEW j \in dialing, connect(j) PROVE IndInv'
  BY <1>1, <1>3, Connects
<1>4. ASSUME NEW s \in DOMAIN sock, Handshake(s) \/ lose_connection(s) PROVE IndInv'
  BY <1>1, <1>4, HandshakeNext, LoseConnection
<1>5. ASSUME NEW e \in End, handshake_timeout(e) PROVE IndInv'
  BY <1>1, <1>5, GivesUp
<1>6. CASE UNCHANGED vars
  <2>1. /\ SockType' /\ JarType' /\ HandshakeInv' /\ End' = End
        /\ \A e \in End : Pc(e)' = Pc(e) /\ Me(e)' = Me(e) /\ Them(e)' = Them(e)
    BY <1>1, <1>6, SocketsStay DEF vars
  <2>2. Types /\ LiveIsRegistered /\ SockType
    BY <1>1 DEF IndInv, Types
  <2>3. TableType'
    <3>1. ASSUME NEW n \in Node, NEW p \in Node, NEW s \in Nat, NEW role \in Role,
                 table[n][p] = Open(s, role)
          PROVE  s \in DOMAIN sock' /\ Me(<<s, role>>)' = n /\ Them(<<s, role>>)' = p
      <4>1. s \in DOMAIN sock /\ Me(<<s, role>>) = n /\ Them(<<s, role>>) = p
        BY <2>2, <3>1 DEF Types, TableType
      <4>2. <<s, role>> \in End
        BY <2>2, <4>1, Ends
      <4>3. QED BY <1>6, <2>1, <4>1, <4>2 DEF vars
    <3>2. QED BY <1>6, <2>2, <3>1 DEF Types, TableType, vars
  <2>4. LiveIsRegistered'
    <3>1. \A e \in End' : Pc(e)' = "run" => table'[Me(e)'][Them(e)'] = Open(e[1], e[2])
      BY <1>6, <2>1, <2>2 DEF LiveIsRegistered, vars
    <3>2. QED BY <3>1 DEF LiveIsRegistered, Open
  <2>5. PendingHasOwner'
    <3>1. \A n, p \in Node : Owned(n, p, table[n][p], caller)
      BY <1>1, Owners DEF IndInv
    <3>2. QED BY <1>6, <3>1, OwnersNext DEF vars
  <2>6. QED BY <1>6, <2>1, <2>2, <2>3, <2>4, <2>5 DEF IndInv, Types, LeftType, CallerType, vars
<1>7. QED BY <1>1, <1>2, <1>3, <1>4, <1>5, <1>6 DEF Next

\* The invariant holds in every reachable state.
LEMMA Invariance == Spec => []IndInv
BY IndInvInit, IndInvNext, PTL DEF Spec

\* Every entry of the table is closed, an attempt whose cookie was handed out, or an
\* end of a websocket between the two nodes; a running session is the one that the
\* table names; and a pending attempt has a caller that gives it up (set_conn_open_prob,
\* set_conn_pending, set_conn_closed_from_pending).
THEOREM TableIsSoundAlways == Spec => []TableIsSound
<1>1. IndInv => TableIsSound
  <2>1. SUFFICES ASSUME IndInv PROVE TableIsSound
    OBVIOUS
  <2>2. Types /\ SockType /\ LeftType /\ TableType /\ JarType /\ CallerType
        /\ cookies \in [Node -> Nat]
    BY <2>1 DEF IndInv, Types
  <2>3. ASSUME NEW n \in Node, NEW p \in Node
        PROVE  \/ table[n][p] = Closed
               \/ \E c \in 1..cookies[n] : table[n][p] = Pending(c)
               \/ \E e \in End : table[n][p] = Open(e[1], e[2]) /\ Me(e) = n /\ Them(e) = p
    <3>1. table[n][p] \in PeerState
      BY <2>2 DEF TableType
    <3>2. ASSUME NEW c \in Nat, table[n][p] = Pending(c)
          PROVE  \E i \in 1..cookies[n] : table[n][p] = Pending(i)
      BY <2>2, <3>2 DEF TableType
    <3>3. ASSUME NEW s \in Nat, NEW role \in Role, table[n][p] = Open(s, role)
          PROVE  \E e \in End : table[n][p] = Open(e[1], e[2]) /\ Me(e) = n /\ Them(e) = p
      <4>1. <<s, role>> \in End /\ Me(<<s, role>>) = n /\ Them(<<s, role>>) = p
        BY <2>2, <3>3, Ends DEF TableType
      <4>2. QED BY <3>3, <4>1
    <3>4. QED BY <3>1, <3>2, <3>3 DEF PeerState
  <2>4. cookies \in [Node -> {NoCookie} \cup Attempt]
    <3>1. ASSUME NEW n \in Node PROVE cookies[n] \in {NoCookie} \cup Attempt
      <4>1. cookies[n] + left.attempts <= MaxAttempts /\ cookies[n] \in Nat /\ left.attempts \in Nat
        BY <2>2 DEF LeftType
      <4>2. QED BY <4>1, ConnectionsAssumption DEF NoCookie, Attempt
    <3>2. QED BY <2>2, <3>1
  <2>5. \A k \in Caller : caller[k].cookie \in 0..cookies[At[k]]
    <3>1. ASSUME NEW k \in Caller PROVE caller[k].cookie \in 0..cookies[At[k]]
      <4>1. caller[k].cookie \in Nat /\ caller[k].cookie <= cookies[At[k]] /\ cookies[At[k]] \in Nat
        BY <2>2, ConnectionsAssumption DEF CallerType
      <4>2. QED BY <4>1
    <3>2. QED BY <3>1
  <2>6. TypeOK
    BY <2>2, <2>3, <2>4, <2>5 DEF TypeOK, JarType
  <2>7. QED BY <2>1, <2>6 DEF TableIsSound, IndInv
<1>2. QED BY <1>1, Invariance, PTL

\* A server serves a peer only after the peer's own node has let the client of this
\* websocket learn the secret, and no jar outgrows its limit by more than one
\* (handshake_protocol_server, expect_a_cookie).
THEOREM ServedIsAuthenticAlways == Spec => []ServedIsAuthentic
<1>1. IndInv => ServedIsAuthentic
  <2>1. SUFFICES ASSUME IndInv PROVE ServedIsAuthentic
    OBVIOUS
  <2>2. \A s \in DOMAIN sock : Safe(s, sock[s], jar)
    BY <2>1 DEF IndInv, HandshakeInv
  <2>3. \A n \in Node : Cardinality(jar[n]) <= JarSize + 1
    BY <2>1 DEF IndInv, Types, JarType
  <2>4. QED BY <2>2, <2>3 DEF ServedIsAuthentic, Safe
<1>2. QED BY <1>1, Invariance, PTL
=============================================================================
