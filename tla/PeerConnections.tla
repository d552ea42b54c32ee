---------------------------- MODULE PeerConnections ----------------------------
(***************************************************************************)
(* Who is connected to whom: the connection table of the attestation client *)
(* (common/attest/src/attestations/client/connection_creation.rs), the      *)
(* handshake both ends of a websocket run before they enter the table       *)
(* (server/protocol/authentication_handshake.rs) and the jar of challenges  *)
(* it uses (GlobalSocketState in server/protocol.rs).                       *)
(*                                                                          *)
(* A caller is a task that calls get_conn again and again.  A call that     *)
(* finds no connection makes the entry pending under a new cookie and       *)
(* spawns a job, which opens a websocket, shakes hands as the client and    *)
(* runs the session of SocketProtocol; the peer's end of the websocket does *)
(* the same as the server.  Each read and each write of the table, each     *)
(* message and each end of a session is a step.                             *)
(*                                                                          *)
(* A challenge is named by its websocket: challenges are random.  A timeout *)
(* is a step that may be taken while the end waits under it.                *)
(***************************************************************************)
EXTENDS Integers, Sequences, FiniteSets, SequencesExt

CONSTANTS
    Node,
    Caller,
    At,             \* caller -> its node
    Peer,           \* caller -> the node it wants to talk to
    JarSize,        \* the jar is cleaned up when it holds more challenges
    MaxAttempts,    \* bound: the attempts of a scenario
    Scenario        \* who calls, and how many attempts are made, handshakes time
                    \* out, websockets are lost and callers aborted

ASSUME ConnectionsAssumption ==
    /\ At \in [Caller -> Node] /\ Peer \in [Caller -> Node]
    /\ JarSize \in Nat /\ MaxAttempts \in Nat
    /\ Scenario \subseteq [calling : SUBSET Caller, attempts : 0..MaxAttempts, timeouts : Nat,
                           losses : Nat, aborts : Nat]

VARIABLES
    table,      \* node -> peer -> PeerState (connections)
    cookies,    \* node -> the last cookie handed out (PENDING_COOKIE)
    caller,     \* caller -> where its get_conn is, and its cookie
    dialing,    \* the jobs that have no socket yet: <<node, peer, cookie>>
    sock,       \* the websockets, in the order they were opened
    jar,        \* node -> the challenges it expects a cookie for
    left        \* what the scenario still lets happen

vars == <<table, cookies, caller, dialing, sock, jar, left>>

NoCookie == 0
Attempt == 1..MaxAttempts
Closed == [state |-> "closed"]      \* also a service with no entry
Pending(c) == [state |-> "pending", cookie |-> c]
Open(s, role) == [state |-> "open", sock |-> s, role |-> role]

\* The ends of a websocket
End == {<<s, role>> : s \in DOMAIN sock, role \in {"client", "server"}}
Pc(e) == sock[e[1]][e[2]].pc
Me(e) == sock[e[1]][e[2]].node
Other(e) == <<e[1], IF e[2] = "client" THEN "server" ELSE "client">>
Them(e) == Me(Other(e))

Over == {"ended", "refused"}

\* ProtocolChan::is_closed: the session dropped its receivers.
IsLive(entry) ==
    entry.state = "open" /\ Pc(<<entry.sock, entry.role>>) = "run"

-----------------------------------------------------------------------------
(* get_conn *)

Init ==
    /\ table = [n \in Node |-> [p \in Node |-> Closed]]
    /\ cookies = [n \in Node |-> NoCookie]
    /\ left \in Scenario
    /\ caller = [k \in Caller |-> [pc |-> IF k \in left.calling THEN "idle" ELSE "absent",
                                   cookie |-> NoCookie]]
    /\ dialing = {}
    /\ sock = <<>>
    /\ jar = [n \in Node |-> {}]

Spend(fault) == left[fault] > 0 /\ left' = [left EXCEPT ![fault] = @ - 1]

Entry(k) == table[At[k]][Peer[k]]

Goto(k, pc) == caller' = [caller EXCEPT ![k].pc = pc]

\* The jobs of a node that have not returned
JobRuns(n, cookie) ==
    \/ \E j \in dialing : j[1] = n /\ j[3] = cookie
    \/ \E s \in DOMAIN sock : /\ sock[s].client.node = n
                              /\ sock[s].cookie = cookie
                              /\ sock[s].client.pc \notin Over

\* A new call; it knows no cookie and no job of earlier calls.
get_conn(k) ==
    /\ caller[k].pc \in {"idle", "connected"}
    /\ caller' = [caller EXCEPT ![k] = [pc |-> "polling", cookie |-> NoCookie]]
    /\ UNCHANGED <<table, cookies, dialing, sock, jar, left>>

\* conn_already_exists, and what the loop does next
conn_already_exists(k) ==
    /\ caller[k].pc = "polling"
    /\ \/ IsLive(Entry(k)) /\ Goto(k, "connected")
       \/ /\ Entry(k).state = "pending"
          /\ Entry(k).cookie = caller[k].cookie
          /\ ~JobRuns(At[k], caller[k].cookie)
          /\ Goto(k, "giving up")
       \/ ~IsLive(Entry(k)) /\ Entry(k).state # "pending" /\ Goto(k, "starting")
    /\ UNCHANGED <<table, cookies, dialing, sock, jar, left>>

set_conn_closed_from_pending_never(k) ==
    /\ caller[k].pc = "giving up"
    /\ Goto(k, "polling")
    /\ UNCHANGED <<table, cookies, dialing, sock, jar, left>>

set_conn_closed_from_pending(k) ==
    /\ caller[k].pc = "giving up"
    /\ table' = IF Entry(k) = Pending(caller[k].cookie)
                THEN [table EXCEPT ![At[k]][Peer[k]] = Closed] ELSE table
    /\ Goto(k, "polling")
    /\ UNCHANGED <<cookies, dialing, sock, jar, left>>

set_conn_pending_old_cookie(k) ==
    LET n == At[k]
        c == cookies[n] + 1
    IN /\ caller[k].pc = "starting"
       /\ Spend("attempts")
       /\ cookies' = [cookies EXCEPT ![n] = c]
       /\ table' = [table EXCEPT ![n][Peer[k]] = Pending(c)]
       /\ dialing' = dialing \cup {<<n, Peer[k], c>>}
       /\ caller' = [caller EXCEPT ![k] = [pc |-> "polling", cookie |-> c - 1]]
       /\ UNCHANGED <<sock, jar>>

\* After a random delay, with force: it overwrites another call's attempt, but
\* not a connection.  The job is spawned in the same breath.
set_conn_pending(k) ==
    LET n == At[k]
        c == cookies[n] + 1
    IN /\ caller[k].pc = "starting"
       /\ IF IsLive(Entry(k))
          THEN /\ caller' = [caller EXCEPT ![k] = [pc |-> "polling", cookie |-> NoCookie]]
               /\ UNCHANGED <<table, cookies, dialing, left>>
          ELSE /\ Spend("attempts")
               /\ cookies' = [cookies EXCEPT ![n] = c]
               /\ table' = [table EXCEPT ![n][Peer[k]] = Pending(c)]
               /\ dialing' = dialing \cup {<<n, Peer[k], c>>}
               /\ caller' = [caller EXCEPT ![k] = [pc |-> "polling", cookie |-> c]]
       /\ UNCHANGED <<sock, jar>>

\* The task that called is aborted (by peer_services, or by its sibling in
\* fetch_peer and push_peer); the job it spawned goes on.
abort(k) ==
    /\ caller[k].pc \notin {"idle", "absent", "aborted"}
    /\ Spend("aborts")
    /\ Goto(k, "aborted")
    /\ UNCHANGED <<table, cookies, dialing, sock, jar>>

\* The job's loop ends when the websocket is open.
connect(j) ==
    /\ dialing' = dialing \ {j}
    /\ sock' = Append(sock,
            [client |-> [node |-> j[1], pc |-> "hello", inbox |-> <<>>],
             server |-> [node |-> j[2], pc |-> "name", inbox |-> <<>>],
             cookie |-> j[3], up |-> TRUE])
    /\ UNCHANGED <<table, cookies, caller, jar, left>>

-----------------------------------------------------------------------------
(* The handshake *)

\* End e goes to pc and sends msg; what is sent to an end that has returned,
\* or over a lost websocket, is lost.
Send(e, pc, msg) ==
    sock' = [sock EXCEPT ![e[1]][e[2]].pc = pc, ![e[1]][Other(e)[2]].inbox =
                IF sock[e[1]].up THEN Append(@, msg) ELSE @]

\* End e takes the message it waits for and goes to pc, with or without an answer.
Receives(e, pc, msg) ==
    Pc(e) = pc /\ sock[e[1]][e[2]].inbox # <<>> /\ Head(sock[e[1]][e[2]].inbox) = msg
Take(e, pc) ==
    sock' = [sock EXCEPT ![e[1]][e[2]].pc = pc, ![e[1]][e[2]].inbox = Tail(@)]
Answer(e, pc, msg) ==
    sock' = [sock EXCEPT ![e[1]][e[2]].pc = pc, ![e[1]][e[2]].inbox = Tail(@),
                ![e[1]][Other(e)[2]].inbox = IF sock[e[1]].up THEN Append(@, msg) ELSE @]

client_sends_name(e) ==
    /\ Pc(e) = "hello"
    /\ Send(e, "hash", "name")
    /\ UNCHANGED <<table, cookies, caller, dialing, jar, left>>

server_sends_challenge(e) ==
    /\ Receives(e, "name", "name")
    /\ Answer(e, "ack", "hash")
    /\ UNCHANGED <<table, cookies, caller, dialing, jar, left>>

expect_a_cookie_not_cleaned(n, challenge, kept) ==
    /\ kept = jar[n]
    /\ jar' = [jar EXCEPT ![n] = kept \cup {challenge}]

\* A full jar loses its stale challenges, which may be any, and if it is still
\* full one more.
expect_a_cookie(n, challenge, kept) ==
    /\ kept \subseteq jar[n]
    /\ IF Cardinality(jar[n]) > JarSize THEN Cardinality(kept) <= JarSize
       ELSE kept = jar[n]
    /\ jar' = [jar EXCEPT ![n] = kept \cup {challenge}]

client_acknowledges(e) ==
    /\ Receives(e, "hash", "hash")
    /\ \E kept \in SUBSET jar[Me(e)] : expect_a_cookie(Me(e), e[1], kept)
    /\ Answer(e, "secret", "ack")
    /\ UNCHANGED <<table, cookies, caller, dialing, left>>

server_acknowledged(e) ==
    /\ Receives(e, "ack", "ack")
    /\ Take(e, "authenticate")
    /\ UNCHANGED <<table, cookies, caller, dialing, jar, left>>

authenticate_unasked(e) ==
    /\ Pc(e) = "authenticate"
    /\ jar' = [jar EXCEPT ![Them(e)] = @ \ {e[1]}]
    /\ sock' = [sock EXCEPT ![e[1]].server.pc = "enter",
                   ![e[1]].client.pc = IF e[1] \in jar[Them(e)] /\ @ = "secret"
                                       THEN "learned" ELSE @]
    /\ UNCHANGED <<table, cookies, caller, dialing, left>>

\* The POST of the secret to the node the client claims to be, whose jar
\* (add_a_cookie) hands it to the session that waits for it, if one does.
authenticate(e) ==
    LET c == <<e[1], "client">>
    IN /\ Pc(e) = "authenticate"
       /\ jar' = [jar EXCEPT ![Them(e)] = @ \ {e[1]}]
       /\ sock' = [sock EXCEPT ![e[1]].server.pc = "response",
                      ![e[1]].client.pc = IF e[1] \in jar[Them(e)] /\ @ = "secret"
                                          THEN "learned" ELSE @]
       /\ UNCHANGED <<table, cookies, caller, dialing, left>>

client_sends_cookie(e) ==
    /\ Pc(e) = "learned"
    /\ Send(e, "enter", "cookie")
    /\ UNCHANGED <<table, cookies, caller, dialing, jar, left>>

server_checks_cookie(e) ==
    /\ Receives(e, "response", "cookie")
    /\ Take(e, "enter")
    /\ UNCHANGED <<table, cookies, caller, dialing, jar, left>>

Return(e, pc) == sock' = [sock EXCEPT ![e[1]][e[2]].pc = pc]

\* 60 s for the secret, and 60 s for its return; the POST may fail, too.  When
\* the other end is gone the timer is all there is left to wait for.
IsHopeless(e) == Pc(Other(e)) \in Over \/ ~sock[e[1]].up

handshake_timeout(e) ==
    /\ Pc(e) \in {"secret", "authenticate", "response"}
    /\ Return(e, "ended")
    /\ \/ IsHopeless(e) /\ UNCHANGED left
       \/ Spend("timeouts")
    /\ UNCHANGED <<table, cookies, caller, dialing, jar>>

\* The jar dropped the sender of the secret.
cookie_channel_dropped(e) ==
    /\ Pc(e) = "secret" /\ e[1] \notin jar[Me(e)]
    /\ Return(e, "ended")
    /\ UNCHANGED <<table, cookies, caller, dialing, jar, left>>

-----------------------------------------------------------------------------
(* The session *)

set_conn_open_prob_replace(e) ==
    /\ Pc(e) = "enter"
    /\ Return(e, "run")
    /\ table' = [table EXCEPT ![Me(e)][Them(e)] = Open(e[1], e[2])]
    /\ UNCHANGED <<cookies, caller, dialing, jar, left>>

set_conn_open_prob_swapped(e) ==
    /\ Pc(e) = "enter"
    /\ IF table[Me(e)][Them(e)].state = "open" \/ Me(e) = Them(e)
       THEN Return(e, "refused") /\ UNCHANGED table
       ELSE /\ Return(e, "run")
            /\ table' = [table EXCEPT ![Them(e)][Me(e)] = Open(e[1], e[2])]
    /\ UNCHANGED <<cookies, caller, dialing, jar, left>>

\* An end enters the table over an entry that is closed or pending.  It is
\* refused by one that is open, whether its session lives or not, and by
\* preferred_role if the peer has its own name.
set_conn_open_prob(e) ==
    /\ Pc(e) = "enter"
    /\ IF table[Me(e)][Them(e)].state = "open" \/ Me(e) = Them(e)
       THEN Return(e, "refused") /\ UNCHANGED table
       ELSE /\ Return(e, "run")
            /\ table' = [table EXCEPT ![Me(e)][Them(e)] = Open(e[1], e[2])]
    /\ UNCHANGED <<cookies, caller, dialing, jar, left>>

\* An end that reads, after the messages before, the end of the stream: the
\* other end returned, or the network lost the websocket.  Ends that wait for
\* the secret or for the POST do not read.
socket_closed(e) ==
    /\ Pc(e) \in {"hash", "name", "ack", "response", "run"}
    /\ Pc(Other(e)) \in Over \/ ~sock[e[1]].up
    /\ sock[e[1]][e[2]].inbox = <<>>
    /\ Return(e, "ended")
    /\ UNCHANGED <<table, cookies, caller, dialing, jar, left>>

lose_connection(s) ==
    /\ sock[s].up
    /\ Spend("losses")
    /\ sock' = [sock EXCEPT ![s].up = FALSE, ![s].client.inbox = <<>>,
                            ![s].server.inbox = <<>>]
    /\ UNCHANGED <<table, cookies, caller, dialing, jar>>

-----------------------------------------------------------------------------
Handshake(s) ==
    LET c == <<s, "client">>
        v == <<s, "server">>
    IN \/ client_sends_name(c) \/ client_acknowledges(c) \/ client_sends_cookie(c)
       \/ cookie_channel_dropped(c)
       \/ server_sends_challenge(v) \/ server_acknowledged(v)
       \/ authenticate(v) \/ server_checks_cookie(v)
       \/ \E e \in {c, v} : set_conn_open_prob(e) \/ socket_closed(e)

GetConn(k) ==
    conn_already_exists(k) \/ set_conn_closed_from_pending(k) \/ set_conn_pending(k)

Next ==
    \/ \E k \in Caller : get_conn(k) \/ GetConn(k) \/ abort(k)
    \/ \E j \in dialing : connect(j)
    \/ \E s \in DOMAIN sock : Handshake(s) \/ lose_connection(s)
    \/ \E e \in End : handshake_timeout(e)

\* Tasks run when they can, and a peer that is dialed again and again answers;
\* nothing has to call, to time out, to be lost or to be aborted.
Fairness ==
    /\ \A k \in Caller : WF_vars(GetConn(k))
    /\ \A n \in Node, p \in Node, c \in Attempt :
          WF_vars(<<n, p, c>> \in dialing /\ connect(<<n, p, c>>))
    /\ \A s \in Attempt :
          /\ WF_vars(s \in DOMAIN sock /\ Handshake(s))
          /\ \A role \in {"client", "server"} :
                WF_vars(/\ s \in DOMAIN sock /\ IsHopeless(<<s, role>>)
                        /\ handshake_timeout(<<s, role>>))

Spec == Init /\ [][Next]_vars
FairSpec == Spec /\ Fairness

-----------------------------------------------------------------------------
(* Properties *)

\* The entries of the connection table are PeerStates whose sessions and cookies
\* exist (client.rs, PeerState).
TypeOK ==
    /\ \A n \in Node : \A p \in Node :
          \/ table[n][p] = Closed
          \/ \E c \in 1..cookies[n] : table[n][p] = Pending(c)
          \/ \E e \in End : table[n][p] = Open(e[1], e[2]) /\ Me(e) = n /\ Them(e) = p
    /\ cookies \in [Node -> {NoCookie} \cup Attempt]
    /\ \A k \in Caller : caller[k].cookie \in 0..cookies[At[k]]
    /\ jar \in [Node -> SUBSET DOMAIN sock]

\* A session that runs is the one its node's table names, so that callers reach
\* it and there is never a second one (set_conn_open_prob, set_conn_pending).
LiveIsRegistered ==
    \A e \in End : Pc(e) = "run" => table[Me(e)][Them(e)] = Open(e[1], e[2])

\* An attempt that is pending has a caller that will give it up if its job fails
\* (get_conn, set_conn_closed_from_pending), unless that caller's task is aborted.
PendingHasOwner ==
    \A n \in Node : \A p \in Node :
        table[n][p].state = "pending" =>
            \E k \in Caller :
                /\ At[k] = n /\ Peer[k] = p
                /\ \/ caller[k].pc = "aborted"
                   \/ /\ caller[k].pc \in {"polling", "giving up", "starting"}
                      /\ caller[k].cookie = table[n][p].cookie

\* What get_conn relies on when it reads the table: an open entry is the running
\* session's, and a pending one will be given up.
TableIsSound == TypeOK /\ LiveIsRegistered /\ PendingHasOwner

\* An end that serves a peer has had its secret back over the websocket, after
\* the peer's own server and jar passed it to the client of that websocket
\* (handshake_protocol_server); handshakes that fail half-way leave the jar within
\* its limit of 100 (expect_a_cookie).
ServedIsAuthentic ==
    /\ \A s \in DOMAIN sock :
          sock[s].server.pc \in {"enter", "run", "refused"} =>
              sock[s].client.pc \in {"enter", "run"} \cup Over /\ s \notin jar[sock[s].client.node]
    /\ \A n \in Node : Cardinality(jar[n]) <= JarSize + 1

\* A caller that is not aborted gets a connection, whatever part of its handshakes
\* times out, if nobody else dials and no session was lost (peer_services/
\* mod.rs:134, "Open connections to all services on the list").
Undisturbed(k) == left.losses = 0 /\ \A j \in Caller \ {k} : caller[j].pc = "absent"
LoneCallerConnects ==
    \A k \in Caller : caller[k].pc = "polling" /\ Undisturbed(k) ~>
        caller[k].pc \in {"connected", "aborted"}

\* A handshake is refused only by a node that is connected to the peer
\* (server/protocol.rs:277, "If we're no longer pending, then we're already
\* connected elsewhere as a client.").
RefusedOnlyWhenConnected ==
    [][\A e \in End : Pc(e) = "enter" /\ Pc(e)' = "refused" =>
          IsLive(table[Me(e)][Them(e)])]_vars
=============================================================================
