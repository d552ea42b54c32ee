--------------------------- MODULE SocketProtocol ---------------------------
(***************************************************************************)
(* A session between two nodes after the handshake: the loop of             *)
(* run_protocol_inner (common/attest/src/attestations/server/protocol.rs)   *)
(* on both sides of one websocket, and the callers of client/ws_methods.rs  *)
(* that put requests into the session's channels and wait for the answers.  *)
(*                                                                          *)
(* A request stands for its payload and for the oneshot channel of its      *)
(* caller; a response carries the request the peer worked on, so that       *)
(* answers that go to the wrong caller can be told.  The peer runs the      *)
(* same code.                                                               *)
(***************************************************************************)
EXTENDS Integers, Sequences, FiniteSets
LOCAL INSTANCE Functions

CONSTANTS
    Request,              \* requests that the callers of both nodes may make
    asker,                \* the side whose caller makes the request
    kind,                 \* response_code_of
    MAX_MESSAGE_DEFECIT,
    requestSize,          \* of the message that carries the request, in bytes
    responseSize,         \* of the one that answers it
    SocketBuffer          \* bytes the transport holds in one direction

Kind == {"LatestTips", "SpecificTips", "Post"}
Side == {"client", "server"}
Peer(s) == IF s = "client" THEN "server" ELSE "client"

\* "new": not asked yet; "waiting": no answer yet; "closed": the channel was
\* dropped without one; otherwise the request whose answer arrived.
Outcome == {"new", "waiting", "closed"}

ASSUME SessionAssumption ==
    /\ Request \cap Outcome = {}
    /\ asker \in [Request -> Side]
    /\ kind \in [Request -> Kind]
    /\ MAX_MESSAGE_DEFECIT \in Nat
    /\ requestSize \in [Request -> Nat] /\ responseSize \in [Request -> Nat]
    /\ SocketBuffer \in Nat

VARIABLES
    queue,        \* per side and kind the channel of waiting requests
    pc,
    seq,
    defecit,
    inflight_requests,
    sending,      \* the message a side waits to send
    wire,         \* what each side has sent and the other not read
    up,           \* the network still carries the session
    error,        \* why the session ended on a side
    outcome       \* what each caller got from its oneshot channel

session == <<pc, seq, defecit, inflight_requests, sending, error>>
vars == <<queue, session, wire, up, outcome>>

\* A request is sent with the number of the round, a response with the number
\* of the request it answers.
Msg == [type : {"Request", "Response"}, seq : Nat, request : Request]

TypeOK ==
    /\ queue \in [Side -> [Kind -> Seq(Request)]]
    /\ pc \in [Side -> {"select", "send", "done"}]
    /\ seq \in [Side -> Nat]
    /\ defecit \in [Side -> Int]
    /\ DOMAIN inflight_requests = Side
    /\ \A s \in Side : /\ DOMAIN inflight_requests[s] \subseteq Nat
                       /\ \A n \in DOMAIN inflight_requests[s] :
                            inflight_requests[s][n] \in Request
    /\ sending \in [Side -> Seq(Msg)]
    /\ wire \in [Side -> Seq(Msg)]
    /\ up \in BOOLEAN
    /\ error \in [Side -> {"none", "Disconnected", "SocketClosed", "DatabaseError",
                           "ResponseTypeIncorrect", "UnrequestedResponse"}]
    /\ outcome \in [Request -> Outcome \cup Request]

Init ==
    /\ queue = [s \in Side |-> [k \in Kind |-> <<>>]]
    /\ pc = [s \in Side |-> "select"]
    /\ seq = [s \in Side |-> 1]
    /\ defecit = [s \in Side |-> 0]
    /\ inflight_requests = [s \in Side |-> <<>>]
    /\ sending = [s \in Side |-> <<>>]
    /\ wire = [s \in Side |-> <<>>]
    /\ up = TRUE
    /\ error = [s \in Side |-> "none"]
    /\ outcome = [r \in Request |-> "new"]

-----------------------------------------------------------------------------
(* A definition named X_fault is X with a bug the code could have had.       *)
(* Nothing uses it: put in place of X, it shows that a property notices.      *)

\* Without seq += 1.
NextRound_same_number(s) ==
    /\ pc' = [pc EXCEPT ![s] = "select"]
    /\ UNCHANGED seq

\* The round ends and the loop goes on.
NextRound(s) ==
    /\ pc' = [pc EXCEPT ![s] = "select"]
    /\ seq' = [seq EXCEPT ![s] = @ + 1]

\* run_protocol returns: the receiver and the table are dropped, and with them
\* the oneshot channels of all callers that still wait; the socket is closed.
quit(s, why) ==
    /\ pc' = [pc EXCEPT ![s] = "done"]
    /\ error' = [error EXCEPT ![s] = why]
    /\ queue' = [queue EXCEPT ![s] = [k \in Kind |-> <<>>]]
    /\ outcome' = [r \in Request |->
                     IF asker[r] = s /\ outcome[r] = "waiting" THEN "closed"
                     ELSE outcome[r]]

-----------------------------------------------------------------------------
(* The callers *)

\* get_latest_tips, get_tips, post_messages: put the request into the channel
\* and wait, or fail because the channel is closed.  Finding the session
\* (get_conn) and the hashes that get_tips skips are not part of it.
ask(r) ==
    /\ outcome[r] = "new"
    /\ LET s == asker[r] IN
       IF pc[s] = "done"
       THEN outcome' = [outcome EXCEPT ![r] = "closed"] /\ UNCHANGED queue
       ELSE /\ outcome' = [outcome EXCEPT ![r] = "waiting"]
            /\ queue' = [queue EXCEPT ![s][kind[r]] = Append(@, r)]
    /\ UNCHANGED <<session, wire, up>>

-----------------------------------------------------------------------------
(* The select of run_protocol_inner *)

\* defecit <= MAX_MESSAGE_DEFECIT
WindowOpen_off_by_one(s) == defecit[s] <= MAX_MESSAGE_DEFECIT

WindowOpen(s) == defecit[s] < MAX_MESSAGE_DEFECIT

\* inflight_requests.insert(seq, ..)
Insert(table, n, r) ==
    [i \in DOMAIN table \cup {n} |-> IF i = n THEN r ELSE table[i]]

\* The router is taken out of its entry and the entry stays.
Remove_take(table, n) ==
    [i \in DOMAIN table |-> IF i = n THEN "None" ELSE table[i]]

Remove(table, n) == [i \in DOMAIN table \ {n} |-> table[i]]

\* One of the three recv branches, then handle_internal_request up to its
\* t_send.
handle_internal_request(s, k) ==
    /\ pc[s] = "select" /\ queue[s][k] # <<>>
    /\ WindowOpen(s)
    /\ LET r == Head(queue[s][k]) IN
       /\ inflight_requests' = [inflight_requests EXCEPT ![s] = Insert(@, seq[s], r)]
       /\ sending' = [sending EXCEPT ![s] =
                        <<[type |-> "Request", seq |-> seq[s], request |-> r]>>]
    /\ queue' = [queue EXCEPT ![s][k] = Tail(@)]
    /\ defecit' = [defecit EXCEPT ![s] = @ + 1]
    /\ pc' = [pc EXCEPT ![s] = "send"]
    /\ UNCHANGED <<seq, error, wire, up, outcome>>

\* The message t_recv gives to side s.
Incoming(s, type) ==
    /\ pc[s] = "select"
    /\ wire[Peer(s)] # <<>>
    /\ Head(wire[Peer(s)]).type = type

\* The response numbered with this side's round.
ResponseTo_own_round(s, m) ==
    [type |-> "Response", seq |-> seq[s], request |-> m.request]

ResponseTo(s, m) == [type |-> "Response", seq |-> m.seq, request |-> m.request]

\* handle_message_from_peer, a request: fetch_latest_tips, fetch_specific_tips or
\* post_envelope, up to its t_send.  Post reports a database error in its
\* response, the other two end the session with it.
handle_request(s) ==
    /\ Incoming(s, "Request")
    /\ LET m == Head(wire[Peer(s)]) IN
       \/ /\ sending' = [sending EXCEPT ![s] = <<ResponseTo(s, m)>>]
          /\ pc' = [pc EXCEPT ![s] = "send"]
          /\ UNCHANGED <<queue, error, outcome>>
       \/ /\ kind[m.request] # "Post"
          /\ quit(s, "DatabaseError")
          /\ UNCHANGED sending
    /\ wire' = [wire EXCEPT ![Peer(s)] = Tail(@)]
    /\ UNCHANGED <<seq, defecit, inflight_requests, up>>

\* handle_message_from_peer, a response: routed by its number to the caller.
handle_response(s) ==
    /\ Incoming(s, "Response")
    /\ LET m == Head(wire[Peer(s)])
           table == inflight_requests[s]
       IN
       /\ inflight_requests' = [inflight_requests EXCEPT ![s] = Remove(@, m.seq)]
       /\ IF m.seq \notin DOMAIN table
          THEN quit(s, "UnrequestedResponse") /\ UNCHANGED seq
          ELSE IF kind[m.request] # kind[table[m.seq]]
          THEN quit(s, "ResponseTypeIncorrect") /\ UNCHANGED seq
          ELSE /\ outcome' = [outcome EXCEPT ![table[m.seq]] = m.request]
               /\ NextRound(s)
               /\ UNCHANGED <<queue, error>>
    /\ defecit' = [defecit EXCEPT ![s] = @ - 1]
    /\ wire' = [wire EXCEPT ![Peer(s)] = Tail(@)]
    /\ UNCHANGED <<sending, up>>

\* Nothing more can be read: the network is gone, or the peer has closed and
\* all it sent was read.
EndOfStream(s) ==
    \/ ~up
    \/ pc[Peer(s)] = "done" /\ wire[Peer(s)] = <<>>

\* t_recv gives None and the loop goes on as before.
disconnected_ignored(s) ==
    /\ pc[s] = "select" /\ EndOfStream(s)
    /\ UNCHANGED vars

\* t_recv gives None.
disconnected(s) ==
    /\ pc[s] = "select" /\ EndOfStream(s)
    /\ quit(s, "Disconnected")
    /\ UNCHANGED <<seq, defecit, inflight_requests, sending, wire, up>>

\* The transport takes bytes up to its buffer.  A message of any size gets through
\* once the peer has read all before it and reads on.
size(m) == IF m.type = "Request" THEN requestSize[m.request]
           ELSE responseSize[m.request]
Load(s) == FoldFunction(LAMBDA m, n : size(m) + n, 0, wire[s])
Room(s) ==
    \/ Load(s) + size(Head(sending[s])) <= SocketBuffer
    \/ wire[s] = <<>> /\ pc[Peer(s)] = "select"

\* t_send waits for room and is not interrupted by anything to read.
t_send(s) ==
    /\ pc[s] = "send" /\ Room(s)
    /\ wire' = [wire EXCEPT ![s] = Append(@, Head(sending[s]))]
    /\ sending' = [sending EXCEPT ![s] = <<>>]
    /\ NextRound(s)
    /\ UNCHANGED <<queue, defecit, inflight_requests, error, up, outcome>>

t_send_error(s) ==
    /\ pc[s] = "send"
    /\ ~up \/ pc[Peer(s)] = "done"
    /\ quit(s, "SocketClosed")
    /\ UNCHANGED <<seq, defecit, inflight_requests, sending, wire, up>>

\* The network drops the session; what is on the wire may or may not arrive.
lose_connection ==
    /\ up /\ up' = FALSE
    /\ UNCHANGED <<queue, session, wire, outcome>>

-----------------------------------------------------------------------------

run_protocol_inner(s) ==
    \/ \E k \in Kind : handle_internal_request(s, k)
    \/ handle_request(s) \/ handle_response(s) \/ disconnected(s)
    \/ t_send(s) \/ t_send_error(s)

Next ==
    \/ \E r \in Request : ask(r)
    \/ \E s \in Side : run_protocol_inner(s)
    \/ lose_connection

Spec == Init /\ [][Next]_vars

\* Both sides are tasks of a tokio runtime.
FairSpec == Spec /\ \A s \in Side : WF_vars(run_protocol_inner(s))

-----------------------------------------------------------------------------
(* Properties *)

\* "Only allow 10 outstanding messages": the deficit, which peers' responses
\* decrement, is the number of requests in the table and stays in the window.
DefecitIsInflight ==
    \A s \in Side :
        /\ defecit[s] = Cardinality(DOMAIN inflight_requests[s])
        /\ defecit[s] <= MAX_MESSAGE_DEFECIT

\* Two nodes that run this code never end a session over a response nobody
\* asked for or of the wrong type, although both sides number their own
\* requests and answer while they ask.
NoProtocolError ==
    \A s \in Side : error[s] \notin {"UnrequestedResponse", "ResponseTypeIncorrect"}

\* Every answer goes to the caller that asked for it.
OwnAnswer == \A r \in Request : outcome[r] \in Request => outcome[r] = r

\* The window is the only bound on what a side has emitted and the other not read:
\* its own requests in flight and the peer's that it has answered, whichever
\* branch the select of each side takes.
WindowBoundsWire ==
    \A s \in Side : Len(wire[s]) + Len(sending[s]) <= 2 * MAX_MESSAGE_DEFECIT

\* Both sides wait in t_send for the other to read.  Nothing ends this but a loss
\* of the network: no send has a timeout.
Blocked == up /\ \A s \in Side : pc[s] = "send" /\ ~Room(s)

\* No caller hangs but in a session whose two sides block each other: a request
\* is answered or its channel is closed.
RequestsEnd ==
    \A r \in Request : outcome[r] = "waiting" ~> (outcome[r] # "waiting" \/ Blocked)

=============================================================================
