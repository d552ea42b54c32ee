----------------------------- MODULE PeerServices -----------------------------
(***************************************************************************)
(* How envelopes travel between two nodes: the tasks peer_services/mod.rs    *)
(* keeps for a peer, which fetch its envelopes (fetch_peer.rs) and push ours *)
(* (push_peer.rs), the client requests they make (client/ws_methods.rs) and  *)
(* the peer's answers to them (server/protocol.rs).                          *)
(*                                                                           *)
(* The node "here" runs the tasks for the peer "there".  A service is two or *)
(* three tasks that share queues; each of their steps between two awaits on  *)
(* the network or on a queue is an action, so the tasks of one service, of   *)
(* both services, and of services that were aborted interleave.  A request   *)
(* is sent, and later answered from what the peer stores then, or lost with  *)
(* the session.                                                              *)
(*                                                                           *)
(* A database is the set of its rows and the set of its connected rows, as   *)
(* MsgDB has them.  An envelope is its chain and its height: chains have no  *)
(* forks here.  Every envelope is authentic.                                 *)
(***************************************************************************)
EXTENDS Integers, Sequences, FiniteSets, SequencesExt

CONSTANTS
    Envelope,       \* <<chain, height>>
    header_tips,    \* envelope -> the tips of other chains its header names
    MaxWork,        \* bound: the latest tips are not asked for while this many
                    \* batches and requests of a fetch service are under way
    Scenario        \* what both nodes store at first, what the peer gets later,
                    \* the settings of the peer, and how many faults happen

Service == [fetch_from : BOOLEAN, push_to : BOOLEAN, allow_unsolicited_tips : BOOLEAN]

ASSUME ServicesAssumption ==
    /\ IsFiniteSet(Envelope)
    /\ \A e \in Envelope : /\ e = <<e[1], e[2]>> /\ e[2] \in Nat
                           /\ \A h \in 0..e[2] : <<e[1], h>> \in Envelope
    /\ header_tips \in [Envelope -> SUBSET Envelope]
    /\ MaxWork \in Nat
    /\ \A s \in Scenario : /\ s.here \subseteq Envelope /\ s.there \subseteq Envelope
                           /\ s.later \subseteq Envelope
                           /\ s.settings \in Seq(Service) /\ s.settings # <<>>
                           /\ s.faults \in Nat

height(e) == e[2]
genesis(e) == <<e[1], 0>>
prev_msg(e) == <<e[1], e[2] - 1>>
next_msg(e) == <<e[1], e[2] + 1>>
ancestors(e) == {<<e[1], h>> : h \in 0..e[2]}

VARIABLES
    db,             \* node -> its rows and which of them are connected
    settings,       \* the peer's rows of hidden_services, now and to come
    fetchers,       \* the fetch services there are or were
    pushers,        \* the push services there are or were
    inflight,       \* AttestationClient.inflight
    released,       \* hashes in flight whose NotifyOnDrop was dropped
    leaked,         \* history: hashes whose request was aborted
    forgotten,      \* history: hashes that were to be fetched and were not
    later,          \* what the peer will still get from others
    faults          \* the sessions that will still be lost and the database
                    \* errors that will still happen

vars == <<db, settings, fetchers, pushers, inflight, released, leaked, forgotten,
          later, faults>>
services == <<fetchers, pushers>>
hashes == <<inflight, released, leaked, forgotten>>

Node == {"here", "there"}
Slot == {1, 2}      \* one service that runs and one that was aborted

\* The state of a slot: main is the service's own task, which waits for the first
\* of its subtasks to end.
Fetcher(main, allow, subtask) ==
    [main |-> main, allow |-> allow, latest |-> subtask, processor |-> subtask,
     missing |-> subtask, asked |-> {}, batches |-> <<>>, requests |-> <<>>]
Pusher(main, allow, subtask) ==
    [main |-> main, allow |-> allow, tracker |-> subtask, claims |-> {},
     tip_tracker |-> {}, notified |-> FALSE, broadcast |-> subtask, posting |-> {}]

Asking == {"asked", "lost"}     \* where a subtask awaits an answer

Complete(rows) == {e \in rows : ancestors(e) \subseteq rows}
Db(rows) == [rows |-> rows, connected |-> Complete(rows)]

Init ==
    \E s \in Scenario :
        /\ db = [n \in Node |-> IF n = "here" THEN Db(s.here) ELSE Db(s.there)]
        /\ settings = s.settings
        /\ later = s.later /\ faults = s.faults
        /\ fetchers = [k \in Slot |-> Fetcher("none", FALSE, "ended")]
        /\ pushers = [k \in Slot |-> Pusher("none", FALSE, "ended")]
        /\ inflight = {} /\ released = {} /\ leaked = {} /\ forgotten = {}

-----------------------------------------------------------------------------
(* A definition named X_fault is X with a bug the code could have had.       *)
(* Nothing uses it: put in place of X, it shows that a property notices.     *)

(* The database *)

\* A row needs its genesis, and so its user.
Refused(d, e) == genesis(e) \notin d.rows

New(d, envelopes) == {e \in envelopes : ~Refused(d, e)} \ d.rows

\* Connected whether or not the parent is.
TryInsert_connected(d, envelopes) ==
    [rows |-> d.rows \cup New(d, envelopes), connected |-> d.connected \cup New(d, envelopes)]

\* try_insert_authenticated_envelope of each, the envelopes of a chain in the order of
\* their heights: a row is connected if its parent is, so if nothing lacks between it
\* and a row that was connected.
TryInsert(d, envelopes) ==
    LET new == New(d, envelopes)
        follows(e, f) == /\ f[1] = e[1] /\ height(f) < height(e)
                         /\ \A h \in height(f) + 1..height(e) : <<e[1], h>> \in new
    IN  [rows |-> d.rows \cup new,
         connected |-> d.connected \cup {e \in new : \E f \in d.connected : follows(e, f)}]

insert_user_by_genesis_envelope(d, e) ==
    [rows |-> d.rows \cup {e}, connected |-> d.connected \cup {e}]

\* The connected row of greatest height of every user
get_tips_for_all_users(d) ==
    {e \in d.connected : \A f \in d.connected : f[1] = e[1] => height(f) <= height(e)}

get_all_genesis(d) == {e \in d.rows : height(e) = 0}

\* Off by one.
get_connected_messages_newer_than_envelopes_gap(d, tips) ==
    {e \in d.connected : \E t \in tips : t[1] = e[1] /\ height(e) > height(t) + 1}

get_connected_messages_newer_than_envelopes(d, tips) ==
    {e \in d.connected : \E t \in tips : t[1] = e[1] /\ height(e) > height(t)}

\* _tip_attacher
attach_tips(n) ==
    /\ db' = [db EXCEPT ![n].connected = Complete(db[n].rows)]
    /\ UNCHANGED <<settings, services, hashes, later, faults>>

\* Another peer of the peer, or its user, gives it an envelope.
arrives(e) ==
    /\ e \in later
    /\ later' = later \ {e}
    /\ db' = [db EXCEPT !["there"] = IF height(e) = 0
                                     THEN insert_user_by_genesis_envelope(@, e)
                                     ELSE TryInsert(@, {e})]
    /\ UNCHANGED <<settings, services, hashes, faults>>

-----------------------------------------------------------------------------
(* startup: the services of the peer *)

\* The user changes the peer's settings.
upsert_hidden_service ==
    /\ Len(settings) > 1
    /\ settings' = Tail(settings)
    /\ UNCHANGED <<db, services, hashes, later, faults>>

\* A service is in task_set until a scan finds it finished or aborts it.
Kept(slot, wanted) == slot.main = "selecting" /\ wanted /\ slot.allow = settings[1].allow_unsolicited_tips

\* The services of one type after a scan: the finished are dropped, those no
\* longer wanted are aborted, which leaves their subtasks running, and the
\* missing one is started.
Scanned(slots, wanted, none, new) ==
    LET left == [k \in Slot |->
                   IF slots[k].main = "finished" THEN none
                   ELSE IF slots[k].main = "selecting" /\ ~Kept(slots[k], wanted)
                   THEN [slots[k] EXCEPT !.main = "aborted"] ELSE slots[k]]
    IN  IF wanted /\ \A k \in Slot : ~Kept(slots[k], wanted)
        THEN {[left EXCEPT ![k] = new] : k \in {k \in Slot : left[k] = none}}
        ELSE {left}

scan ==
    LET allow == settings[1].allow_unsolicited_tips IN
    /\ fetchers' \in Scanned(fetchers, settings[1].fetch_from,
                             Fetcher("none", FALSE, "ended"), Fetcher("selecting", allow, "ready"))
    /\ pushers' \in Scanned(pushers, settings[1].push_to,
                            Pusher("none", FALSE, "ended"), Pusher("selecting", allow, "ready"))
    /\ UNCHANGED <<db, settings, hashes, later, faults>>

-----------------------------------------------------------------------------
(* The session *)

Lose(pc) == IF pc = "asked" THEN "lost" ELSE pc

\* The session ends: every answer that is awaited will not come.
session_ends ==
    /\ fetchers' = [k \in Slot |-> [fetchers[k] EXCEPT !.latest = Lose(@), !.missing = Lose(@)]]
    /\ pushers' = [k \in Slot |-> [pushers[k] EXCEPT !.tracker = Lose(@), !.broadcast = Lose(@)]]
    /\ UNCHANGED <<db, hashes>>

session_lost ==
    /\ faults > 0
    /\ faults' = faults - 1
    /\ session_ends
    /\ UNCHANGED <<settings, later>>

-----------------------------------------------------------------------------
(* fetch_from_peer *)

\* What the queued batches hold in flight
Queued(f) == UNION {f.batches[i].inflight : i \in DOMAIN f.batches}

\* What a service still has to fetch or has fetched and not handled
ToFetch(f) == f.asked \cup Queued(f) \cup UNION Range(f.requests)

Work(f) == Len(f.batches) + Len(f.requests) + IF f.missing \in Asking THEN 1 ELSE 0

Sub(f) == {f.latest, f.processor, f.missing}

\* The first subtask to end ends the service; the others are aborted, and what
\* they had queued is dropped.
fetch_select(k) ==
    LET f == fetchers[k] IN
    /\ f.main = "selecting" /\ "ended" \in Sub(f)
    /\ fetchers' = [fetchers EXCEPT ![k] = Fetcher("finished", f.allow, "ended")]
    /\ released' = released \cup Queued(f)
    /\ leaked' = IF f.missing \in Asking THEN leaked \cup f.asked ELSE leaked
    /\ forgotten' = forgotten \cup ToFetch(f)
    /\ UNCHANGED <<db, settings, pushers, inflight, later, faults>>

\* latest_tip_fetcher
get_latest_tips(k) ==
    LET f == fetchers[k] IN
    /\ f.latest = "ready" /\ Work(f) < MaxWork
    /\ fetchers' = [fetchers EXCEPT ![k].latest = "asked"]
    /\ UNCHANGED <<db, settings, pushers, hashes, later, faults>>

\* fetch_latest_tips at the peer, and the batch of its answer
fetch_latest_tips(k) ==
    LET f == fetchers[k]
        batch == [envelopes |-> get_tips_for_all_users(db["there"]), inflight |-> {}]
    IN
    /\ f.latest = "asked"
    /\ fetchers' = [fetchers EXCEPT ![k] =
         IF f.processor = "ended" THEN [f EXCEPT !.latest = "ended"]
         ELSE [f EXCEPT !.latest = "ready", !.batches = Append(@, batch)]]
    /\ UNCHANGED <<db, settings, pushers, hashes, later, faults>>

latest_tips_not_received(k) ==
    /\ fetchers[k].latest = "lost"
    /\ fetchers' = [fetchers EXCEPT ![k].latest = "ended"]
    /\ UNCHANGED <<db, settings, pushers, hashes, later, faults>>

\* Without the ancestors.
Handle_tips_only(acc, e, allow) ==
    [db |-> IF height(e) = 0 THEN insert_user_by_genesis_envelope(acc.db, e)
            ELSE TryInsert(acc.db, {e}),
     tips |-> acc.tips \cup header_tips[e]]

\* One envelope of handle_envelope: the database after it, and the hashes its
\* header names.
Handle(acc, e, allow) ==
    [db |-> IF height(e) = 0 THEN insert_user_by_genesis_envelope(acc.db, e)
            ELSE TryInsert(acc.db, {e}),
     tips |-> acc.tips \cup header_tips[e]
                \cup (IF height(e) > 0 THEN {prev_msg(e)} ELSE {})
                \cup (IF height(e) > 0 /\ Refused(acc.db, e) /\ allow
                      THEN {genesis(e)} ELSE {})]

\* After as many of them
HandleAll(order, allow) ==
    LET after[n \in 0..Len(order)] ==
            IF n = 0 THEN [db |-> db["here"], tips |-> {}]
            ELSE Handle(after[n - 1], order[n], allow)
    IN  after

\* A batch comes in the order of the hashes, which may be any.
handle_envelope(k) ==
    LET f == fetchers[k] IN
    /\ f.processor = "ready" /\ f.batches # <<>>
    /\ \E order \in SetToSeqs(Head(f.batches).envelopes) :
         LET result == HandleAll(order, f.allow)[Len(order)]
             unknown_dep_tips == result.tips \ result.db.rows
             rest == [f EXCEPT !.batches = Tail(@)]
         IN /\ db' = [db EXCEPT !["here"] = result.db]
            /\ fetchers' = [fetchers EXCEPT ![k] =
                 IF unknown_dep_tips = {} THEN rest
                 ELSE IF f.missing = "ended" THEN [rest EXCEPT !.processor = "ended", !.batches = <<>>]
                 ELSE [rest EXCEPT !.requests = Append(@, unknown_dep_tips)]]
            /\ released' = released \cup
                 (IF fetchers'[k].processor = "ended" THEN Queued(f)
                  ELSE Head(f.batches).inflight)
            /\ forgotten' = IF fetchers'[k].processor = "ended"
                            THEN forgotten \cup Queued(f) \cup unknown_dep_tips
                            ELSE forgotten
    /\ UNCHANGED <<settings, pushers, inflight, leaked, later, faults>>

\* A database error ends the processor within a batch.
processor_fails(k) ==
    LET f == fetchers[k] IN
    /\ f.processor = "ready" /\ f.batches # <<>>
    /\ faults > 0 /\ faults' = faults - 1
    /\ \E order \in SetToSeqs(Head(f.batches).envelopes) : \E n \in 0..Len(order) :
         LET result == HandleAll(order, f.allow)[n]
         IN /\ db' = [db EXCEPT !["here"] = result.db]
            /\ forgotten' = forgotten \cup Queued(f) \cup result.tips
    /\ fetchers' = [fetchers EXCEPT ![k] = [f EXCEPT !.processor = "ended", !.batches = <<>>]]
    /\ released' = released \cup Queued(f)
    /\ UNCHANGED <<settings, pushers, inflight, leaked, later>>

\* recv returns None: the senders of a detached processor are gone.
envelope_processor_ends(k) ==
    LET f == fetchers[k] IN
    /\ f.processor = "ready" /\ f.batches = <<>>
    /\ f.main = "aborted" /\ f.latest = "ended" /\ f.missing = "ended"
    /\ fetchers' = [fetchers EXCEPT ![k].processor = "ended"]
    /\ UNCHANGED <<db, settings, pushers, hashes, later, faults>>

\* Nothing is taken out of the query.
get_tips_uncached(k) ==
    LET f == fetchers[k] IN
    /\ f.missing = "ready" /\ f.requests # <<>>
    /\ inflight' = inflight \cup Head(f.requests)
    /\ fetchers' = [fetchers EXCEPT ![k] = [f EXCEPT !.missing = "asked", !.asked = Head(f.requests),
                                                     !.requests = Tail(@)]]
    /\ UNCHANGED <<db, settings, pushers, released, leaked, forgotten, later, faults>>

\* missing_envelope_fetcher: get_tips with the cache.  What is in flight is not
\* asked for, although its NotifyOnDrop may be on its way.
get_tips(k) ==
    LET f == fetchers[k]
        tips == Head(f.requests) \ inflight
    IN
    /\ f.missing = "ready" /\ f.requests # <<>>
    /\ inflight' = inflight \cup tips
    /\ fetchers' = [fetchers EXCEPT ![k] = [f EXCEPT !.missing = "asked", !.asked = tips,
                                                     !.requests = Tail(@)]]
    /\ forgotten' = forgotten \cup (Head(f.requests) \cap released)
    /\ UNCHANGED <<db, settings, pushers, released, leaked, later, faults>>

\* fetch_specific_tips at the peer: a hash it does not have is a database error,
\* which ends the session.
fetch_specific_tips(k) ==
    LET f == fetchers[k]
        batch == [envelopes |-> f.asked, inflight |-> f.asked]
    IN
    /\ f.missing = "asked"
    /\ IF ~(f.asked \subseteq db["there"].rows) THEN session_ends
       ELSE /\ fetchers' = [fetchers EXCEPT ![k] =
                 IF f.processor = "ended" THEN [f EXCEPT !.missing = "ended", !.asked = {}]
                 ELSE [f EXCEPT !.missing = "ready", !.asked = {}, !.batches = Append(@, batch)]]
            /\ released' = IF f.processor = "ended" THEN released \cup f.asked ELSE released
            /\ forgotten' = IF f.processor = "ended" THEN forgotten \cup ToFetch(f) ELSE forgotten
            /\ UNCHANGED <<db, pushers, inflight, leaked>>
    /\ UNCHANGED <<settings, later, faults>>

tips_not_fetched(k) ==
    LET f == fetchers[k] IN
    /\ f.missing = "lost"
    /\ fetchers' = [fetchers EXCEPT ![k] = [f EXCEPT !.missing = "ended", !.asked = {}]]
    /\ released' = released \cup f.asked
    /\ forgotten' = forgotten \cup f.asked \cup UNION Range(f.requests)
    /\ UNCHANGED <<db, settings, pushers, inflight, leaked, later, faults>>

\* recv returns None: the processor is gone.
missing_envelope_fetcher_ends(k) ==
    LET f == fetchers[k] IN
    /\ f.missing = "ready" /\ f.requests = <<>> /\ f.processor = "ended"
    /\ fetchers' = [fetchers EXCEPT ![k].missing = "ended"]
    /\ UNCHANGED <<db, settings, pushers, hashes, later, faults>>

\* The task that waits for a NotifyOnDrop
remove_inflight ==
    /\ released # {}
    /\ inflight' = inflight \ released
    /\ released' = {}
    /\ UNCHANGED <<db, settings, services, leaked, forgotten, later, faults>>

-----------------------------------------------------------------------------
(* push_to_peer *)

push_select(k) ==
    LET p == pushers[k] IN
    /\ p.main = "selecting" /\ "ended" \in {p.tracker, p.broadcast}
    /\ pushers' = [pushers EXCEPT ![k] = Pusher("finished", p.allow, "ended")]
    /\ UNCHANGED <<db, settings, fetchers, hashes, later, faults>>

SetPusher(k, p) ==
    /\ pushers' = [pushers EXCEPT ![k] = p]
    /\ UNCHANGED <<settings, fetchers, hashes, later, faults>>

\* t1: the tips the peer claims to have
ask_claims(k) ==
    /\ pushers[k].tracker = "ready"
    /\ SetPusher(k, [pushers[k] EXCEPT !.tracker = "asked"])
    /\ UNCHANGED db

answer_claims(k) ==
    /\ pushers[k].tracker = "asked"
    /\ SetPusher(k, [pushers[k] EXCEPT !.tracker = "locked",
                                       !.claims = get_tips_for_all_users(db["there"])])
    /\ UNCHANGED db

\* With the lock on tip_tracker: a claim replaces a lower one of its chain.
Advance(tracked, claims) ==
    LET lower(c, t) == c[1] = t[1] /\ height(t) < height(c) IN
    {t \in tracked : ~\E c \in claims : lower(c, t)}
      \cup {c \in claims : ~\E t \in tracked : c[1] = t[1] /\ ~lower(c, t)}

\* No notification when the claims are the old ones.
update_tip_tracker_quiet(k) ==
    LET p == pushers[k] IN
    /\ p.tracker = "locked"
    /\ SetPusher(k, [p EXCEPT !.tracker = "ready", !.claims = {},
                              !.notified = @ \/ Advance(p.tip_tracker, p.claims) # p.tip_tracker,
                              !.tip_tracker = Advance(@, p.claims)])
    /\ UNCHANGED db

update_tip_tracker(k) ==
    LET p == pushers[k] IN
    /\ p.tracker = "locked"
    /\ SetPusher(k, [p EXCEPT !.tracker = "ready", !.claims = {}, !.notified = TRUE,
                              !.tip_tracker = Advance(@, p.claims)])
    /\ UNCHANGED db

\* t2: new_tips.notified
wait_new_tips(k) ==
    LET p == pushers[k] IN
    /\ p.broadcast = "ready" /\ p.notified
    /\ SetPusher(k, [p EXCEPT !.broadcast = "notified", !.notified = FALSE])
    /\ UNCHANGED db

\* What the peer lacks of the chains it has, and the genesis of every other chain
ToBroadcast(p) ==
    LET msgs == get_connected_messages_newer_than_envelopes(db["here"], p.tip_tracker)
    IN  msgs \cup {g \in get_all_genesis(db["here"]) : \A e \in msgs : genesis(e) # g}

broadcast(k) ==
    LET p == pushers[k] IN
    /\ p.broadcast = "notified"
    /\ SetPusher(k, IF p.tracker = "locked" \/ ToBroadcast(p) = {}
                    THEN [p EXCEPT !.broadcast = "ready"]
                    ELSE [p EXCEPT !.broadcast = "asked", !.posting = ToBroadcast(p)])
    /\ UNCHANGED db

\* What was posted is taken for stored.
post_envelope_optimistic(k) ==
    LET p == pushers[k] IN
    /\ p.broadcast \in Asking
    /\ db' = [db EXCEPT !["there"] = TryInsert(@, p.posting)]
    /\ SetPusher(k, IF p.broadcast = "lost" THEN p
                    ELSE [p EXCEPT !.broadcast = "ready", !.posting = {},
                                   !.tip_tracker = Advance(@, p.posting)])

\* post_envelope at the peer; the messages of a chain come in the order of their
\* heights.  A genesis is not told apart.  The answer may be lost although the
\* peer got the messages.
post_envelope(k) ==
    LET p == pushers[k] IN
    /\ p.broadcast \in Asking
    /\ db' = [db EXCEPT !["there"] = TryInsert(@, p.posting)]
    /\ SetPusher(k, IF p.broadcast = "lost" THEN p
                    ELSE [p EXCEPT !.broadcast = "ready", !.posting = {}])

push_fails(k) ==
    LET p == pushers[k] IN
    /\ \/ p.tracker = "lost" /\ SetPusher(k, [p EXCEPT !.tracker = "ended"])
       \/ p.broadcast = "lost" /\ SetPusher(k, [p EXCEPT !.broadcast = "ended", !.posting = {}])
    /\ UNCHANGED db

-----------------------------------------------------------------------------

FetchTask(k) ==
    \/ fetch_select(k)
    \/ get_latest_tips(k) \/ fetch_latest_tips(k) \/ latest_tips_not_received(k)
    \/ handle_envelope(k) \/ processor_fails(k) \/ envelope_processor_ends(k)
    \/ get_tips(k) \/ fetch_specific_tips(k) \/ tips_not_fetched(k)
    \/ missing_envelope_fetcher_ends(k)

PushTask(k) ==
    \/ push_select(k)
    \/ ask_claims(k) \/ answer_claims(k) \/ update_tip_tracker(k)
    \/ wait_new_tips(k) \/ broadcast(k) \/ post_envelope(k) \/ push_fails(k)

Next ==
    \/ \E n \in Node : attach_tips(n)
    \/ \E e \in Envelope : arrives(e)
    \/ upsert_hidden_service \/ scan \/ session_lost \/ remove_inflight
    \/ \E k \in Slot : FetchTask(k) \/ PushTask(k)

Spec == Init /\ [][Next]_vars

\* Every task runs when it can, the timers of startup fire again and again, and
\* the peer answers what it is asked.  t1 sleeps for a random time between two
\* rounds, so t2 does not find tip_tracker locked every time.
FairSpec ==
    /\ Spec
    /\ \A n \in Node : WF_vars(attach_tips(n))
    /\ WF_vars(scan) /\ WF_vars(remove_inflight)
    /\ \A k \in Slot :
         /\ WF_vars(fetch_select(k)) /\ WF_vars(push_select(k))
         /\ WF_vars(get_latest_tips(k) \/ fetch_latest_tips(k) \/ latest_tips_not_received(k))
         /\ WF_vars(handle_envelope(k) \/ envelope_processor_ends(k))
         /\ WF_vars(get_tips(k) \/ fetch_specific_tips(k) \/ tips_not_fetched(k)
                      \/ missing_envelope_fetcher_ends(k))
         /\ WF_vars(ask_claims(k) \/ answer_claims(k) \/ update_tip_tracker(k))
         /\ WF_vars(wait_new_tips(k) \/ broadcast(k) \/ post_envelope(k))
         /\ WF_vars(push_fails(k))
         /\ SF_vars(pushers[k].tracker # "locked" /\ wait_new_tips(k))
         /\ SF_vars(pushers[k].tracker # "locked" /\ broadcast(k))
-----------------------------------------------------------------------------
(* Properties *)

Main == {"none", "selecting", "finished", "aborted"}
Subtask == {"ready", "asked", "lost", "ended"}
Batch == [envelopes : SUBSET Envelope, inflight : SUBSET Envelope]

\* The services' queues hold what MaxWork allows, and a database's connected rows
\* (db_handle/get/messages.rs) are rows whose ancestors are rows.
TypeOK ==
    /\ \A n \in Node : /\ db[n].rows \subseteq Envelope
                       /\ db[n].connected \subseteq Complete(db[n].rows)
    /\ \A k \in Slot :
         /\ fetchers[k].main \in Main /\ fetchers[k].allow \in BOOLEAN
         /\ Sub(fetchers[k]) \subseteq Subtask
         /\ fetchers[k].asked \subseteq Envelope
         /\ fetchers[k].batches \in Seq(Batch)
         /\ fetchers[k].requests \in Seq(SUBSET Envelope)
         /\ Work(fetchers[k]) <= MaxWork
         /\ pushers[k].main \in Main /\ pushers[k].allow \in BOOLEAN
         /\ pushers[k].tracker \in Subtask \cup {"locked"}
         /\ pushers[k].broadcast \in Subtask \cup {"notified"}
         /\ pushers[k].claims \cup pushers[k].tip_tracker \cup pushers[k].posting
              \subseteq Envelope
         /\ pushers[k].notified \in BOOLEAN
    /\ released \subseteq inflight /\ leaked \subseteq inflight /\ inflight \subseteq Envelope
    /\ forgotten \subseteq Envelope
    /\ later \subseteq Envelope /\ settings \in Seq(Service) /\ faults \in Nat

\* The requests that are out and the batches in the queues that hold a hash in
\* flight
Holders(h) ==
    {<<k, 0>> : k \in {k \in Slot : fetchers[k].missing \in Asking /\ h \in fetchers[k].asked}}
    \cup UNION {{<<k, i>> : i \in {i \in DOMAIN fetchers[k].batches :
                                     h \in fetchers[k].batches[i].inflight}} : k \in Slot}

\* A hash is in flight exactly while one request or batch, of any service, holds
\* it, until its NotifyOnDrop (client.rs) is seen: what the peer sends is asked for
\* once, and can be asked for again when its batch was of no use.  Only a request
\* that is aborted while it waits leaves its hashes behind.
InflightHasOneHolder ==
    \A h \in Envelope :
        Cardinality(Holders(h)) = IF h \in inflight \ (released \cup leaked) THEN 1 ELSE 0

\* What a service holds and the hashes that all services skip agree.
QueuesAreSound == TypeOK /\ InflightHasOneHolder

\* tip_tracker (push_peer.rs) never claims more of a chain than the peer has: a
\* message that the peer lacks is never taken for sent, whichever answers, posts
\* and new envelopes cross.
ClaimsAreTrue ==
    \A k \in Slot : pushers[k].tip_tracker \cup pushers[k].claims \subseteq db["there"].connected

\* A row that the peer can send names an envelope that neither node has.
Dangling ==
    \E e \in db["there"].rows : ~(header_tips[e] \subseteq db["there"].rows \cup db["here"].rows)

\* A hash that no service will fetch any more: an abort left it in flight, or it
\* was dropped after the message above it had become a row, and this message is not
\* the peer's tip, so it is not handled again.
Abandoned(h) ==
    /\ h \notin db["here"].rows
    /\ \/ h \in leaked
       \/ /\ h \in forgotten
          /\ next_msg(h) \in db["here"].rows \ get_tips_for_all_users(db["there"])

\* With the setting fetch_from, everything that is connected at the peer becomes
\* connected here (fetch_peer.rs), also of chains that were unknown, in whatever
\* order envelopes come, whether or not unsolicited tips are allowed, and after
\* sessions were lost; except in a chain with an abandoned hash (the requests go down
\* a chain, so what is below it is not asked for and what is above it does not
\* connect), and unless a header of the peer names an envelope the peer does not have.
FetchCatchesUp ==
    <>[]( settings[1].fetch_from /\ ~Dangling =>
            \A e \in db["there"].connected :
                \/ e \in db["here"].connected
                \/ \E h \in Envelope : h[1] = e[1] /\ Abandoned(h) )

\* With the setting push_to, every connected message of a chain that the peer knows
\* becomes connected at the peer (push_peer.rs), also after a notification was
\* consumed while the tracker had the lock.
PushCatchesUp ==
    <>[]( settings[1].push_to =>
            \A e \in db["here"].connected :
                genesis(e) \in db["there"].rows => e \in db["there"].connected )

=============================================================================
