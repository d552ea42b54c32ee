------------------------------ MODULE Sequencer ------------------------------
(***************************************************************************)
(* The online sequencer (common/game-sequencer/src) and what consumes it:   *)
(* the game task of the desktop application (ux/src-tauri/src/tasks.rs), or *)
(* a DemuxedSequencer with the game task of the litigator.  The tasks share *)
(* a database, a cache under a mutex, unbounded channels and a Notify:      *)
(*                                                                          *)
(*   start_sequencer            the host's chain    -> batches_to_sequence  *)
(*   start_envelope_db_fetcher  the messages table  -> msg_cache            *)
(*   start_envelope_batcher     batches, msg_cache  -> output_envelope      *)
(*   start_move_deserializer    output_envelope     -> output_move          *)
(*   start_game                 output_move         -> played               *)
(*   DemuxedSequencer::run      output_move         -> recieve              *)
(*   start_game (litigator)     recieve["move"]     -> played               *)
(*                                                                          *)
(* A task that holds the cache's mutex does not wait for anything else, so  *)
(* each critical section is one action.  The receivers live as long as the  *)
(* tasks do, those of a DemuxedSequencer because its task owns them, so no  *)
(* send fails.                                                              *)
(***************************************************************************)
EXTENDS Naturals, SequencesExt

CONSTANTS
    Message,    \* the players' messages
    Scenario    \* consumer, kind of each of its messages, chain, faults

Channel == {"move", "psbt", "custom"}   \* the kinds of ParticipantAction
Kind == Channel \cup {"invalid"}        \* a row that is no ParticipantAction

\* What the host broadcasts; it sequences a message once (GameHost's
\* SequencedInChainOrder) and never broadcasts an empty Sequence.
HostMessage ==
    [t : {"Sequence"}, batch : Seq(Message) \ {<<>>}]
    \cup [t : {"NewPeer"}, peer : STRING] \cup [t : {"GameSetup", "Heartbeat"}]
batch(msg) == IF msg.t = "Sequence" THEN msg.batch ELSE <<>>
Batches(chain) == [h \in DOMAIN chain |-> batch(chain[h])]

ASSUME SequencerAssumption ==
    \A s \in Scenario :
        /\ s.consumer \in {"game", "demux"} /\ s.faults \in Nat
        /\ DOMAIN s.kind \subseteq Message
        /\ \A m \in DOMAIN s.kind : s.kind[m] \in Kind
        /\ s.chain \in Seq(HostMessage)
        /\ IsInjective(FlattenSeq(Batches(s.chain)))

VARIABLES
    scenario,
    message_id,           \* messages.message_id, 0 where there is no row
    last_id,
    host_rows,            \* the heights + 1 of the host's chain that are rows
    host_connected,       \* those with messages.connected
    hidden_services,
    shutdown,
    count,                \* start_sequencer: the next height
    sequencer_pc,
    batches_to_sequence,  \* channel
    newer,                \* the fetcher's cursor, 0 for None
    fetcher_pc,
    msg_cache,
    batcher_pc,
    envelope_hashes,      \* the rest of the batch in work
    notified,             \* the batcher's Notified is complete
    output_envelope,      \* channel
    output_move,          \* channel
    game_pc,
    recieve,              \* the three channels of a DemuxedSequencer
    played                \* the moves handed to the board

database == <<scenario, message_id, last_id, host_rows, host_connected>>
sequencer == <<count, sequencer_pc, hidden_services>>
fetcher == <<newer, fetcher_pc>>
batcher == <<batcher_pc, envelope_hashes, notified>>
game == <<game_pc, recieve, played>>
vars == <<database, shutdown, sequencer, batches_to_sequence, fetcher, msg_cache,
          batcher, output_envelope, output_move, game>>

HostChain == scenario.chain
kind(m) == scenario.kind[m]
Messages == DOMAIN scenario.kind
OfKind(kinds) == {m \in Messages : kind(m) \in kinds}
Parsed == OfKind(Channel)
Stored(m) == message_id[m] # 0

TypeOK ==
    /\ scenario \in Scenario
    /\ message_id \in [Messages -> Nat] /\ last_id \in Nat
    /\ host_rows \subseteq DOMAIN HostChain /\ host_connected \subseteq host_rows
    /\ hidden_services \subseteq STRING /\ shutdown \in BOOLEAN
    /\ count \in 0..Len(HostChain) /\ sequencer_pc \in {"check", "done"}
    /\ batches_to_sequence \in Seq(Seq(Message))
    /\ newer \in 0..last_id /\ fetcher_pc \in {"scan", "notify", "done", "failed"}
    /\ msg_cache \subseteq Parsed
    /\ batcher_pc \in {"recv", "drain", "registered", "awaiting", "done"}
    /\ envelope_hashes \in Seq(Message) /\ notified \in BOOLEAN
    /\ output_envelope \in Seq(Parsed) /\ output_move \in Seq(Parsed)
    /\ game_pc \in {"playing", "done"} /\ played \in Seq(Parsed)
    /\ recieve \in [Channel -> Seq(Parsed)]
    /\ \A c \in Channel : recieve[c] \in Seq(OfKind({c}))

Init ==
    /\ scenario \in Scenario
    /\ message_id = [m \in Messages |-> 0] /\ last_id = 0
    /\ host_rows = {} /\ host_connected = {} /\ hidden_services = {}
    /\ shutdown = FALSE
    /\ count = 0 /\ sequencer_pc = "check" /\ batches_to_sequence = <<>>
    /\ newer = 0 /\ fetcher_pc = "scan" /\ msg_cache = {}
    /\ batcher_pc = "recv" /\ envelope_hashes = <<>> /\ notified = FALSE
    /\ output_envelope = <<>> /\ output_move = <<>>
    /\ game_pc = "playing" /\ played = <<>>
    /\ recieve = [c \in Channel |-> <<>>]

-----------------------------------------------------------------------------
(* The environment *)

\* Envelopes arrive in any order, the players' and the host's.
store(m) ==
    /\ ~Stored(m)
    /\ last_id' = last_id + 1
    /\ message_id' = [message_id EXCEPT ![m] = last_id + 1]
    /\ UNCHANGED <<scenario, host_rows, host_connected, shutdown, sequencer,
                   batches_to_sequence, fetcher, msg_cache, batcher,
                   output_envelope, output_move, game>>

\* A row is connected when it is inserted if its parent is; else it waits for
\* attach_tips.
Connects_always(h) == TRUE
Connects(h) == h = 1 \/ h - 1 \in host_connected

store_host(h) ==
    /\ h \notin host_rows
    /\ h # 1 => 1 \in host_rows
    /\ host_rows' = host_rows \cup {h}
    /\ host_connected' = IF Connects(h) THEN host_connected \cup {h}
                         ELSE host_connected
    /\ last_id' = last_id + 1
    /\ UNCHANGED <<scenario, message_id, shutdown, sequencer, batches_to_sequence,
                   fetcher, msg_cache, batcher, output_envelope, output_move,
                   game>>

attach_tips ==
    /\ host_connected' = {h \in host_rows : 1..h \subseteq host_rows}
    /\ UNCHANGED <<scenario, message_id, last_id, host_rows, shutdown, sequencer,
                   batches_to_sequence, fetcher, msg_cache, batcher,
                   output_envelope, output_move, game>>

\* GameServer::shutdown
request_shutdown ==
    /\ ~shutdown
    /\ shutdown' = TRUE
    /\ UNCHANGED <<database, sequencer, batches_to_sequence, fetcher,
                   msg_cache, batcher, output_envelope, output_move, game>>

-----------------------------------------------------------------------------
(* A definition named X_fault is X with a bug the code could have had.       *)
(* Nothing uses it: put in place of X, it shows that a property notices.      *)

(* The tasks *)

\* The host's message at height count, connected or not.
start_sequencer ==
    /\ sequencer_pc = "check"
    /\ IF shutdown
       THEN /\ sequencer_pc' = "done"
            /\ UNCHANGED <<count, batches_to_sequence, hidden_services>>
       ELSE /\ count + 1 \in host_rows
            /\ LET msg == HostChain[count + 1]
               IN /\ batches_to_sequence' = IF msg.t = "Sequence"
                                            THEN Append(batches_to_sequence, msg.batch)
                                            ELSE batches_to_sequence
                  /\ hidden_services' = IF msg.t = "NewPeer"
                                        THEN hidden_services \cup {msg.peer}
                                        ELSE hidden_services
            /\ count' = count + 1
            /\ UNCHANGED sequencer_pc
    /\ UNCHANGED <<database, shutdown, fetcher, msg_cache, batcher,
                   output_envelope, output_move, game>>

\* Only a task that is already suspended is woken.
notify_waiters_suspended == notified' = (notified \/ batcher_pc = "awaiting")

\* notify_waiters completes every Notified that exists, awaited or not yet.
notify_waiters ==
    notified' = (notified \/ batcher_pc \in {"registered", "awaiting"})

\* The cursor goes one too far.
collect_into_cache_past_end ==
    /\ msg_cache' = msg_cache \cup {m \in Parsed : message_id[m] > newer}
    /\ newer' = last_id + 1

\* get_all_messages_collect_into_inconsistent_skip_invalid under the lock: the
\* rows after the cursor that parse go to the cache, the cursor passes all.
collect_into_cache ==
    /\ msg_cache' = msg_cache \cup {m \in Parsed : message_id[m] > newer}
    /\ newer' = last_id

start_envelope_db_fetcher ==
    \/ /\ fetcher_pc = "scan" /\ ~shutdown
       /\ collect_into_cache
       /\ fetcher_pc' = IF newer' # newer THEN "notify" ELSE "scan"
       /\ UNCHANGED <<database, shutdown, sequencer, batches_to_sequence,
                      batcher, output_envelope, output_move, game>>
    \/ /\ fetcher_pc = "notify"
       /\ notify_waiters
       /\ fetcher_pc' = "scan"
       /\ UNCHANGED <<database, shutdown, sequencer, batches_to_sequence, newer,
                      msg_cache, batcher_pc, envelope_hashes, output_envelope,
                      output_move, game>>

\* The query fails, perhaps after some rows: the task ends without a word.
fetcher_fails ==
    /\ fetcher_pc = "scan" /\ ~shutdown /\ scenario.faults > 0
    /\ \E read \in newer..last_id :
          msg_cache' = msg_cache \cup {m \in Parsed : message_id[m] \in (newer + 1)..read}
    /\ fetcher_pc' = "failed"
    /\ UNCHANGED <<database, shutdown, sequencer, batches_to_sequence, newer,
                   batcher, output_envelope, output_move, game>>

\* The last notification forgotten.
fetcher_shutdown_silent ==
    /\ fetcher_pc = "scan" /\ shutdown
    /\ fetcher_pc' = "done"
    /\ UNCHANGED <<database, shutdown, sequencer, batches_to_sequence, newer,
                   msg_cache, batcher, output_envelope, output_move, game>>

fetcher_shutdown ==
    /\ fetcher_pc = "scan" /\ shutdown
    /\ notify_waiters
    /\ fetcher_pc' = "done"
    /\ UNCHANGED <<database, shutdown, sequencer, batches_to_sequence, newer,
                   msg_cache, batcher_pc, envelope_hashes, output_envelope,
                   output_move, game>>

batcher_recv ==
    /\ batcher_pc = "recv" /\ batches_to_sequence # <<>>
    /\ envelope_hashes' = Head(batches_to_sequence)
    /\ batches_to_sequence' = Tail(batches_to_sequence)
    /\ batcher_pc' = "drain"
    /\ UNCHANGED <<database, shutdown, sequencer, fetcher, msg_cache, notified,
                   output_envelope, output_move, game>>

\* Under the lock: move the envelopes of the batch out of the cache, in order,
\* up to the first that is not there; then register for a notification.
Available ==
    {n \in 0..Len(envelope_hashes) :
        \A i \in 1..n : envelope_hashes[i] \in msg_cache}

\* Takes what is there and comes back for the rest.
batcher_drain_skip ==
    /\ batcher_pc = "drain"
    /\ LET out == SelectSeq(envelope_hashes, LAMBDA m : m \in msg_cache)
           rest == SelectSeq(envelope_hashes, LAMBDA m : m \notin msg_cache)
       IN
       /\ msg_cache' = msg_cache \ ToSet(out)
       /\ output_envelope' = output_envelope \o out
       /\ envelope_hashes' = rest
       /\ batcher_pc' = IF rest = <<>> THEN "recv" ELSE "registered"
    /\ notified' = FALSE
    /\ UNCHANGED <<database, shutdown, sequencer, batches_to_sequence, fetcher,
                   output_move, game>>

batcher_drain ==
    /\ batcher_pc = "drain"
    /\ LET n == Max(Available)
           out == SubSeq(envelope_hashes, 1, n)
           rest == SubSeq(envelope_hashes, n + 1, Len(envelope_hashes))
       IN
       /\ msg_cache' = msg_cache \ ToSet(out)
       /\ output_envelope' = output_envelope \o out
       /\ envelope_hashes' = rest
       /\ batcher_pc' = IF rest = <<>> THEN "recv" ELSE "registered"
    /\ notified' = FALSE
    /\ UNCHANGED <<database, shutdown, sequencer, batches_to_sequence, fetcher,
                   output_move, game>>

\* The lock is dropped, then the notification awaited.
batcher_await ==
    /\ batcher_pc = "registered"
    /\ batcher_pc' = "awaiting"
    /\ UNCHANGED <<database, shutdown, sequencer, batches_to_sequence, fetcher,
                   msg_cache, envelope_hashes, notified, output_envelope,
                   output_move, game>>

batcher_wake ==
    /\ batcher_pc = "awaiting" /\ notified
    /\ batcher_pc' = IF shutdown THEN "done" ELSE "drain"
    /\ UNCHANGED <<database, shutdown, sequencer, batches_to_sequence, fetcher,
                   msg_cache, envelope_hashes, notified, output_envelope,
                   output_move, game>>

start_envelope_batcher ==
    batcher_recv \/ batcher_drain \/ batcher_await \/ batcher_wake

\* read_move, and Ok in a DemuxedSequencer, map every ParticipantAction to Ok, so
\* nothing is skipped.
start_move_deserializer ==
    /\ output_envelope # <<>>
    /\ output_move' = Append(output_move, Head(output_envelope))
    /\ output_envelope' = Tail(output_envelope)
    /\ UNCHANGED <<database, shutdown, sequencer, batches_to_sequence, fetcher,
                   msg_cache, batcher, game>>

(* The consumers *)

\* The desktop's task: its loop ends when output_move gives None, which is what
\* Sequencer::output_move makes of an action that is not a move.
start_game ==
    /\ scenario.consumer = "game" /\ game_pc = "playing" /\ output_move # <<>>
    /\ IF kind(Head(output_move)) = "move"
       THEN played' = Append(played, Head(output_move)) /\ UNCHANGED game_pc
       ELSE game_pc' = "done" /\ UNCHANGED played
    /\ output_move' = Tail(output_move)
    /\ UNCHANGED <<database, shutdown, sequencer, batches_to_sequence, fetcher,
                   msg_cache, batcher, output_envelope, recieve>>

\* DemuxedSequencer::run.  Its task holds the receivers itself, so it listens
\* for ever.
demux ==
    /\ scenario.consumer = "demux" /\ output_move # <<>>
    /\ LET m == Head(output_move)
       IN recieve' = [recieve EXCEPT ![kind(m)] = Append(@, m)]
    /\ output_move' = Tail(output_move)
    /\ UNCHANGED <<database, shutdown, sequencer, batches_to_sequence, fetcher,
                   msg_cache, batcher, output_envelope, game_pc, played>>

\* The litigator's task, until its game is finished.
litigator_start_game ==
    /\ recieve["move"] # <<>>
    /\ played' = Append(played, Head(recieve["move"]))
    /\ recieve' = [recieve EXCEPT !["move"] = Tail(@)]
    /\ UNCHANGED <<database, shutdown, sequencer, batches_to_sequence, fetcher,
                   msg_cache, batcher, output_envelope, output_move, game_pc>>

-----------------------------------------------------------------------------

Next ==
    \/ \E m \in Messages : store(m)
    \/ \E h \in DOMAIN HostChain : store_host(h)
    \/ attach_tips
    \/ request_shutdown
    \/ start_sequencer
    \/ start_envelope_db_fetcher \/ fetcher_shutdown \/ fetcher_fails
    \/ start_envelope_batcher
    \/ start_move_deserializer
    \/ start_game \/ demux \/ litigator_start_game

Spec == Init /\ [][Next]_vars

\* Every task is a loop of the tokio runtime: it goes on when it can.
FairSpec ==
    /\ Spec
    /\ WF_vars(start_sequencer)
    /\ WF_vars(start_envelope_db_fetcher) /\ WF_vars(fetcher_shutdown)
    /\ WF_vars(start_envelope_batcher)
    /\ WF_vars(start_move_deserializer)
    /\ WF_vars(start_game) /\ WF_vars(demux) /\ WF_vars(litigator_start_game)

-----------------------------------------------------------------------------
(* The offline sequencer *)

MissingTip == [error |-> "MissingTip", batches |-> <<>>]
Gap == [error |-> "Gap", batches |-> <<>>]

\* TryFrom<RawSequencer> for the host's envelopes of these heights + 1: all are
\* of the host's key.
OfflineSequencer(heights) ==
    IF heights # <<>> /\ heights[1] # 1 THEN MissingTip
    ELSE IF \E i \in 1..Len(heights) - 1 : heights[i] + 1 # heights[i + 1] THEN Gap
    ELSE [error |-> "none",
          batches |-> [i \in DOMAIN heights |-> batch(HostChain[heights[i]])]]

\* What is selected of the batches, in order: the function that
\* directly_sequence_map is given keeps the messages of some kinds.
Select(s, S) ==
    LET kept[n \in 0..Len(s)] ==
            IF n = 0 THEN <<>>
            ELSE IF s[n] \in S THEN Append(kept[n - 1], s[n]) ELSE kept[n - 1]
    IN kept[Len(s)]

Selected(batches, kinds) == Select(FlattenSeq(batches), OfKind(kinds))

\* Every message of the batches is taken from the cache; the first that is not
\* there ends it.
directly_sequence_map(batches, cache, kinds) ==
    IF ToSet(FlattenSeq(batches)) \subseteq cache
    THEN [error |-> "none", selected |-> Selected(batches, kinds)]
    ELSE [error |-> "MissingEnvelope", selected |-> <<>>]

\* make_snapshot of the litigator: the host's connected envelopes, and of the
\* messages they sequence those that are stored and well-formed.  (Its query of
\* these fails over a message that is not, where directly_sequence_map would.)
Ascending(S) ==
    CHOOSE s \in [1..Cardinality(S) -> S] : \A i, j \in DOMAIN s : i < j => s[i] < s[j]

snapshot == OfflineSequencer(Ascending(host_connected))
SnapshotMoves ==
    directly_sequence_map(snapshot.batches, {m \in Parsed : Stored(m)}, {"move"})

-----------------------------------------------------------------------------
(* Properties *)

\* What each consumer is to get of the host's whole chain, and what it got.
Order ==
    [c \in Channel |->
        IF scenario.consumer = "game" /\ c # "move" THEN <<>>
        ELSE Selected(Batches(HostChain), {c})]
Delivered == [recieve EXCEPT !["move"] = played \o @]

Delivery == INSTANCE OrderedDelivery WITH order <- Order, delivered <- Delivered

\* Whatever order rows arrive in and the tasks run in, the online sequencer with
\* its consumer implements OrderedDelivery: the next thing that comes out of a
\* channel is the next that the host's chain puts in it.
DeliversInOrder == Delivery!Spec

\* An offline reader of the same database (game, make_snapshot) never meets a
\* missing tip or a gap in the host's chain.  A message that the chain sequences
\* may be missing, and then the reader gets no moves at all; where it gets them, it
\* finds them in the order in which they are played: one of the two sequences
\* continues the other.
SnapshotsAgree ==
    /\ snapshot.error = "none"
    /\ SnapshotMoves.error = "none" =>
          \/ IsPrefix(played, SnapshotMoves.selected)
          \/ IsPrefix(SnapshotMoves.selected, played)

\* m is in a batch, and the host's chain and the players' messages are stored
\* up to there, all of them well-formed.
Ready(m) ==
    \E h \in DOMAIN HostChain : \E i \in DOMAIN batch(HostChain[h]) :
        /\ batch(HostChain[h])[i] = m
        /\ 1..h \subseteq host_rows
        /\ \A n \in ToSet(FlattenSeq(SubSeq(Batches(HostChain), 1, h - 1)))
                    \cup ToSet(SubSeq(batch(HostChain[h]), 1, i)) :
              Stored(n) /\ n \in Parsed

\* An action that the consumer has a use for, and has got
Wanted(m) == kind(m) = "move" \/ (scenario.consumer = "demux" /\ m \in Parsed)
Got(m) ==
    \/ m \in ToSet(played)
    \/ \E c \in Channel \ {"move"} : m \in ToSet(recieve[c])

\* A move (for a DemuxedSequencer, any action) that is sequenced and stored, as all
\* before it, is played unless the game is shut down or the fetcher's query failed:
\* no wakeup of the batcher is lost and no row is passed by the cursor.
AllMovesPlayed ==
    \A m \in Message :
        (m \in Messages /\ Wanted(m) /\ Ready(m)) ~> (Got(m) \/ shutdown \/ fetcher_pc = "failed")

\* "If we got woken up because of shutdown, shut down": a batcher that waits
\* for an envelope when the shutdown comes ends, because the fetcher notifies
\* once more before it returns.
WaitingBatcherStops ==
    (shutdown /\ batcher_pc = "awaiting" /\ fetcher_pc \in {"scan", "notify"})
        ~> batcher_pc = "done"

=============================================================================
