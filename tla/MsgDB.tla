------------------------------- MODULE MsgDB -------------------------------
(***************************************************************************)
(* The attestation database (common/attest-database): the messages table   *)
(* with its constraints and trigger, the users, private_keys and           *)
(* message_nonces tables, and the operations of MsgDBHandle that change    *)
(* them.  Several processes (the attest daemon, a game host, the desktop   *)
(* application, a litigator) open the same SQLite file, so the writers     *)
(* interleave at the granularity of one statement or one transaction.      *)
(*                                                                         *)
(* An envelope stands for its hash.  Its header fields are the constant    *)
(* functions key, height, prev_msg and genesis.  The nonce an envelope is  *)
(* signed with is the one its parent committed to, so two envelopes reuse  *)
(* a nonce exactly when they have the same prev_msg.                       *)
(***************************************************************************)
EXTENDS Naturals, FiniteSets

CONSTANTS
    Envelope,   \* the envelopes that may ever exist
    Key,        \* public keys
    LocalKey,   \* the keys whose secret half this database may come to hold
    Writer,     \* processes that author envelopes through this database
    NULL,       \* the all-zero hash, and "no value" in a writer's variables
    key, height, prev_msg, genesis,  \* header fields
    ancestors   \* an envelope and all that its prev_msg hashes lead back to

\* Every author builds its headers as wrap_message_in_envelope_for_user_by_key
\* and generate_new_user_keypair do; self_authenticate checks the part about
\* height 0.
ASSUME HeaderAssumption ==
    /\ LocalKey \subseteq Key
    /\ NULL \notin Envelope
    /\ key \in [Envelope -> Key]
    /\ height \in [Envelope -> Nat]
    /\ genesis \in [Envelope -> Envelope]
    /\ prev_msg \in [Envelope -> Envelope \cup {NULL}]
    /\ \A e \in Envelope :
         IF height[e] = 0
         THEN prev_msg[e] = NULL /\ genesis[e] = e
         ELSE /\ prev_msg[e] \in Envelope
              /\ height[e] = height[prev_msg[e]] + 1
              /\ key[e] = key[prev_msg[e]]
              /\ genesis[e] = genesis[prev_msg[e]]
              /\ height[genesis[e]] = 0
              /\ genesis[e] # e
    /\ ancestors \in [Envelope -> SUBSET Envelope]
    /\ \A e \in Envelope :
         /\ ancestors[e] = IF height[e] = 0 THEN {e}
                           ELSE {e} \cup ancestors[prev_msg[e]]
         /\ \A f \in ancestors[e] : height[f] <= height[e]
                                   /\ genesis[f] = genesis[e]

VARIABLES
    users,        \* users.key
    keypairs,     \* private_keys.public_key
    nonces,       \* envelopes whose next_nonce has its secret in message_nonces
    message_id,   \* messages.message_id, 0 where there is no row
    prev_msg_id,  \* messages.prev_msg_id, 0 for SQL's NULL
    genesis_id,   \* messages.genesis_id, 0 for SQL's NULL
    connected,    \* messages.connected
    last_id,      \* the AUTOINCREMENT counter of messages
    pc,           \* where each writer is
    author,       \* the key each writer signs with
    draft,        \* the envelope each writer has made and not yet inserted
    bypass,       \* push_message_dangerous: the tip both branches build on
    equivocated   \* history: keys told to equivocate

tables == <<users, keypairs, nonces, message_id, prev_msg_id, genesis_id,
            connected, last_id>>
rows == <<message_id, prev_msg_id, genesis_id, connected, last_id>>
locals == <<pc, author, draft, bypass>>
vars == <<tables, locals, equivocated>>

WriterState == {"idle", "save_nonce", "insert_genesis", "wrap", "insert",
                "bypass_wrap_1", "bypass_insert_1",
                "bypass_wrap_2", "bypass_insert_2"}

TypeOK ==
    /\ users \subseteq Key
    /\ keypairs \subseteq LocalKey
    /\ nonces \subseteq Envelope
    /\ message_id \in [Envelope -> Nat]
    /\ prev_msg_id \in [Envelope -> Nat]
    /\ genesis_id \in [Envelope -> Nat]
    /\ connected \in [Envelope -> BOOLEAN]
    /\ last_id \in Nat
    /\ pc \in [Writer -> WriterState]
    /\ author \in [Writer -> Key \cup {NULL}]
    /\ draft \in [Writer -> Envelope \cup {NULL}]
    /\ bypass \in [Writer -> Envelope \cup {NULL}]
    /\ equivocated \subseteq Key

Init ==
    /\ users = {} /\ keypairs = {} /\ nonces = {}
    /\ message_id = [e \in Envelope |-> 0]
    /\ prev_msg_id = [e \in Envelope |-> 0]
    /\ genesis_id = [e \in Envelope |-> 0]
    /\ connected = [e \in Envelope |-> FALSE]
    /\ last_id = 0
    /\ pc = [w \in Writer |-> "idle"]
    /\ author = [w \in Writer |-> NULL]
    /\ draft = [w \in Writer |-> NULL]
    /\ bypass = [w \in Writer |-> NULL]
    /\ equivocated = {}

-----------------------------------------------------------------------------
(* A definition named X_fault is X with a bug the code could have had.       *)
(* Nothing uses it: put in place of X, it shows that a property notices.      *)

(* Queries *)

Stored(e) == message_id[e] # 0

\* The row another row's hash column selects, as its message_id; 0 is SQL's
\* NULL, for the all-zero hash too.
IdOf(h) == IF h = NULL THEN 0 ELSE message_id[h]

\* exists_children.sql: is there a row with this prev_msg?
message_exists_children(h) == \E c \in Envelope : Stored(c) /\ prev_msg[c] = h

\* No ORDER BY height DESC.
get_tip_for_user_by_key_any(k) == {t \in Envelope : connected[t] /\ key[t] = k}

\* message_tips_by_user.sql: the connected row of greatest height; a user with
\* a fork has several candidates and LIMIT 1 picks any of them.
get_tip_for_user_by_key(k) ==
    {t \in Envelope :
        /\ connected[t] /\ key[t] = k
        /\ \A f \in Envelope : connected[f] /\ key[f] = k => height[f] <= height[t]}

-----------------------------------------------------------------------------
(* Inserting a row *)

\* INSERT OR REPLACE.
InsertOutcome_replace(e, known) ==
    IF key[e] \notin known THEN "NotNull"
    ELSE IF height[e] > 0 /\ IdOf(genesis[e]) = 0 THEN "Check"
    ELSE "Ok"

\* The outcome of insert/envelope.sql.  SQLite checks NOT NULL, then the table's
\* CHECKs, then UNIQUE.
InsertOutcome(e, known) ==
    IF key[e] \notin known THEN "NotNull"
    ELSE IF height[e] > 0 /\ IdOf(genesis[e]) = 0 THEN "Check"
    ELSE IF Stored(e) THEN "Unique"
    ELSE "Ok"

\* No trigger message_parents.
InsertRow_no_trigger(e) ==
    /\ last_id' = last_id + 1
    /\ message_id' = [message_id EXCEPT ![e] = last_id + 1]
    /\ prev_msg_id' = [prev_msg_id EXCEPT ![e] = IdOf(prev_msg[e])]
    /\ genesis_id' = [genesis_id EXCEPT ![e] = IdOf(genesis[e])]
    /\ connected' = [connected EXCEPT ![e] =
                       height[e] = 0 \/ connected[prev_msg[e]]]

\* insert/envelope.sql computes the row's columns from the rows already there;
\* the trigger message_parents then links the children that were waiting for
\* this row, and leaves their connected flag alone.
InsertRow(e) ==
    LET id == last_id + 1 IN
    /\ last_id' = id
    /\ message_id' = [message_id EXCEPT ![e] = id]
    /\ prev_msg_id' = [c \in Envelope |->
                         IF c = e THEN IdOf(prev_msg[e])
                         ELSE IF Stored(c) /\ prev_msg[c] = e THEN id
                         ELSE prev_msg_id[c]]
    /\ genesis_id' = [genesis_id EXCEPT ![e] = IdOf(genesis[e])]
    /\ connected' = [connected EXCEPT ![e] =
                       \/ height[e] = 0
                       \/ connected[prev_msg[e]]]

\* try_insert_authenticated_envelope_with_txn: the row, or nothing.
InsertEnvelope(e, known) ==
    IF InsertOutcome(e, known) = "Ok" THEN InsertRow(e) ELSE UNCHANGED rows

\* reuse_safe ignored.
TryInsertOutcome_unchecked(e, reuse_safe) == InsertOutcome(e, users)

\* try_insert_authenticated_envelope: with reuse_safe, an envelope whose parent
\* already has a child is refused as a uniqueness failure.
TryInsertOutcome(e, reuse_safe) ==
    IF reuse_safe /\ height[e] > 0 /\ message_exists_children(prev_msg[e])
    THEN "Unique"
    ELSE InsertOutcome(e, users)

try_insert_authenticated_envelope(e, reuse_safe) ==
    /\ IF TryInsertOutcome(e, reuse_safe) = "Ok"
       THEN InsertRow(e) ELSE UNCHANGED rows
    /\ UNCHANGED <<users, keypairs, nonces>>

\* The hash bound to the key column.
insert_user_by_genesis_envelope_hash(e) ==
    /\ users' = users \cup {e}
    /\ InsertEnvelope(e, users \cup {key[e]})
    /\ UNCHANGED <<keypairs, nonces>>

\* insert_user_by_genesis_envelope: one transaction that adds the user, unless
\* the key is known, and then the envelope; it commits whichever way the
\* envelope's insert went.
insert_user_by_genesis_envelope(e) ==
    /\ users' = users \cup {key[e]}
    /\ InsertEnvelope(e, users \cup {key[e]})
    /\ UNCHANGED <<keypairs, nonces>>

-----------------------------------------------------------------------------
(* attach_tips: update/do_connect.sql *)

\* The parent only has to be stored.
Attachable_stored ==
    {e \in Envelope : /\ Stored(e) /\ ~connected[e]
                      /\ height[e] > 0 /\ Stored(prev_msg[e])}

\* The parent has to be a genesis.
Attachable_to_genesis ==
    {e \in Envelope : /\ Stored(e) /\ ~connected[e] /\ height[e] > 0
                      /\ connected[prev_msg[e]] /\ height[prev_msg[e]] = 0}

\* The first SELECT of the recursive query: rows not connected whose parent is.
Attachable ==
    {e \in Envelope : /\ Stored(e) /\ ~connected[e]
                      /\ height[e] > 0 /\ connected[prev_msg[e]]}

\* e is b or a row the recursive SELECT reaches from b, following stored
\* children, connected or not.
ReachedFrom(b, e) ==
    /\ b \in ancestors[e]
    /\ \A f \in ancestors[e] : height[f] >= height[b] => Stored(f)

\* No recursion: one level at a time.
Updatable_one_level == Attachable

Updatable == {e \in Envelope : \E b \in Attachable : ReachedFrom(b, e)}

\* The row of the first SELECT from which the recursion reached e: its parent's
\* genesis is what e receives.
AttachedFrom(e) == CHOOSE b \in Attachable : ReachedFrom(b, e)

\* The parent taken for the genesis.
GenesisFrom_parent(b) == message_id[prev_msg[b]]

GenesisFrom(b) == IF height[prev_msg[b]] = 0
                  THEN message_id[prev_msg[b]]
                  ELSE genesis_id[prev_msg[b]]

attach_tips ==
    LET U == Updatable IN
    /\ connected' = [e \in Envelope |-> connected[e] \/ e \in U]
    /\ prev_msg_id' = [e \in Envelope |->
                         IF e \in U THEN IdOf(prev_msg[e]) ELSE prev_msg_id[e]]
    /\ genesis_id' = [e \in Envelope |->
                        IF e \in U THEN GenesisFrom(AttachedFrom(e))
                                   ELSE genesis_id[e]]
    /\ UNCHANGED <<users, keypairs, nonces, message_id, last_id,
                   locals, equivocated>>

-----------------------------------------------------------------------------
(* Envelopes that come from peers.  A local envelope can only come back if it *)
(* was stored here first.                                                    *)

Receivable(e) == key[e] \notin LocalKey \/ Stored(e)

\* handle_envelope of fetch_peer.rs, genesis branch
ReceiveGenesis(e) ==
    /\ Receivable(e) /\ height[e] = 0
    /\ insert_user_by_genesis_envelope(e)
    /\ UNCHANGED <<locals, equivocated>>

\* handle_envelope, other branch, and post_envelope of protocol.rs, which also
\* gets genesis envelopes
ReceiveEnvelope(e) ==
    /\ Receivable(e)
    /\ try_insert_authenticated_envelope(e, FALSE)
    /\ UNCHANGED <<locals, equivocated>>

-----------------------------------------------------------------------------
(* make_genesis: three statements, each committed on its own *)

save_keypair(w, e) ==
    /\ pc[w] = "idle"
    /\ height[e] = 0 /\ key[e] \in LocalKey \ keypairs
    /\ keypairs' = keypairs \cup {key[e]}
    /\ pc' = [pc EXCEPT ![w] = "save_nonce"]
    /\ author' = [author EXCEPT ![w] = key[e]]
    /\ draft' = [draft EXCEPT ![w] = e]
    /\ UNCHANGED <<users, nonces, rows, bypass, equivocated>>

save_nonce_for_user_by_key(w) ==
    /\ pc[w] = "save_nonce"
    /\ nonces' = nonces \cup {draft[w]}
    /\ pc' = [pc EXCEPT ![w] = "insert_genesis"]
    /\ UNCHANGED <<users, keypairs, rows, author, draft, bypass, equivocated>>

insert_genesis(w) ==
    /\ pc[w] = "insert_genesis"
    /\ insert_user_by_genesis_envelope(draft[w])
    /\ pc' = [pc EXCEPT ![w] = "idle"]
    /\ UNCHANGED <<author, draft, bypass, equivocated>>

-----------------------------------------------------------------------------
(* Authoring: retry_insert_authenticated_envelope_atomic and the equivocating *)
(* branch of push_message_dangerous                                          *)

\* A caller that holds the key starts the retry loop.
push_message(w, k) ==
    /\ pc[w] = "idle" /\ k \in keypairs
    /\ pc' = [pc EXCEPT ![w] = "wrap"]
    /\ author' = [author EXCEPT ![w] = k]
    /\ UNCHANGED <<tables, draft, bypass, equivocated>>

\* wrap_message_in_envelope_for_user_by_key on tip t: the secret of the nonce t
\* committed to must be known; the nonce for the next envelope is generated and
\* saved; e is the new, signed envelope.
wrap_message_in_envelope_for_user_by_key(w, t, e) ==
    /\ t \in nonces
    /\ prev_msg[e] = t /\ e \notin nonces
    /\ nonces' = nonces \cup {e}
    /\ draft' = [draft EXCEPT ![w] = e]
    /\ UNCHANGED <<users, keypairs, rows, author, bypass, equivocated>>

wrap(w, e) ==
    /\ pc[w] = "wrap"
    /\ \E t \in get_tip_for_user_by_key(author[w]) :
         wrap_message_in_envelope_for_user_by_key(w, t, e)
    /\ pc' = [pc EXCEPT ![w] = "insert"]

\* Err(SqliteConstraintUnique) goes round the loop again, any other error and
\* success leave it.
insert(w) ==
    /\ pc[w] = "insert"
    /\ try_insert_authenticated_envelope(draft[w], TRUE)
    /\ pc' = [pc EXCEPT ![w] =
                IF TryInsertOutcome(draft[w], TRUE) = "Unique"
                THEN "wrap" ELSE "idle"]
    /\ UNCHANGED <<author, draft, bypass, equivocated>>

\* push_message_dangerous with equivocate set reads the tip once ...
push_message_dangerous(w, k) ==
    /\ pc[w] = "idle" /\ k \in keypairs
    /\ \E t \in get_tip_for_user_by_key(k) :
         bypass' = [bypass EXCEPT ![w] = t]
    /\ author' = [author EXCEPT ![w] = k]
    /\ pc' = [pc EXCEPT ![w] = "bypass_wrap_1"]
    /\ equivocated' = equivocated \cup {k}
    /\ UNCHANGED <<tables, draft>>

\* ... and for each of the two messages wraps on that tip and inserts without
\* the reuse check, ignoring the outcome.
bypass_wrap(w, e) ==
    /\ pc[w] \in {"bypass_wrap_1", "bypass_wrap_2"}
    /\ wrap_message_in_envelope_for_user_by_key(w, bypass[w], e)
    /\ pc' = [pc EXCEPT ![w] = IF pc[w] = "bypass_wrap_1"
                               THEN "bypass_insert_1" ELSE "bypass_insert_2"]

bypass_insert(w) ==
    /\ pc[w] \in {"bypass_insert_1", "bypass_insert_2"}
    /\ try_insert_authenticated_envelope(draft[w], FALSE)
    /\ pc' = [pc EXCEPT ![w] = IF pc[w] = "bypass_insert_1"
                               THEN "bypass_wrap_2" ELSE "idle"]
    /\ UNCHANGED <<author, draft, bypass, equivocated>>

\* A database error (no tip, no secret, a busy or full database) or the death
\* of the process between two statements ends the operation where it is.
abort(w) ==
    /\ pc[w] # "idle"
    /\ pc' = [pc EXCEPT ![w] = "idle"]
    /\ UNCHANGED <<tables, author, draft, bypass, equivocated>>

-----------------------------------------------------------------------------

WriterStep(w) ==
    \/ \E e \in Envelope : save_keypair(w, e) \/ wrap(w, e) \/ bypass_wrap(w, e)
    \/ save_nonce_for_user_by_key(w) \/ insert_genesis(w)
    \/ \E k \in LocalKey : push_message(w, k) \/ push_message_dangerous(w, k)
    \/ insert(w) \/ bypass_insert(w)
    \/ abort(w)

Next ==
    \/ \E e \in Envelope : ReceiveGenesis(e) \/ ReceiveEnvelope(e)
    \/ attach_tips
    \/ \E w \in Writer : WriterStep(w)

Spec == Init /\ [][Next]_vars

\* The tip attacher of peer_services/mod.rs runs attach_tips on a timer.
FairSpec == Spec /\ WF_vars(attach_tips)

-----------------------------------------------------------------------------
(* Properties *)

\* Whatever the order rows arrive in, prev_msg_id is the parent's row as soon
\* as both rows exist, and NULL before: the insert and the trigger
\* message_parents between them never miss a link.
ParentLinked ==
    \A e \in Envelope : Stored(e) => prev_msg_id[e] = IdOf(prev_msg[e])

\* Every row that is not a genesis names its genesis row, which is stored, and
\* the key of every row is a user: attach_tips, which rewrites the column from
\* the parent's row, agrees with the header.
GenesisLinked ==
    \A e \in Envelope : Stored(e) =>
        /\ key[e] \in users
        /\ genesis_id[e] = IF height[e] = 0 THEN 0 ELSE message_id[genesis[e]]
        /\ Stored(genesis[e])

\* A connected row's parent is stored and connected, so a connected row has its
\* whole chain down to the genesis.
ConnectedClosed ==
    \A e \in Envelope : connected[e] =>
        /\ Stored(e)
        /\ height[e] > 0 => connected[prev_msg[e]]

\* The columns that the readers join on agree with the headers at all times, whatever
\* the order of arrivals: the insert, the trigger and attach_tips between them keep
\* every row linked to its parent and genesis, and a connected row has its whole chain.
LinksAreSound == ParentLinked /\ GenesisLinked /\ ConnectedClosed

\* No two rows of a local key are signed with the same nonce, whatever the
\* interleaving of writers, unless the key was told to equivocate: the
\* reuse_safe check holds although the tip was read before the transaction.
NoNonceReuse ==
    \A e, f \in Envelope :
        /\ Stored(e) /\ Stored(f) /\ e # f
        /\ key[e] \in LocalKey \ equivocated
        => \/ prev_msg[e] # prev_msg[f]
           \/ prev_msg[e] = NULL

\* When the reuse_safe check refuses a draft, the tip the next round of the
\* retry loop reads is higher than the one it built on, so the loop cannot
\* spin on one tip.
RefusalMeansNewTip ==
    \A w \in Writer :
        /\ pc[w] = "insert"
        /\ message_exists_children(prev_msg[draft[w]])
        => \A t \in get_tip_for_user_by_key(author[w]) :
             height[t] > height[prev_msg[draft[w]]]

\* What a writer in the middle of an operation can rely on: its key is local,
\* the parent of its draft is connected (and stays so, whatever the other
\* writers do), and only keys told to equivocate skip the reuse check.
WriterInv ==
    \A w \in Writer :
        /\ pc[w] # "idle" => author[w] \in LocalKey
        /\ pc[w] \in {"save_nonce", "insert_genesis"} =>
             /\ draft[w] \in Envelope
             /\ height[draft[w]] = 0 /\ key[draft[w]] = author[w]
        /\ pc[w] \in {"insert", "bypass_insert_1", "bypass_insert_2"} =>
             /\ draft[w] \in Envelope
             /\ height[draft[w]] > 0 /\ key[draft[w]] = author[w]
             /\ connected[prev_msg[draft[w]]]
        /\ pc[w] \in {"bypass_wrap_1", "bypass_insert_1",
                      "bypass_wrap_2", "bypass_insert_2"} =>
             /\ bypass[w] \in Envelope
             /\ connected[bypass[w]] /\ key[bypass[w]] = author[w]
             /\ author[w] \in equivocated

\* A local envelope is connected as soon as it is stored: the local chain has
\* no gaps for attach_tips to close.
LocalConnected ==
    \A e \in Envelope : Stored(e) /\ key[e] \in LocalKey => connected[e]

\* Ids are handed out in increasing order.
IdsBounded == \A e \in Envelope : message_id[e] <= last_id

\* A row, once stored, keeps its id, and never loses its links or its
\* connected flag; a new row's id is larger than every id before it, so a
\* reader that continues after the largest id it saw misses no row.
RowsAreStable ==
    [][\A e \in Envelope :
         IF Stored(e)
         THEN /\ message_id'[e] = message_id[e]
              /\ prev_msg_id[e] # 0 => prev_msg_id'[e] = prev_msg_id[e]
              /\ genesis_id'[e] = genesis_id[e]
              /\ connected[e] => connected'[e]
         ELSE message_id'[e] # 0 =>
                \A f \in Envelope : message_id[f] < message_id'[e]]_vars

\* Every ancestor of e is stored.
ChainStored(e) == \A f \in ancestors[e] : Stored(f)

\* A row whose ancestors have all arrived is eventually connected, in whatever
\* order they came, because attach_tips keeps running.
EventuallyConnected ==
    []<>(\A e \in Envelope : ChainStored(e) => connected[e])

=============================================================================
