------------------------------ MODULE GameHost ------------------------------
(***************************************************************************)
(* The sequencing task of the game host (common/game-host/src/main.rs):     *)
(* game_server starts one task game per key it holds and starts it again    *)
(* when it has quit; the task reads the chains of its commit group from the *)
(* shared database and publishes, on its own chain, batches that put their  *)
(* messages in one order.                                                   *)
(*                                                                          *)
(* A message stands for its hash.  The rows of the members' chains arrive   *)
(* in any order once the genesis is stored (MsgDB's GenesisLinked), ids are *)
(* handed out in increasing order (MsgDB's RowsAreStable).  The host's own  *)
(* chain is kept as the concatenation of its Sequence messages, which is    *)
(* what every reader of it computes.                                        *)
(***************************************************************************)
EXTENDS Naturals, Sequences, FiniteSets, Functions

CONSTANTS
    Message,      \* messages on the chains of the players
    Chain,        \* those chains, named by their genesis
    chain,        \* the chain a message is on
    height,       \* header.height
    MaxHeight,    \* no message is higher
    MaxQuits      \* bound: how often the task dies for an outside reason

ASSUME HostAssumption ==
    /\ IsFiniteSet(Message)
    /\ MaxHeight \in Nat /\ MaxQuits \in Nat
    /\ chain \in [Message -> Chain]
    /\ height \in [Message -> 0..MaxHeight]

VARIABLES
    \* the database
    message_id,   \* messages.message_id, 0 where there is no row
    last_id,
    members,      \* chain_commit_group_members of the group the host reads
    sequenced,    \* the host's own chain
    \* the task
    pc,
    already_sequenced,
    seq,                       \* the cursor of the group query
    all_unprocessed_messages,
    message_by_genesis,        \* its envelopes; chain and height say where
    next_height_to_sequence,
    to_sequence,               \* the batch that is being inserted
    \* history
    panicked,     \* the panics that happened
    quits

database == <<message_id, last_id, members>>
locals == <<already_sequenced, seq, all_unprocessed_messages,
            message_by_genesis, next_height_to_sequence, to_sequence>>
vars == <<database, sequenced, pc, locals, panicked, quits>>

HostState == {"down", "load_own", "load_members", "loop", "insert"}

TypeOK ==
    /\ message_id \in [Message -> Nat]
    /\ last_id \in Nat
    /\ members \subseteq Chain
    /\ sequenced \in Seq(Message)
    /\ pc \in HostState
    /\ already_sequenced \in Seq(Message)
    /\ seq \in Nat
    /\ all_unprocessed_messages \subseteq Message
    /\ message_by_genesis \subseteq Message
    /\ next_height_to_sequence \in [Chain -> 0..(MaxHeight + 1)]
    /\ to_sequence \in Seq(Message)
    /\ panicked \subseteq {"missing", "duplicate"}
    /\ quits \in Nat

Stored(m) == message_id[m] # 0

Init ==
    /\ message_id = [m \in Message |-> 0] /\ last_id = 0
    /\ members = {} /\ sequenced = <<>>
    /\ pc = "down"
    /\ already_sequenced = <<>> /\ seq = 0
    /\ all_unprocessed_messages = {} /\ message_by_genesis = {}
    /\ next_height_to_sequence = [c \in Chain |-> 0]
    /\ to_sequence = <<>>
    /\ panicked = {} /\ quits = 0

-----------------------------------------------------------------------------
(* A definition named X_fault is X with a bug the code could have had.       *)
(* Nothing uses it: put in place of X, it shows that a property notices.      *)

(* The database, as its other users change it *)

\* A peer's envelope is stored; only a genesis can come before the genesis.
store(m) ==
    /\ ~Stored(m)
    /\ height[m] > 0 =>
         \E g \in Message : chain[g] = chain[m] /\ height[g] = 0 /\ Stored(g)
    /\ last_id' = last_id + 1
    /\ message_id' = [message_id EXCEPT ![m] = last_id + 1]
    /\ UNCHANGED <<members, sequenced, pc, locals, panicked, quits>>

\* member_id without NOT NULL.
add_member_to_chain_commit_group_nullable(c) ==
    /\ c \notin members
    /\ members' = members \cup
         {IF \E g \in Message : chain[g] = c /\ height[g] = 0 /\ Stored(g)
          THEN c ELSE "NULL"}
    /\ UNCHANGED <<message_id, last_id, sequenced, pc, locals, panicked, quits>>

\* add_member_to_chain_commit_group, by create_new_attestation_chain, one
\* statement per member, or by add_chain_to_group at any later time.  The
\* member's genesis must be a row.
add_member_to_chain_commit_group(c) ==
    /\ c \notin members
    /\ \E g \in Message : chain[g] = c /\ height[g] = 0 /\ Stored(g)
    /\ members' = members \cup {c}
    /\ UNCHANGED <<message_id, last_id, sequenced, pc, locals, panicked, quits>>

\* The last row read comes again.
GroupRows_inclusive(after) ==
    {m \in Message : /\ Stored(m) /\ chain[m] \in members
                     /\ message_id[m] >= after}

\* all_chain_commit_group_members_new_envelopes_for_chain.sql
GroupRows(after) ==
    {m \in Message : /\ Stored(m) /\ chain[m] \in members
                     /\ message_id[m] > after}

\* The cursor after reading these rows: the largest id seen so far.
IsNewest(n, before, read) ==
    /\ n >= before
    /\ \A m \in read : message_id[m] <= n
    /\ n = before \/ \E m \in read : message_id[m] = n

-----------------------------------------------------------------------------
(* Starting up *)

\* game_server finds no task for the key, or a finished one.
start_game_task ==
    /\ pc = "down"
    /\ pc' = "load_own"
    /\ already_sequenced' = <<>> /\ seq' = 0
    /\ all_unprocessed_messages' = {} /\ message_by_genesis' = {}
    /\ next_height_to_sequence' = [c \in Chain |-> 0]
    /\ to_sequence' = <<>>
    /\ UNCHANGED <<database, sequenced, panicked, quits>>

panic(why) ==
    /\ panicked' = panicked \cup {why}
    /\ pc' = "down"
    /\ UNCHANGED <<database, sequenced, locals, quits>>

\* The batches on the host's own chain, read in one query ...
load_own ==
    /\ pc = "load_own"
    /\ already_sequenced' = sequenced
    /\ pc' = "load_members"
    /\ UNCHANGED <<database, sequenced, seq, all_unprocessed_messages,
                   message_by_genesis, next_height_to_sequence, to_sequence,
                   panicked, quits>>

\* ... and the rows of the group in another: what was sequenced before is
\* removed from what was read, each message once.
AlreadySequencedRead(read) ==
    \A i \in DOMAIN already_sequenced :
        /\ already_sequenced[i] \in read
        /\ \A j \in DOMAIN already_sequenced :
             already_sequenced[i] = already_sequenced[j] => i = j

\* next is one more than the greatest height sequenced on each chain.
IsNextHeight(next) ==
    \A c \in Chain :
        /\ \A i \in DOMAIN already_sequenced :
             chain[already_sequenced[i]] = c =>
               height[already_sequenced[i]] < next[c]
        /\ next[c] > 0 =>
             \E i \in DOMAIN already_sequenced :
               /\ chain[already_sequenced[i]] = c
               /\ height[already_sequenced[i]] + 1 = next[c]

load_members ==
    /\ pc = "load_members"
    /\ LET read == GroupRows(0) IN
       IF AlreadySequencedRead(read)
       THEN /\ all_unprocessed_messages' = read \ Range(already_sequenced)
            /\ \E n \in 0..last_id : IsNewest(n, 0, read) /\ seq' = n
            /\ \E next \in [Chain -> 0..(MaxHeight + 1)] :
                 IsNextHeight(next) /\ next_height_to_sequence' = next
            /\ pc' = "loop"
            /\ UNCHANGED <<database, sequenced, already_sequenced,
                           message_by_genesis, to_sequence, panicked, quits>>
       ELSE panic("missing")

-----------------------------------------------------------------------------
(* One round of the loop *)

SameSlot(m, n) == chain[m] = chain[n] /\ height[m] = height[n]

\* message_by_genesis has one slot per chain and height; a second envelope for
\* a slot is the panic.
Duplicate(new) ==
    \E m \in new :
        \/ \E n \in message_by_genesis : SameSlot(m, n)
        \/ \E n \in new : n # m /\ SameSlot(m, n)

\* The lowest envelope held is compared with height 0.
IsScan_from_genesis(held, next) ==
    \A c \in Chain :
        LET first == next_height_to_sequence[c] IN
        /\ next[c] >= first
        /\ IF first > 0
           THEN next[c] = first
           ELSE /\ \A m \in held : chain[m] = c => height[m] # next[c]
                /\ \A k \in first..(next[c] - 1) :
                     \E m \in held : chain[m] = c /\ height[m] = k

\* The scan of one chain: if the lowest envelope held is the next one to
\* sequence, go up to the first gap.
IsScan(held, next) ==
    \A c \in Chain :
        LET first == next_height_to_sequence[c] IN
        /\ next[c] >= first
        /\ IF \E m \in held : chain[m] = c /\ height[m] < first
           THEN next[c] = first
           ELSE /\ \A m \in held : chain[m] = c => height[m] # next[c]
                /\ \A k \in first..(next[c] - 1) :
                     \E m \in held : chain[m] = c /\ height[m] = k

\* Shuffled and not sorted.
IsBatch_unsorted(b, S) ==
    /\ \A i, j \in DOMAIN b : b[i] = b[j] => i = j
    /\ \A m \in S : \E i \in DOMAIN b : b[i] = m

\* A batch: every message of S once, shuffled and then sorted by the height
\* above the first of its chain, so that the chains take turns.
IsBatch(b, S) ==
    LET rank(m) == height[m] - next_height_to_sequence[chain[m]] IN
    /\ \A i, j \in DOMAIN b : b[i] = b[j] => i = j
    /\ \A m \in S : \E i \in DOMAIN b : b[i] = m
    /\ \A i, j \in DOMAIN b : i < j => rank(b[i]) <= rank(b[j])

sequence_new_messages ==
    /\ pc = "loop"
    /\ LET read == GroupRows(seq)
           new == all_unprocessed_messages \cup read
           held == message_by_genesis \cup new
       IN
       IF Duplicate(new) THEN panic("duplicate")
       ELSE
         /\ \E n \in 0..last_id : IsNewest(n, seq, read) /\ seq' = n
         /\ all_unprocessed_messages' = {}
         /\ \E next \in [Chain -> 0..(MaxHeight + 1)] :
              LET S == {m \in held :
                          /\ height[m] >= next_height_to_sequence[chain[m]]
                          /\ height[m] < next[chain[m]]}
              IN
              /\ IsScan(held, next)
              /\ next_height_to_sequence' = next
              /\ message_by_genesis' = held \ S
              /\ \E b \in [1..Cardinality(S) -> S] :
                   IsBatch(b, S) /\ to_sequence' = b
              /\ pc' = IF S = {} THEN "loop" ELSE "insert"
         /\ UNCHANGED <<database, sequenced, already_sequenced, panicked, quits>>

\* retry_insert_authenticated_envelope_atomic of the batch
insert_sequence ==
    /\ pc = "insert"
    /\ sequenced' = sequenced \o to_sequence
    /\ to_sequence' = <<>>
    /\ pc' = "loop"
    /\ UNCHANGED <<database, already_sequenced, seq, all_unprocessed_messages,
                   message_by_genesis, next_height_to_sequence, panicked, quits>>

\* A database error in any of the awaited calls ends the task; so does the
\* death of the process.
quit ==
    /\ pc # "down" /\ quits < MaxQuits
    /\ pc' = "down" /\ quits' = quits + 1
    /\ UNCHANGED <<database, sequenced, locals, panicked>>

-----------------------------------------------------------------------------

GameTask == \/ start_game_task \/ load_own \/ load_members
            \/ sequence_new_messages \/ insert_sequence

Next ==
    \/ \E m \in Message : store(m)
    \/ \E c \in Chain : add_member_to_chain_commit_group(c)
    \/ GameTask
    \/ quit

Spec == Init /\ [][Next]_vars

\* game_server polls for dead tasks every 10 s and the task loops every second.
FairSpec == Spec /\ WF_vars(GameTask)

-----------------------------------------------------------------------------
(* Properties *)

Sequenced(m) == \E i \in DOMAIN sequenced : sequenced[i] = m

\* The host's chain orders every member chain from its genesis up, without a
\* gap, and sequences each height once, across any number of restarts and
\* with forked chains: the batch, the scan and the recovery agree.
SequencedInChainOrder ==
    \A i \in DOMAIN sequenced :
        /\ \A j \in DOMAIN sequenced :
             SameSlot(sequenced[i], sequenced[j]) => i = j
        /\ height[sequenced[i]] > 0 =>
             \E j \in 1..(i - 1) :
               /\ chain[sequenced[j]] = chain[sequenced[i]]
               /\ height[sequenced[j]] + 1 = height[sequenced[i]]

\* Two rows of one chain at one height.
Fork(m, n) == m # n /\ SameSlot(m, n) /\ Stored(m) /\ Stored(n)

\* "Message was sequenced, but was not contained in database" never happens,
\* although the host's chain and the group are read in two queries; the other
\* panic needs a member that forked.
PanicsOnlyOnFork ==
    /\ "missing" \notin panicked
    /\ "duplicate" \in panicked =>
         \E m, n \in Message : Fork(m, n) /\ chain[m] \in members

\* The task has m, or will read it.
WillSee(m) ==
    /\ Stored(m) /\ chain[m] \in members
    /\ \/ pc \in {"down", "load_own", "load_members"}
       \/ message_id[m] > seq
       \/ m \in all_unprocessed_messages \cup message_by_genesis
       \/ m \in Range(to_sequence) \cup Range(sequenced)

\* m and, at every height below it on its chain, some envelope satisfy P.
FromGenesis(m, P(_)) ==
    /\ P(m)
    /\ \A k \in 0..height[m] :
         \E n \in Message : chain[n] = chain[m] /\ height[n] = k /\ P(n)

\* A message that the task has or will read, and whose chain it has or will
\* read from the genesis up to it, ends up on the host's chain, in whatever
\* order the rows came and wherever the task died: what is held above a gap
\* goes on exactly there when the gap closes, and the cursor loses nothing it
\* has not already passed.  A member that forks may stop the task for good.
SeenIsSequenced ==
    \A m \in Message :
        FromGenesis(m, WillSee)
          ~> (Sequenced(m) \/ \E n, o \in Message : Fork(n, o) /\ chain[n] \in members)

MemberRow(m) == Stored(m) /\ chain[m] \in members

\* "Get All the messages that we've not yet seen": a message of a member
\* chain that is stored from its genesis up ends up on the host's chain.
AllMessagesSequenced ==
    \A m \in Message : FromGenesis(m, MemberRow) ~> Sequenced(m)

=============================================================================
