--------------------------- MODULE GameHostProofs ---------------------------
(***************************************************************************)
(* What GameHost's runs check on small instances, proved for every set of   *)
(* messages, chains and heights and any number of restarts.  SequencedIn-   *)
(* ChainOrder is not inductive: that a batch continues the chains it takes  *)
(* from rests on what next_height_to_sequence says about the published      *)
(* order (HeightInv), on the order inside a batch that is not yet published *)
(* (BatchInv) and on what the task holds (HeldInv).                         *)
(***************************************************************************)
EXTENDS GameHost, FiniteSetTheorems, TLAPS

Running == pc \in {"loop", "insert"}

\* m is on the host's chain or in the batch that is being inserted.
Taken(m) ==
    \/ \E i \in DOMAIN sequenced : sequenced[i] = m
    \/ \E i \in DOMAIN to_sequence : to_sequence[i] = m

IdsBounded == \A m \in Message : message_id[m] <= last_id

\* What is sequenced are rows of member chains.
PublishedInv ==
    \A i \in DOMAIN sequenced :
        Stored(sequenced[i]) /\ chain[sequenced[i]] \in members

\* A starting task holds nothing but what it read of the host's chain.
LoadInv ==
    /\ pc \in {"load_own", "load_members"} =>
         message_by_genesis = {} /\ to_sequence = <<>>
    /\ pc = "load_members" => already_sequenced = sequenced

\* What the task holds are rows of member chains that the cursor has passed;
\* message_by_genesis has one envelope per slot.
HeldInv ==
    Running =>
        /\ seq <= last_id
        /\ \A m \in all_unprocessed_messages \cup message_by_genesis :
             /\ Stored(m) /\ chain[m] \in members /\ message_id[m] <= seq
        /\ \A m \in all_unprocessed_messages : m \notin message_by_genesis
        /\ \A m, n \in message_by_genesis : SameSlot(m, n) => m = n

\* next_height_to_sequence is just above what was taken of each chain.
HeightInv ==
    Running =>
        /\ \A m \in Message : Taken(m) => height[m] < next_height_to_sequence[chain[m]]
        /\ \A c \in Chain : next_height_to_sequence[c] > 0 =>
             \E m \in Message : /\ Taken(m) /\ chain[m] = c
                                /\ height[m] + 1 = next_height_to_sequence[c]

\* The batch being inserted continues the published order.
BatchInv ==
    /\ pc = "loop" => to_sequence = <<>>
    /\ pc = "insert" =>
         \A i \in DOMAIN to_sequence :
           /\ Stored(to_sequence[i]) /\ chain[to_sequence[i]] \in members
           /\ \A j \in DOMAIN to_sequence :
                SameSlot(to_sequence[i], to_sequence[j]) => i = j
           /\ \A j \in DOMAIN sequenced :
                ~SameSlot(to_sequence[i], sequenced[j])
           /\ height[to_sequence[i]] > 0 =>
                \/ \E j \in DOMAIN sequenced :
                     /\ chain[sequenced[j]] = chain[to_sequence[i]]
                     /\ height[sequenced[j]] + 1 = height[to_sequence[i]]
                \/ \E j \in 1..(i - 1) :
                     /\ chain[to_sequence[j]] = chain[to_sequence[i]]
                     /\ height[to_sequence[j]] + 1 = height[to_sequence[i]]

IndInv == /\ TypeOK /\ IdsBounded /\ PublishedInv /\ LoadInv
          /\ HeldInv /\ HeightInv /\ BatchInv
          /\ SequencedInChainOrder /\ PanicsOnlyOnFork

-----------------------------------------------------------------------------
(* Lemmas *)

\* Concatenation, as the insert of a batch uses it.
LEMMA Concatenation ==
    ASSUME NEW s \in Seq(Message), NEW t \in Seq(Message)
    PROVE  /\ s \o t \in Seq(Message)
           /\ Len(s \o t) = Len(s) + Len(t)
           /\ \A i \in 1..Len(s) : (s \o t)[i] = s[i]
           /\ \A i \in (Len(s) + 1)..(Len(s) + Len(t)) : (s \o t)[i] = t[i - Len(s)]
OBVIOUS

\* The batch the scan chooses is a sequence over the messages it took.
LEMMA BatchIsSequence ==
    ASSUME NEW S, S \subseteq Message, NEW b \in [1..Cardinality(S) -> S]
    PROVE  /\ b \in Seq(Message) /\ b \in Seq(S)
           /\ Len(b) = Cardinality(S)
           /\ DOMAIN b = 1..Len(b)
           /\ S = {} => b = <<>>
<1>1. IsFiniteSet(S)
  BY HostAssumption, FS_Subset DEF HostAssumption
<1>2. Cardinality(S) \in Nat
  BY <1>1, FS_CardinalityType
<1>3. b \in Seq(S) /\ Len(b) = Cardinality(S) /\ DOMAIN b = 1..Len(b)
  BY <1>2
<1>4. S = {} => b = <<>>
  <2>1. SUFFICES ASSUME S = {} PROVE b = <<>>
    OBVIOUS
  <2>2. Cardinality(S) = 0
    BY <2>1, FS_EmptySet
  <2>3. QED BY <1>3, <2>2
<1>5. b \in Seq(Message)
  BY <1>3
<1>6. QED BY <1>3, <1>4, <1>5

-----------------------------------------------------------------------------
(* Steps that leave the task alone *)

LEMMA StoreStep ==
    ASSUME IndInv, NEW m \in Message, store(m)
    PROVE  IndInv'
<1> USE HostAssumption DEF HostAssumption
<1>0. TypeOK /\ IdsBounded /\ ~Stored(m)
  BY DEF IndInv, store
<1>1. /\ last_id' = last_id + 1
      /\ message_id' = [message_id EXCEPT ![m] = last_id + 1]
      /\ UNCHANGED <<members, sequenced, pc, locals, panicked, quits>>
  BY DEF store
<1>2. TypeOK'
  BY <1>0, <1>1 DEF TypeOK, locals
<1>3. IdsBounded'
  BY <1>0, <1>1 DEF TypeOK, IdsBounded
<1>4. /\ \A n \in Message : Stored(n) => Stored(n)' /\ message_id'[n] = message_id[n]
      /\ \A n \in Message : message_id[n] <= last_id
  BY <1>0, <1>1 DEF TypeOK, Stored, IdsBounded
<1>5. PublishedInv'
  BY <1>0, <1>1, <1>4 DEF IndInv, PublishedInv, TypeOK
<1>6. LoadInv'
  BY <1>1 DEF IndInv, LoadInv, locals
<1>7. HeldInv'
  <2>1. UNCHANGED <<pc, seq, all_unprocessed_messages, message_by_genesis, members>>
    BY <1>1 DEF locals
  <2>2. QED
    BY <1>0, <1>1, <1>4, <2>1 DEF IndInv, HeldInv, Running, TypeOK, SameSlot
<1>8. HeightInv'
  <2>1. UNCHANGED <<pc, sequenced, to_sequence, next_height_to_sequence>>
    BY <1>1 DEF locals
  <2>2. HeightInv
    BY DEF IndInv
  <2>3. QED
    BY ONLY <2>1, <2>2 DEF HeightInv, Running, Taken
<1>9. BatchInv'
  <2>1. UNCHANGED <<pc, sequenced, to_sequence, members>>
    BY <1>1 DEF locals
  <2>2. \A i \in DOMAIN to_sequence : Stored(to_sequence[i]) => Stored(to_sequence[i])'
    BY <1>0, <1>4, <2>1 DEF TypeOK
  <2>3. BatchInv
    BY DEF IndInv
  <2>4. QED
    BY ONLY <2>1, <2>2, <2>3 DEF BatchInv, SameSlot
<1>10. SequencedInChainOrder'
  BY <1>1 DEF IndInv, SequencedInChainOrder, SameSlot
<1>11. PanicsOnlyOnFork'
  BY <1>1, <1>4 DEF IndInv, PanicsOnlyOnFork, Fork, SameSlot
<1>12. QED
  BY <1>2, <1>3, <1>5, <1>6, <1>7, <1>8, <1>9, <1>10, <1>11 DEF IndInv

LEMMA AddMemberStep ==
    ASSUME IndInv, NEW c \in Chain, add_member_to_chain_commit_group(c)
    PROVE  IndInv'
<1>1. /\ members' = members \cup {c}
      /\ UNCHANGED <<message_id, last_id, sequenced, pc, locals, panicked, quits>>
  BY DEF add_member_to_chain_commit_group
<1>2. TypeOK'
  BY <1>1 DEF IndInv, TypeOK, locals
<1>3. IdsBounded' /\ LoadInv' /\ HeightInv' /\ SequencedInChainOrder'
  BY <1>1 DEF IndInv, IdsBounded, LoadInv, HeightInv, Running, Taken,
              SequencedInChainOrder, SameSlot, locals
<1>4. PublishedInv' /\ HeldInv' /\ BatchInv'
  BY <1>1 DEF IndInv, PublishedInv, HeldInv, BatchInv, Running, Stored,
              SameSlot, locals
<1>5. PanicsOnlyOnFork'
  BY <1>1 DEF IndInv, PanicsOnlyOnFork, Fork, SameSlot, Stored
<1>6. QED
  BY <1>2, <1>3, <1>4, <1>5 DEF IndInv

-----------------------------------------------------------------------------
(* The task *)

LEMMA StartStep ==
    ASSUME IndInv, start_game_task
    PROVE  IndInv'
<1> USE HostAssumption DEF HostAssumption
<1>1. /\ pc' = "load_own"
      /\ already_sequenced' = <<>> /\ seq' = 0
      /\ all_unprocessed_messages' = {} /\ message_by_genesis' = {}
      /\ next_height_to_sequence' = [c \in Chain |-> 0]
      /\ to_sequence' = <<>>
      /\ UNCHANGED <<message_id, last_id, members, sequenced, panicked, quits>>
  BY DEF start_game_task, database
<1>2. TypeOK'
  BY <1>1 DEF IndInv, TypeOK, HostState
<1>3. IdsBounded' /\ PublishedInv' /\ SequencedInChainOrder' /\ PanicsOnlyOnFork'
  BY <1>1 DEF IndInv, IdsBounded, PublishedInv, SequencedInChainOrder,
              PanicsOnlyOnFork, Fork, SameSlot, Stored
<1>4. LoadInv' /\ HeldInv' /\ HeightInv' /\ BatchInv'
  BY <1>1 DEF LoadInv, HeldInv, HeightInv, BatchInv, Running
<1>5. QED
  BY <1>2, <1>3, <1>4 DEF IndInv

LEMMA LoadOwnStep ==
    ASSUME IndInv, load_own
    PROVE  IndInv'
<1>1. /\ pc' = "load_members" /\ already_sequenced' = sequenced
      /\ UNCHANGED <<message_id, last_id, members, sequenced, seq,
                     all_unprocessed_messages, message_by_genesis,
                     next_height_to_sequence, to_sequence, panicked, quits>>
  BY DEF load_own, database
<1>2. TypeOK'
  BY <1>1 DEF IndInv, TypeOK, HostState
<1>3. IdsBounded' /\ PublishedInv' /\ SequencedInChainOrder' /\ PanicsOnlyOnFork'
  BY <1>1 DEF IndInv, IdsBounded, PublishedInv, SequencedInChainOrder,
              PanicsOnlyOnFork, Fork, SameSlot, Stored
<1>4. LoadInv' /\ HeldInv' /\ HeightInv' /\ BatchInv'
  BY <1>1 DEF IndInv, load_own, LoadInv, HeldInv, HeightInv, BatchInv, Running
<1>5. QED
  BY <1>2, <1>3, <1>4 DEF IndInv

\* A task that stops leaves the published order as it is.
LEMMA StopStep ==
    ASSUME IndInv, pc' = "down", PanicsOnlyOnFork', quits' \in Nat,
           panicked' \subseteq {"missing", "duplicate"},
           UNCHANGED <<database, sequenced, locals>>
    PROVE  IndInv'
<1>1. UNCHANGED <<message_id, last_id, members, sequenced, seq,
                  already_sequenced, all_unprocessed_messages,
                  message_by_genesis, next_height_to_sequence, to_sequence>>
  BY DEF database, locals
<1>2. TypeOK'
  BY <1>1 DEF IndInv, TypeOK, HostState
<1>3. IdsBounded' /\ PublishedInv' /\ SequencedInChainOrder'
  BY <1>1 DEF IndInv, IdsBounded, PublishedInv, SequencedInChainOrder,
              SameSlot, Stored
<1>4. LoadInv' /\ HeldInv' /\ HeightInv' /\ BatchInv'
  BY <1>1 DEF LoadInv, HeldInv, HeightInv, BatchInv, Running
<1>5. QED
  BY <1>2, <1>3, <1>4 DEF IndInv

\* What is on the host's chain is found among the rows of the group: the panic
\* of the recovery is out of reach.
LEMMA NothingMissing ==
    ASSUME IndInv, pc = "load_members"
    PROVE  AlreadySequencedRead(GroupRows(0))
<1>1. already_sequenced = sequenced
  BY DEF IndInv, LoadInv
<1>2. \A i \in DOMAIN sequenced : sequenced[i] \in Message
  BY DEF IndInv, TypeOK
<1>3. \A i \in DOMAIN sequenced : sequenced[i] \in GroupRows(0)
  BY <1>2 DEF IndInv, PublishedInv, GroupRows, Stored, TypeOK
<1>4. \A i, j \in DOMAIN sequenced : sequenced[i] = sequenced[j] => i = j
  BY DEF IndInv, SequencedInChainOrder, SameSlot
<1>5. QED
  BY <1>1, <1>3, <1>4 DEF AlreadySequencedRead

LEMMA LoadMembersStep ==
    ASSUME IndInv, load_members
    PROVE  IndInv'
<1> DEFINE read == GroupRows(0)
<1>0. pc = "load_members" /\ already_sequenced = sequenced
  BY DEF load_members, IndInv, LoadInv
<1>1. AlreadySequencedRead(read)
  BY <1>0, NothingMissing
<1>2. /\ all_unprocessed_messages' = read \ Range(already_sequenced)
      /\ pc' = "loop"
      /\ UNCHANGED <<message_id, last_id, members, sequenced, already_sequenced,
                     message_by_genesis, to_sequence, panicked, quits>>
  BY <1>1 DEF load_members, database
<1>3. PICK n \in 0..last_id : IsNewest(n, 0, read) /\ seq' = n
  BY <1>1 DEF load_members
<1>4. PICK next \in [Chain -> 0..(MaxHeight + 1)] :
         IsNextHeight(next) /\ next_height_to_sequence' = next
  BY <1>1 DEF load_members
<1>5. QED
  <2>1. message_by_genesis' = {} /\ to_sequence' = <<>>
    BY <1>0, <1>2 DEF IndInv, LoadInv
  <2>2. read \subseteq Message
    BY DEF GroupRows
  <2>3. TypeOK'
    BY <1>2, <1>3, <1>4, <2>2 DEF IndInv, TypeOK, HostState
  <2>4. IdsBounded' /\ PublishedInv' /\ SequencedInChainOrder' /\ PanicsOnlyOnFork'
    BY <1>2 DEF IndInv, IdsBounded, PublishedInv, SequencedInChainOrder,
                PanicsOnlyOnFork, Fork, SameSlot, Stored
  <2>5. LoadInv' /\ BatchInv'
    BY <1>2, <2>1 DEF LoadInv, BatchInv
  <2>6. HeldInv'
    <3>1. \A m \in read : Stored(m) /\ chain[m] \in members /\ message_id[m] <= n
      BY <1>3 DEF GroupRows, IsNewest
    <3>2. n <= last_id
      BY <1>3 DEF IndInv, TypeOK
    <3>3. QED
      BY <1>2, <1>3, <2>1, <3>1, <3>2 DEF HeldInv, Running, Stored
  <2>7. HeightInv'
    <3>1. \A m \in Message : Taken(m)' <=> \E i \in DOMAIN sequenced : sequenced[i] = m
      BY <1>2, <2>1 DEF Taken
    <3>2. \A i \in DOMAIN sequenced : sequenced[i] \in Message
      BY DEF IndInv, TypeOK
    <3>3. \A i \in DOMAIN sequenced :
             height[sequenced[i]] < next[chain[sequenced[i]]]
      BY <1>0, <1>4, <3>2, HostAssumption DEF IsNextHeight, HostAssumption
    <3>4. \A c \in Chain : next[c] > 0 =>
             \E i \in DOMAIN sequenced :
               chain[sequenced[i]] = c /\ height[sequenced[i]] + 1 = next[c]
      BY <1>0, <1>4 DEF IsNextHeight
    <3>5. QED
      BY <1>4, <3>1, <3>2, <3>3, <3>4 DEF HeightInv
  <2>8. QED
    BY <2>3, <2>4, <2>5, <2>6, <2>7 DEF IndInv

\* The round of the loop: the fork that a panic needs, or a batch that goes on
\* where the host's chain stopped.
LEMMA SequenceStep ==
    ASSUME IndInv, sequence_new_messages
    PROVE  IndInv'
<1> DEFINE read == GroupRows(seq)
           new == all_unprocessed_messages \cup read
           held == message_by_genesis \cup new
           first == next_height_to_sequence
<1> USE HostAssumption DEF HostAssumption
<1>0. pc = "loop" /\ to_sequence = <<>> /\ TypeOK
  BY DEF sequence_new_messages, IndInv, BatchInv
<1>1. held \subseteq Message
  BY <1>0 DEF GroupRows, TypeOK
<1>2. /\ \A m \in held : Stored(m) /\ chain[m] \in members
      /\ \A m \in new : m \notin message_by_genesis
      /\ \A m, n \in message_by_genesis : SameSlot(m, n) => m = n
  BY <1>0 DEF IndInv, HeldInv, Running, GroupRows, TypeOK
<1>3. CASE Duplicate(new)
  <2>1. panic("duplicate")
    BY <1>3 DEF sequence_new_messages
  <2>2. PICK m \in new : \/ \E n \in message_by_genesis : SameSlot(m, n)
                         \/ \E n \in new : n # m /\ SameSlot(m, n)
    BY <1>3 DEF Duplicate
  <2>3. \E n \in Message : Fork(m, n) /\ chain[m] \in members
    BY <1>1, <1>2, <2>2 DEF Fork
  <2>4. PanicsOnlyOnFork'
    <3>1. \E k, n \in Message : Fork(k, n) /\ chain[k] \in members
      BY <1>1, <2>3
    <3>2. UNCHANGED <<message_id, members>> /\ panicked' = panicked \cup {"duplicate"}
      BY <2>1 DEF panic, database
    <3>3. QED
      BY <3>1, <3>2 DEF IndInv, PanicsOnlyOnFork, Fork, SameSlot, Stored
  <2>5. QED
    BY <2>1, <2>4, <1>0, StopStep DEF panic, TypeOK
<1>4. CASE ~Duplicate(new)
  <2>1. PICK n \in 0..last_id : IsNewest(n, seq, read) /\ seq' = n
    BY <1>4 DEF sequence_new_messages
  <2> DEFINE Took(next) == {m \in held : /\ height[m] >= first[chain[m]]
                                         /\ height[m] < next[chain[m]]}
  <2>2. PICK next \in [Chain -> 0..(MaxHeight + 1)] :
           /\ IsScan(held, next)
           /\ next_height_to_sequence' = next
           /\ message_by_genesis' = held \ Took(next)
           /\ \E b \in [1..Cardinality(Took(next)) -> Took(next)] :
                IsBatch(b, Took(next)) /\ to_sequence' = b
           /\ pc' = IF Took(next) = {} THEN "loop" ELSE "insert"
    BY <1>4 DEF sequence_new_messages
  <2>3. /\ all_unprocessed_messages' = {}
        /\ UNCHANGED <<message_id, last_id, members, sequenced,
                       already_sequenced, panicked, quits>>
    BY <1>4 DEF sequence_new_messages, database
  <2> DEFINE S == Took(next)
  <2>4. PICK b \in [1..Cardinality(S) -> S] : IsBatch(b, S) /\ to_sequence' = b
    BY <2>2
  <2>5. S \subseteq Message /\ S \subseteq held
    BY <1>1
  <2> HIDE DEF S
  <2>6. /\ b \in Seq(Message) /\ b \in Seq(S) /\ DOMAIN b = 1..Len(b)
        /\ S = {} => b = <<>>
    BY <2>5, BatchIsSequence
  <2>7. \A i \in DOMAIN b : b[i] \in S
    BY <2>6
  <2>8. /\ \A m \in S : \E i \in DOMAIN b : b[i] = m
        /\ \A i, j \in DOMAIN b : b[i] = b[j] => i = j
    BY <2>4 DEF IsBatch
  <2>9. \A i, j \in DOMAIN b : i < j =>
           height[b[i]] - first[chain[b[i]]] <= height[b[j]] - first[chain[b[j]]]
    BY <2>4 DEF IsBatch
  \* one envelope per slot
  <2>10. \A m, k \in held : SameSlot(m, k) => m = k
    BY <1>2, <1>4 DEF Duplicate, SameSlot
  <2>11. /\ \A m \in S : height[m] >= first[chain[m]] /\ height[m] < next[chain[m]]
         /\ \A m \in held : height[m] >= first[chain[m]] /\ height[m] < next[chain[m]]
                            => m \in S
    BY DEF S
  <2>12. /\ first \in [Chain -> 0..(MaxHeight + 1)]
         /\ \A m \in Message : chain[m] \in Chain /\ height[m] \in Nat
    BY <1>0 DEF TypeOK
  \* below the top of the scan there are no gaps
  <2>13. ASSUME NEW c \in Chain, NEW k \in Nat, first[c] <= k, k < next[c]
         PROVE  \E m \in S : chain[m] = c /\ height[m] = k
    <3>1. k \in first[c]..(next[c] - 1)
      BY <2>2, <2>12, <2>13
    <3>2. next[c] # first[c]
      BY <2>2, <2>12, <2>13
    <3>3. \A l \in first[c]..(next[c] - 1) :
             \E m \in held : chain[m] = c /\ height[m] = l
      <4>1. IsScan(held, next)
        BY <2>2
      <4> HIDE DEF held
      <4>2. QED BY ONLY <2>13, <3>2, <4>1 DEF IsScan
    <3>4. \E m \in held : chain[m] = c /\ height[m] = k
      BY <3>1, <3>3
    <3>5. QED BY <2>11, <2>13, <3>4
  <2>14. TypeOK'
    <3>1. message_by_genesis' \subseteq Message
      BY <2>2, <1>1
    <3>2. pc' \in HostState
      BY <2>2 DEF HostState
    <3>3. seq' \in Nat
      BY <1>0, <2>1 DEF TypeOK
    <3>4. to_sequence' \in Seq(Message)
      BY <2>4, <2>6
    <3>5. next_height_to_sequence' \in [Chain -> 0..(MaxHeight + 1)]
      BY <2>2
    <3>6. QED
      BY <1>0, <2>3, <3>1, <3>2, <3>3, <3>4, <3>5 DEF TypeOK
  <2>15. IdsBounded' /\ PublishedInv' /\ SequencedInChainOrder' /\ PanicsOnlyOnFork'
    BY <2>3 DEF IndInv, IdsBounded, PublishedInv, SequencedInChainOrder,
                PanicsOnlyOnFork, Fork, SameSlot, Stored
  <2>16. LoadInv'
    BY <2>2 DEF LoadInv
  <2>17. HeldInv'
    <3>1. \A m \in held : message_id[m] <= n
      <4>1. \A m \in all_unprocessed_messages \cup message_by_genesis :
               message_id[m] <= seq
        BY <1>0 DEF IndInv, HeldInv, Running
      <4>2. n >= seq /\ \A m \in read : message_id[m] <= n
        BY <2>1 DEF IsNewest
      <4>3. seq \in Nat /\ n \in Nat /\ \A m \in held : message_id[m] \in Nat
        BY <1>0, <1>1, <2>1 DEF TypeOK
      <4>4. QED BY <4>1, <4>2, <4>3
    <3>2. n <= last_id
      BY <1>0, <2>1 DEF TypeOK
    <3>3. message_by_genesis' \subseteq held
      BY <2>2
    <3>4. QED
      BY <1>2, <2>1, <2>3, <2>10, <3>1, <3>2, <3>3 DEF HeldInv, Running, Stored, SameSlot
  <2>18. HeightInv'
    <3>1. \A m \in Message : Taken(m)' <=> Taken(m) \/ m \in S
      BY <1>0, <2>3, <2>4, <2>7, <2>8 DEF Taken
    <3>2. \A c \in Chain : next[c] >= first[c]
      BY <2>2 DEF IsScan
    <3>3. \A m \in Message : Taken(m) => height[m] < first[chain[m]]
      BY <1>0 DEF IndInv, HeightInv, Running
    <3>4. \A m \in Message : Taken(m)' => height[m] < next[chain[m]]
      BY <2>2, <2>11, <2>12, <3>1, <3>2, <3>3
    <3>5. ASSUME NEW c \in Chain, next[c] > 0
          PROVE  \E m \in Message : Taken(m)' /\ chain[m] = c /\ height[m] + 1 = next[c]
      <4>1. CASE next[c] = first[c]
        BY <1>0, <3>1, <3>5, <4>1 DEF IndInv, HeightInv, Running
      <4>2. CASE next[c] # first[c]
        <5>1. next[c] - 1 \in Nat /\ first[c] <= next[c] - 1 /\ next[c] - 1 < next[c]
          BY <2>2, <2>12, <3>2, <3>5, <4>2
        <5>2. PICK m \in S : chain[m] = c /\ height[m] = next[c] - 1
          BY <2>13, <5>1
        <5>3. height[m] + 1 = next[c]
          BY <2>2, <2>5, <2>12, <5>2
        <5>4. QED BY <2>5, <3>1, <5>2, <5>3
      <4>3. QED BY <4>1, <4>2
    <3>6. QED
      BY <2>2, <3>4, <3>5 DEF HeightInv
  <2>19. BatchInv'
    <3>1. pc' = "loop" => to_sequence' = <<>>
      BY <2>2, <2>4, <2>6 DEF S
    <3>2. ASSUME NEW i \in DOMAIN b
          PROVE  /\ Stored(b[i])' /\ chain[b[i]] \in members'
                 /\ \A j \in DOMAIN b : SameSlot(b[i], b[j]) => i = j
                 /\ \A j \in DOMAIN sequenced : ~SameSlot(b[i], sequenced[j])
      <4>1. b[i] \in held /\ b[i] \in S
        BY <2>5, <2>7
      <4>2. Stored(b[i])' /\ chain[b[i]] \in members'
        BY <1>2, <2>3, <4>1 DEF Stored
      <4>3. \A j \in DOMAIN b : SameSlot(b[i], b[j]) => i = j
        BY <2>5, <2>7, <2>8, <2>10
      <4>4. ASSUME NEW j \in DOMAIN sequenced PROVE ~SameSlot(b[i], sequenced[j])
        <5>1. sequenced[j] \in Message /\ Taken(sequenced[j])
          BY <1>0 DEF TypeOK, Taken
        <5>2. height[sequenced[j]] < first[chain[sequenced[j]]]
          BY <1>0, <5>1 DEF IndInv, HeightInv, Running
        <5>3. height[b[i]] >= first[chain[b[i]]]
          BY <2>11, <4>1
        <5>4. QED BY <2>5, <2>12, <4>1, <5>1, <5>2, <5>3 DEF SameSlot
      <4>5. QED BY <4>2, <4>3, <4>4
    <3>3. ASSUME NEW i \in DOMAIN b, height[b[i]] > 0
          PROVE  \/ \E j \in DOMAIN sequenced :
                      /\ chain[sequenced[j]] = chain[b[i]]
                      /\ height[sequenced[j]] + 1 = height[b[i]]
                 \/ \E j \in 1..(i - 1) :
                      /\ chain[b[j]] = chain[b[i]]
                      /\ height[b[j]] + 1 = height[b[i]]
      <4> DEFINE c == chain[b[i]]
                 h == height[b[i]]
      <4>1. b[i] \in S /\ b[i] \in Message /\ c \in Chain /\ h \in Nat /\ h > 0
        BY <2>5, <2>7, <2>12, <3>3
      <4>2. first[c] \in Nat /\ h >= first[c] /\ h < next[c]
        BY <2>11, <2>12, <4>1
      <4>3. CASE h = first[c]
        <5>1. PICK m \in Message : Taken(m) /\ chain[m] = c /\ height[m] + 1 = first[c]
          BY <1>0, <4>1, <4>3 DEF IndInv, HeightInv, Running
        <5>2. \E j \in DOMAIN sequenced : sequenced[j] = m
          BY <1>0, <5>1 DEF Taken
        <5>3. QED BY <4>3, <5>1, <5>2
      <4>4. CASE h # first[c]
        <5>1. h - 1 \in Nat /\ first[c] <= h - 1 /\ h - 1 < next[c]
          BY <2>2, <4>1, <4>2, <4>4
        <5>2. PICK m \in S : chain[m] = c /\ height[m] = h - 1
          BY <2>13, <4>1, <5>1
        <5>3. PICK j \in DOMAIN b : b[j] = m
          BY <2>8
        <5>4. ~(i <= j)
          <6>1. i # j
            BY <4>1, <5>1, <5>2, <5>3
          <6>2. ~(i < j)
            BY <2>9, <4>1, <4>2, <5>1, <5>2, <5>3
          <6>3. QED BY <2>6, <6>1, <6>2
        <5>5. j \in 1..(i - 1)
          BY <2>6, <5>4
        <5>6. chain[b[j]] = chain[b[i]] /\ height[b[j]] + 1 = height[b[i]]
          BY <4>1, <5>2, <5>3
        <5>7. QED BY <5>5, <5>6
      <4>5. QED BY <4>3, <4>4
    <3>4. UNCHANGED sequenced
      BY <2>3
    <3>5. QED
      BY <2>4, <3>1, <3>2, <3>3, <3>4 DEF BatchInv, SameSlot
  <2>20. QED
    BY <2>14, <2>15, <2>16, <2>17, <2>18, <2>19 DEF IndInv
<1>5. QED BY <1>3, <1>4

LEMMA InsertStep ==
    ASSUME IndInv, insert_sequence
    PROVE  IndInv'
<1> DEFINE s == sequenced
           t == to_sequence
<1> USE HostAssumption DEF HostAssumption
<1>0. pc = "insert" /\ TypeOK
  BY DEF insert_sequence, IndInv
<1>1. /\ sequenced' = s \o t /\ to_sequence' = <<>> /\ pc' = "loop"
      /\ UNCHANGED <<message_id, last_id, members, already_sequenced, seq,
                     all_unprocessed_messages, message_by_genesis,
                     next_height_to_sequence, panicked, quits>>
  BY DEF insert_sequence, database
<1>2. s \in Seq(Message) /\ t \in Seq(Message) /\ Len(s) \in Nat /\ Len(t) \in Nat
      /\ DOMAIN s = 1..Len(s) /\ DOMAIN t = 1..Len(t)
  BY <1>0 DEF TypeOK
<1>3. /\ sequenced' \in Seq(Message) /\ DOMAIN sequenced' = 1..(Len(s) + Len(t))
      /\ \A i \in DOMAIN s : i \in DOMAIN sequenced' /\ sequenced'[i] = s[i]
      /\ \A i \in DOMAIN t : /\ Len(s) + i \in DOMAIN sequenced'
                             /\ sequenced'[Len(s) + i] = t[i]
  <2>1. /\ s \o t \in Seq(Message) /\ Len(s \o t) = Len(s) + Len(t)
        /\ \A i \in 1..Len(s) : (s \o t)[i] = s[i]
        /\ \A i \in (Len(s) + 1)..(Len(s) + Len(t)) : (s \o t)[i] = t[i - Len(s)]
    BY <1>2, Concatenation
  <2>2. DOMAIN (s \o t) = 1..(Len(s) + Len(t))
    BY <2>1
  <2>3. \A i \in DOMAIN t : /\ Len(s) + i \in (Len(s) + 1)..(Len(s) + Len(t))
                            /\ (Len(s) + i) - Len(s) = i
    BY <1>2
  <2>4. \A i \in DOMAIN t : (s \o t)[Len(s) + i] = t[i]
    BY <2>1, <2>3
  <2>5. QED
    BY <1>1, <1>2, <2>1, <2>2, <2>3, <2>4
<1> HIDE DEF s, t
\* every position of the new order is a position of s or of t
<1>4. \A i \in DOMAIN sequenced' :
        \/ i \in DOMAIN s /\ sequenced'[i] = s[i]
        \/ \E k \in DOMAIN t : i = Len(s) + k /\ sequenced'[i] = t[k]
  <2>1. TAKE i \in DOMAIN sequenced'
  <2>2. CASE i <= Len(s)
    BY <1>2, <1>3, <2>1, <2>2
  <2>3. CASE i > Len(s)
    <3>1. i - Len(s) \in DOMAIN t /\ i = Len(s) + (i - Len(s))
      BY <1>2, <1>3, <2>1, <2>3
    <3>2. QED BY <1>3, <3>1
  <2>4. QED BY <1>2, <1>3, <2>1, <2>2, <2>3
<1>5. \A i \in DOMAIN t :
        /\ Stored(t[i]) /\ chain[t[i]] \in members
        /\ \A j \in DOMAIN t : SameSlot(t[i], t[j]) => i = j
        /\ \A j \in DOMAIN s : ~SameSlot(t[i], s[j])
        /\ height[t[i]] > 0 =>
             \/ \E j \in DOMAIN s :
                  chain[s[j]] = chain[t[i]] /\ height[s[j]] + 1 = height[t[i]]
             \/ \E j \in 1..(i - 1) :
                  chain[t[j]] = chain[t[i]] /\ height[t[j]] + 1 = height[t[i]]
  BY <1>0 DEF IndInv, BatchInv, s, t
<1>6. \A i \in DOMAIN s :
        /\ Stored(s[i]) /\ chain[s[i]] \in members
        /\ \A j \in DOMAIN s : SameSlot(s[i], s[j]) => i = j
        /\ height[s[i]] > 0 =>
             \E j \in 1..(i - 1) :
               chain[s[j]] = chain[s[i]] /\ height[s[j]] + 1 = height[s[i]]
  BY DEF IndInv, PublishedInv, SequencedInChainOrder, s
<1>7. TypeOK'
  BY <1>0, <1>1, <1>3 DEF TypeOK, HostState
<1>8. IdsBounded' /\ LoadInv' /\ BatchInv'
  BY <1>1 DEF IndInv, IdsBounded, LoadInv, BatchInv
<1>9. PublishedInv'
  BY <1>1, <1>4, <1>5, <1>6 DEF PublishedInv, Stored
<1>10. HeldInv'
  BY <1>0, <1>1 DEF IndInv, HeldInv, Running, Stored, SameSlot
<1>11. HeightInv'
  <2>1. \A m \in Message : Taken(m)' <=> Taken(m)
    <3>1. DOMAIN to_sequence' = {}
      BY <1>1
    <3>2. \A m \in Message : (\E i \in DOMAIN sequenced' : sequenced'[i] = m)
             <=> \/ \E i \in DOMAIN s : s[i] = m
                 \/ \E i \in DOMAIN t : t[i] = m
      BY <1>3, <1>4
    <3>3. QED BY <3>1, <3>2 DEF Taken, s, t
  <2>2. QED
    BY <1>0, <1>1, <2>1 DEF IndInv, HeightInv, Running
<1>12. SequencedInChainOrder'
  <2>1. ASSUME NEW i \in DOMAIN sequenced', NEW j \in DOMAIN sequenced',
               SameSlot(sequenced'[i], sequenced'[j])
        PROVE  i = j
    <3>1. \A m, n : SameSlot(m, n) => SameSlot(n, m)
      BY DEF SameSlot
    <3>2. QED
      BY <1>4, <1>5, <1>6, <2>1, <3>1
  <2>2. ASSUME NEW i \in DOMAIN sequenced', height[sequenced'[i]] > 0
        PROVE  \E j \in 1..(i - 1) :
                 /\ chain[sequenced'[j]] = chain[sequenced'[i]]
                 /\ height[sequenced'[j]] + 1 = height[sequenced'[i]]
    <3>1. CASE i \in DOMAIN s /\ sequenced'[i] = s[i]
      <4>1. PICK j \in 1..(i - 1) :
              chain[s[j]] = chain[s[i]] /\ height[s[j]] + 1 = height[s[i]]
        BY <1>6, <2>2, <3>1
      <4>2. j \in DOMAIN s
        BY <1>2, <3>1
      <4>3. QED BY <1>3, <3>1, <4>1, <4>2
    <3>2. ASSUME NEW k \in DOMAIN t, i = Len(s) + k, sequenced'[i] = t[k]
          PROVE  \E j \in 1..(i - 1) :
                   /\ chain[sequenced'[j]] = chain[sequenced'[i]]
                   /\ height[sequenced'[j]] + 1 = height[sequenced'[i]]
      <4>1. CASE \E j \in DOMAIN s :
                   chain[s[j]] = chain[t[k]] /\ height[s[j]] + 1 = height[t[k]]
        <5>1. PICK j \in DOMAIN s :
                   chain[s[j]] = chain[t[k]] /\ height[s[j]] + 1 = height[t[k]]
          BY <4>1
        <5>2. j \in 1..(i - 1) /\ sequenced'[j] = s[j]
          BY <1>2, <1>3, <3>2, <5>1
        <5>3. QED BY <3>2, <5>1, <5>2
      <4>2. CASE \E j \in 1..(k - 1) :
                   chain[t[j]] = chain[t[k]] /\ height[t[j]] + 1 = height[t[k]]
        <5>1. PICK j \in 1..(k - 1) :
                   chain[t[j]] = chain[t[k]] /\ height[t[j]] + 1 = height[t[k]]
          BY <4>2
        <5>2. j \in DOMAIN t /\ Len(s) + j \in 1..(i - 1)
          BY <1>2, <3>2, <5>1
        <5>3. sequenced'[Len(s) + j] = t[j]
          BY <1>3, <5>2
        <5>4. QED BY <3>2, <5>1, <5>2, <5>3
      <4>3. QED BY <1>5, <2>2, <3>2, <4>1, <4>2
    <3>3. QED BY <1>4, <3>1, <3>2
  <2>3. QED
    BY <2>1, <2>2 DEF SequencedInChainOrder, SameSlot
<1>13. PanicsOnlyOnFork'
  BY <1>1 DEF IndInv, PanicsOnlyOnFork, Fork, SameSlot, Stored
<1>14. QED
  BY <1>7, <1>8, <1>9, <1>10, <1>11, <1>12, <1>13 DEF IndInv

LEMMA QuitStep ==
    ASSUME IndInv, quit
    PROVE  IndInv'
<1>1. /\ pc' = "down" /\ quits' = quits + 1
      /\ UNCHANGED <<database, sequenced, locals, panicked>>
  BY DEF quit
<1>2. PanicsOnlyOnFork' /\ quits' \in Nat /\ panicked' \subseteq {"missing", "duplicate"}
  BY <1>1 DEF IndInv, TypeOK, PanicsOnlyOnFork, Fork, SameSlot, Stored, database
<1>3. QED BY <1>1, <1>2, StopStep

-----------------------------------------------------------------------------
(* Theorems *)

\* The inductive invariant of the sequencing task holds initially and every
\* step of it, of game_server and of the other users of the database keeps it.
THEOREM Invariance == Spec => []IndInv
<1>1. Init => IndInv
  <2>1. SUFFICES ASSUME Init PROVE IndInv
    OBVIOUS
  <2>2. 0 \in 0..(MaxHeight + 1) /\ <<>> \in Seq(Message) /\ DOMAIN <<>> = {}
    BY HostAssumption DEF HostAssumption
  <2>3. TypeOK
    BY <2>1, <2>2 DEF Init, TypeOK, HostState
  <2>4. PublishedInv /\ SequencedInChainOrder
    BY <2>1, <2>2 DEF Init, PublishedInv, SequencedInChainOrder
  <2>5. IdsBounded
    BY <2>1 DEF Init, IdsBounded
  <2>6. LoadInv /\ HeldInv /\ HeightInv /\ BatchInv
    BY <2>1 DEF Init, LoadInv, HeldInv, HeightInv, BatchInv, Running
  <2>7. PanicsOnlyOnFork
    BY <2>1 DEF Init, PanicsOnlyOnFork
  <2>8. QED BY <2>3, <2>4, <2>5, <2>6, <2>7 DEF IndInv
<1>2. IndInv /\ [Next]_vars => IndInv'
  <2> SUFFICES ASSUME IndInv, [Next]_vars PROVE IndInv'
    OBVIOUS
  <2>1. CASE UNCHANGED vars
    <3>1. UNCHANGED <<message_id, last_id, members, sequenced, pc,
                      already_sequenced, seq, all_unprocessed_messages,
                      message_by_genesis, next_height_to_sequence, to_sequence,
                      panicked, quits>>
      BY <2>1 DEF vars, database, locals
    <3>2. TypeOK' /\ IdsBounded' /\ PublishedInv' /\ LoadInv'
      BY <3>1 DEF IndInv, TypeOK, IdsBounded, PublishedInv, LoadInv, Stored
    <3>3. HeldInv' /\ HeightInv' /\ BatchInv'
      BY <3>1 DEF IndInv, HeldInv, HeightInv, BatchInv, Running, Taken, Stored, SameSlot
    <3>4. SequencedInChainOrder' /\ PanicsOnlyOnFork'
      BY <3>1 DEF IndInv, SequencedInChainOrder, PanicsOnlyOnFork, Fork, Stored, SameSlot
    <3>5. QED BY <3>2, <3>3, <3>4 DEF IndInv
  <2>2. CASE \E m \in Message : store(m)
    BY <2>2, StoreStep
  <2>3. CASE \E c \in Chain : add_member_to_chain_commit_group(c)
    BY <2>3, AddMemberStep
  <2>4. CASE GameTask
    BY <2>4, StartStep, LoadOwnStep, LoadMembersStep, SequenceStep, InsertStep
    DEF GameTask
  <2>5. CASE quit
    BY <2>5, QuitStep
  <2>6. QED
    BY <2>1, <2>2, <2>3, <2>4, <2>5 DEF Next
<1>3. QED BY <1>1, <1>2, PTL DEF Spec

\* The variables of the host's task (game-host/src/game/mod.rs) keep their types.
THEOREM TypeCorrect == Spec => []TypeOK
<1>1. IndInv => TypeOK
  BY DEF IndInv
<1>2. QED BY <1>1, Invariance, PTL

\* The order game publishes takes every member chain from its genesis up,
\* without gaps and each height once, for any number of chains, messages,
\* forks and restarts.
THEOREM ChainOrder == Spec => []SequencedInChainOrder
<1>1. IndInv => SequencedInChainOrder
  BY DEF IndInv
<1>2. QED BY <1>1, Invariance, PTL

\* The recovery of game never finds a sequenced message missing, and a round
\* of its loop only panics if a member's chain has two rows at one height.
THEOREM OnlyForksPanic == Spec => []PanicsOnlyOnFork
<1>1. IndInv => PanicsOnlyOnFork
  BY DEF IndInv
<1>2. QED BY <1>1, Invariance, PTL

=============================================================================
