---------------------------- MODULE MsgDBProofs ----------------------------
(***************************************************************************)
(* Proofs about MsgDB, for any set of envelopes with well-formed headers,  *)
(* any set of users and any number of writers.                             *)
(***************************************************************************)
EXTENDS MsgDB, TLAPS

\* The headers of an envelope that is not a genesis.
LEMMA ChildHeader ==
    ASSUME NEW e \in Envelope, height[e] > 0
    PROVE  /\ prev_msg[e] \in Envelope /\ prev_msg[e] # NULL
           /\ height[e] = height[prev_msg[e]] + 1
           /\ key[e] = key[prev_msg[e]]
           /\ genesis[e] = genesis[prev_msg[e]]
           /\ height[genesis[e]] = 0
           /\ genesis[e] # e
           /\ ancestors[e] = {e} \cup ancestors[prev_msg[e]]
  BY HeaderAssumption

\* The headers of a genesis envelope.
LEMMA GenesisHeader ==
    ASSUME NEW e \in Envelope, height[e] = 0
    PROVE  prev_msg[e] = NULL /\ genesis[e] = e
  BY HeaderAssumption

\* Header fields have their types, and no hash chain passes through its start.
LEMMA HeaderTypes ==
    ASSUME NEW e \in Envelope
    PROVE  /\ key[e] \in Key /\ height[e] \in Nat
           /\ genesis[e] \in Envelope
           /\ prev_msg[e] \in Envelope \cup {NULL}
           /\ prev_msg[e] \in Envelope => height[e] > 0
           /\ prev_msg[e] # e
           /\ ancestors[e] \subseteq Envelope /\ e \in ancestors[e]
           /\ \A f \in ancestors[e] : height[f] <= height[e]
                                      /\ genesis[f] = genesis[e]
  BY HeaderAssumption

-----------------------------------------------------------------------------
(* What a step does to the tables *)

\* The row e is new, its user exists after the step and its genesis before it.
NewRow(e) ==
    /\ e \in Envelope
    /\ ~Stored(e)
    /\ key[e] \in users'
    /\ height[e] > 0 => Stored(genesis[e])
    /\ InsertRow(e)

RowsUnchanged == UNCHANGED rows

\* An insert either changes no row or adds exactly the given one.
LEMMA InsertEffect ==
    ASSUME NEW e \in Envelope, TypeOK,
           \/ insert_user_by_genesis_envelope(e)
           \/ \E r \in BOOLEAN : try_insert_authenticated_envelope(e, r)
    PROVE  /\ users \subseteq users'
           /\ RowsUnchanged \/ NewRow(e)
  <1>1. CASE insert_user_by_genesis_envelope(e)
    <2>1. genesis[e] \in Envelope /\ genesis[e] # NULL
      BY HeaderTypes, HeaderAssumption
    <2>2. QED
      BY <1>1, <2>1 DEF insert_user_by_genesis_envelope, InsertEnvelope,
         InsertOutcome, NewRow, RowsUnchanged, Stored, IdOf
  <1>2. ASSUME NEW r \in BOOLEAN, try_insert_authenticated_envelope(e, r)
        PROVE  /\ users \subseteq users'
               /\ RowsUnchanged \/ NewRow(e)
    <2>1. genesis[e] \in Envelope /\ genesis[e] # NULL
      BY HeaderTypes, HeaderAssumption
    <2>2. QED
      BY <1>2, <2>1 DEF try_insert_authenticated_envelope, TryInsertOutcome,
         InsertOutcome, NewRow, RowsUnchanged, Stored, IdOf
  <1>3. QED
    BY <1>1, <1>2

RowsTypeOK ==
    /\ message_id \in [Envelope -> Nat]
    /\ prev_msg_id \in [Envelope -> Nat]
    /\ genesis_id \in [Envelope -> Nat]
    /\ connected \in [Envelope -> BOOLEAN]
    /\ last_id \in Nat

\* The trigger and the subqueries of the insert give every column a value of
\* its type.
LEMMA InsertRowType ==
    ASSUME TypeOK, NEW e \in Envelope, InsertRow(e)
    PROVE  RowsTypeOK'
  <1>1. \A h \in Envelope \cup {NULL} : IdOf(h) \in Nat
    BY DEF IdOf, TypeOK
  <1>2. IdOf(prev_msg[e]) \in Nat /\ IdOf(genesis[e]) \in Nat
    BY <1>1, HeaderTypes
  <1>3. /\ last_id' \in Nat /\ message_id' \in [Envelope -> Nat]
        /\ prev_msg_id' \in [Envelope -> Nat]
        /\ genesis_id' \in [Envelope -> Nat]
    BY <1>2 DEF InsertRow, TypeOK
  <1>4. (height[e] = 0 \/ connected[prev_msg[e]]) \in BOOLEAN
    OBVIOUS
  <1>5. connected' \in [Envelope -> BOOLEAN]
    BY <1>4, Zenon DEF InsertRow, TypeOK
  <1>6. QED
    BY <1>3, <1>5 DEF RowsTypeOK

\* Every database operation keeps the tables well typed.
LEMMA InsertType ==
    ASSUME TypeOK, NEW e \in Envelope,
           \/ insert_user_by_genesis_envelope(e)
           \/ \E r \in BOOLEAN : try_insert_authenticated_envelope(e, r)
    PROVE  /\ RowsTypeOK'
           /\ users' \subseteq Key /\ keypairs' = keypairs /\ nonces' = nonces
  <1>1. RowsTypeOK'
    <2>1. CASE RowsUnchanged
      BY <2>1 DEF RowsUnchanged, rows, RowsTypeOK, TypeOK
    <2>2. CASE NewRow(e)
      BY <2>2, InsertRowType DEF NewRow
    <2>3. QED
      BY <2>1, <2>2, InsertEffect
  <1>2. users' \subseteq Key /\ keypairs' = keypairs /\ nonces' = nonces
    BY HeaderTypes DEF insert_user_by_genesis_envelope,
       try_insert_authenticated_envelope, TypeOK
  <1>3. QED
    BY <1>1, <1>2

\* attach_tips writes ids of rows and booleans.
LEMMA AttachType ==
    ASSUME TypeOK, attach_tips
    PROVE  RowsTypeOK'
  <1>1. \A h \in Envelope \cup {NULL} : IdOf(h) \in Nat
    BY DEF IdOf, TypeOK
  <1>2. ASSUME NEW e \in Updatable
        PROVE  GenesisFrom(AttachedFrom(e)) \in Nat
    <2>1. \E b \in Attachable : ReachedFrom(b, e)
      BY <1>2 DEF Updatable
    <2>2. AttachedFrom(e) \in Attachable
      BY <2>1 DEF AttachedFrom
    <2>3. QED
      BY <2>2, ChildHeader DEF Attachable, GenesisFrom, TypeOK
  <1>3. /\ prev_msg_id' \in [Envelope -> Nat]
        /\ genesis_id' \in [Envelope -> Nat]
        /\ message_id' \in [Envelope -> Nat] /\ last_id' \in Nat
    <2>1. \A e \in Envelope : IdOf(prev_msg[e]) \in Nat
      BY <1>1, HeaderTypes
    <2>2. QED
      BY <2>1, <1>2 DEF attach_tips, TypeOK
  <1>4. connected' \in [Envelope -> BOOLEAN]
    BY Zenon DEF attach_tips, TypeOK
  <1>5. QED
    BY <1>3, <1>4 DEF RowsTypeOK

\* TypeOK is inductive, given that a writer that is about to insert has a
\* draft.
LEMMA TypeStep == TypeOK /\ WriterInv /\ [Next]_vars => TypeOK'
  <1> SUFFICES ASSUME TypeOK, WriterInv, [Next]_vars PROVE TypeOK'
    OBVIOUS
  <1> USE DEF WriterState
  <1>1. ASSUME NEW e \in Envelope, ReceiveGenesis(e) PROVE TypeOK'
    BY <1>1, InsertType DEF ReceiveGenesis, locals, TypeOK, RowsTypeOK
  <1>2. ASSUME NEW e \in Envelope, ReceiveEnvelope(e) PROVE TypeOK'
    BY <1>2, InsertType DEF ReceiveEnvelope, locals, TypeOK, RowsTypeOK
  <1>3. CASE attach_tips
    <2>1. RowsTypeOK'
      BY <1>3, AttachType
    <2>2. QED
      BY <1>3, <2>1 DEF attach_tips, locals, TypeOK, RowsTypeOK
  <1>4. ASSUME NEW w \in Writer, WriterStep(w) PROVE TypeOK'
    <2>1. ASSUME NEW e \in Envelope, save_keypair(w, e) PROVE TypeOK'
      BY <2>1, HeaderTypes DEF save_keypair, rows, TypeOK
    <2>2. ASSUME NEW e \in Envelope, wrap(w, e) PROVE TypeOK'
      BY <2>2 DEF wrap, wrap_message_in_envelope_for_user_by_key, rows, TypeOK
    <2>3. ASSUME NEW e \in Envelope, bypass_wrap(w, e) PROVE TypeOK'
      BY <2>3 DEF bypass_wrap, wrap_message_in_envelope_for_user_by_key, rows,
         TypeOK
    <2>4. CASE save_nonce_for_user_by_key(w)
      BY <2>4 DEF save_nonce_for_user_by_key, rows, TypeOK, WriterInv
    <2>5. CASE insert_genesis(w)
      BY <2>5, InsertType DEF insert_genesis, RowsTypeOK, TypeOK, WriterInv
    <2>6. ASSUME NEW k \in LocalKey, push_message(w, k) PROVE TypeOK'
      BY <2>6, HeaderAssumption DEF push_message, tables, TypeOK
    <2>7. ASSUME NEW k \in LocalKey, push_message_dangerous(w, k) PROVE TypeOK'
      BY <2>7, HeaderAssumption DEF push_message_dangerous,
         get_tip_for_user_by_key, tables, TypeOK
    <2>8. CASE insert(w)
      <3>1. draft[w] \in Envelope
        BY <2>8 DEF insert, WriterInv
      <3>2. QED
        BY <2>8, <3>1, InsertType DEF insert, RowsTypeOK, TypeOK
    <2>9. CASE bypass_insert(w)
      <3>1. draft[w] \in Envelope
        BY <2>9 DEF bypass_insert, WriterInv
      <3>2. QED
        BY <2>9, <3>1, InsertType DEF bypass_insert, RowsTypeOK, TypeOK
    <2>10. CASE abort(w)
      BY <2>10 DEF abort, tables, TypeOK
    <2>11. QED
      BY <1>4, <2>1, <2>2, <2>3, <2>4, <2>5, <2>6, <2>7, <2>8, <2>9, <2>10
         DEF WriterStep
  <1>5. CASE UNCHANGED vars
    BY <1>5 DEF vars, tables, locals, TypeOK
  <1>6. QED
    BY <1>1, <1>2, <1>3, <1>4, <1>5 DEF Next

-----------------------------------------------------------------------------
(* The links between rows *)

LinkInv == /\ ParentLinked /\ GenesisLinked /\ ConnectedClosed
           /\ IdsBounded

\* Inserting one row, with the trigger, keeps all links right.
LEMMA InsertLinks ==
    ASSUME TypeOK, LinkInv, NEW e \in Envelope, NewRow(e), users \subseteq users'
    PROVE  LinkInv'
  <1> DEFINE id == last_id + 1
  <1>1. /\ id \in Nat /\ id # 0
        /\ message_id' = [message_id EXCEPT ![e] = id]
        /\ last_id' = id
    BY DEF NewRow, InsertRow, TypeOK
  <1>2. \A f \in Envelope : /\ Stored(f)' <=> Stored(f) \/ f = e
                            /\ f # e => message_id'[f] = message_id[f]
                            /\ message_id'[e] = id
    BY <1>1 DEF Stored, TypeOK
  <1>3. ParentLinked'
    <2> SUFFICES ASSUME NEW f \in Envelope, Stored(f)'
                 PROVE  prev_msg_id'[f] = IdOf(prev_msg[f])'
      BY DEF ParentLinked
    <2>1. prev_msg[f] \in Envelope \cup {NULL} /\ prev_msg[f] # f
      BY HeaderTypes
    <2>2. CASE f = e
      BY <2>1, <2>2, <1>1, <1>2, HeaderAssumption
         DEF NewRow, InsertRow, IdOf, TypeOK
    <2>3. CASE f # e /\ prev_msg[f] = e
      BY <2>3, <1>1, <1>2, HeaderAssumption DEF NewRow, InsertRow, IdOf, TypeOK
    <2>4. CASE f # e /\ prev_msg[f] # e
      BY <2>1, <2>4, <1>1, <1>2, HeaderAssumption
         DEF NewRow, InsertRow, IdOf, TypeOK, LinkInv, ParentLinked
    <2>5. QED
      BY <2>2, <2>3, <2>4
  <1>4. GenesisLinked'
    <2> SUFFICES ASSUME NEW f \in Envelope, Stored(f)'
                 PROVE  /\ key[f] \in users'
                        /\ genesis_id'[f] = IF height[f] = 0 THEN 0
                                            ELSE message_id'[genesis[f]]
                        /\ Stored(genesis[f])'
      BY DEF GenesisLinked
    <2>1. /\ genesis[f] \in Envelope /\ genesis[f] # NULL /\ height[f] \in Nat
          /\ height[f] # 0 => genesis[f] # f
          /\ height[f] = 0 => genesis[f] = f
      BY HeaderTypes, ChildHeader, GenesisHeader, HeaderAssumption
    <2>2. CASE f = e
      <3>1. genesis_id'[f] = message_id[genesis[f]]
        BY <2>1, <2>2 DEF NewRow, InsertRow, IdOf, TypeOK
      <3>2. CASE height[f] = 0
        BY <3>1, <3>2, <2>1, <2>2, <1>2 DEF NewRow, Stored
      <3>3. CASE height[f] # 0
        BY <3>1, <3>3, <2>1, <2>2, <1>2 DEF NewRow
      <3>4. QED
        BY <3>2, <3>3
    <2>3. CASE f # e
      <3>1. Stored(f)
        BY <1>2, <2>3
      <3>2. genesis_id'[f] = genesis_id[f]
        BY <2>3 DEF NewRow, InsertRow, TypeOK
      <3>3. /\ key[f] \in users /\ Stored(genesis[f])
            /\ genesis_id[f] = IF height[f] = 0 THEN 0
                               ELSE message_id[genesis[f]]
        BY <3>1 DEF LinkInv, GenesisLinked
      <3>4. genesis[f] # e
        BY <3>3 DEF NewRow
      <3>5. QED
        BY <3>2, <3>3, <3>4, <2>1, <1>2
    <2>4. QED
      BY <2>2, <2>3
  <1>5. ConnectedClosed'
    <2> SUFFICES ASSUME NEW f \in Envelope, connected'[f]
                 PROVE  /\ Stored(f)'
                        /\ height[f] > 0 => connected'[prev_msg[f]]
      BY DEF ConnectedClosed
    <2>1. \A g \in Envelope : g # e => connected'[g] = connected[g]
      BY DEF NewRow, InsertRow, TypeOK
    <2>2. CASE f = e
      <3>1. height[f] = 0 \/ connected[prev_msg[f]]
        BY <2>2 DEF NewRow, InsertRow, TypeOK
      <3>2. height[f] > 0 => prev_msg[f] \in Envelope /\ prev_msg[f] # e
        BY <2>2, ChildHeader, HeaderTypes
      <3>3. QED
        BY <3>1, <3>2, <2>1, <2>2, <1>2, HeaderTypes
    <2>3. CASE f # e
      <3>1. connected[f] /\ Stored(f)
        BY <2>1, <2>3 DEF LinkInv, ConnectedClosed
      <3>2. ASSUME height[f] > 0
            PROVE  connected'[prev_msg[f]]
        <4>1. prev_msg[f] \in Envelope /\ connected[prev_msg[f]]
          BY <3>1, <3>2, ChildHeader DEF LinkInv, ConnectedClosed
        <4>2. Stored(prev_msg[f])
          BY <4>1 DEF LinkInv, ConnectedClosed
        <4>3. QED
          BY <4>1, <4>2, <2>1 DEF NewRow
      <3>3. QED
        BY <3>1, <3>2, <1>2
    <2>4. QED
      BY <2>2, <2>3
  <1>6. IdsBounded'
    BY <1>1, <1>2 DEF LinkInv, IdsBounded, TypeOK
  <1>7. QED
    BY <1>3, <1>4, <1>5, <1>6 DEF LinkInv

\* A row attach_tips reaches is a stored, non-genesis row with the genesis of
\* the row it was reached from.
LEMMA ReachedRow ==
    ASSUME TypeOK, NEW e \in Envelope, NEW b \in Attachable, ReachedFrom(b, e)
    PROVE  Stored(e) /\ height[e] > 0 /\ genesis[e] = genesis[b]
  <1>1. b \in Envelope /\ height[b] > 0 /\ b \in ancestors[e]
    BY DEF Attachable, ReachedFrom
  <1>2. height[b] <= height[e] /\ genesis[b] = genesis[e]
    BY <1>1, HeaderTypes
  <1>3. e \in ancestors[e] /\ height[e] \in Nat /\ height[b] \in Nat
    BY <1>1, HeaderTypes
  <1>4. QED
    BY <1>1, <1>2, <1>3 DEF ReachedFrom

\* The parent of such a row is connected, or attached in the same statement.
LEMMA ReachedParent ==
    ASSUME TypeOK, NEW e \in Envelope, e \in Updatable
    PROVE  connected[prev_msg[e]] \/ prev_msg[e] \in Updatable
  <1>1. PICK b \in Attachable : ReachedFrom(b, e)
    BY DEF Updatable
  <1>2. CASE b = e
    BY <1>2 DEF Attachable
  <1>3. CASE b # e
    <2>1. /\ prev_msg[e] \in Envelope
          /\ ancestors[e] = {e} \cup ancestors[prev_msg[e]]
      BY <1>1, ReachedRow, ChildHeader
    <2>2. ReachedFrom(b, prev_msg[e])
      BY <1>1, <1>3, <2>1 DEF ReachedFrom
    <2>3. QED
      BY <2>1, <2>2 DEF Updatable
  <1>4. QED
    BY <1>2, <1>3

\* The genesis attach_tips hands down is the one the header names.
LEMMA AttachedGenesis ==
    ASSUME TypeOK, LinkInv, NEW e \in Envelope, e \in Updatable
    PROVE  GenesisFrom(AttachedFrom(e)) = message_id[genesis[e]]
  <1> DEFINE b == AttachedFrom(e)
  <1>1. b \in Attachable /\ ReachedFrom(b, e)
    BY DEF Updatable, AttachedFrom
  <1>2. genesis[e] = genesis[b]
    BY <1>1, ReachedRow
  <1>3. /\ b \in Envelope /\ height[b] > 0 /\ connected[prev_msg[b]]
    BY <1>1 DEF Attachable
  <1>4. prev_msg[b] \in Envelope /\ genesis[b] = genesis[prev_msg[b]]
    BY <1>3, ChildHeader
  <1>5. Stored(prev_msg[b])
    BY <1>3, <1>4 DEF LinkInv, ConnectedClosed
  <1>6. height[prev_msg[b]] = 0 => genesis[prev_msg[b]] = prev_msg[b]
    BY <1>4, GenesisHeader
  <1>7. height[prev_msg[b]] # 0 =>
          genesis_id[prev_msg[b]] = message_id[genesis[prev_msg[b]]]
    BY <1>4, <1>5 DEF LinkInv, GenesisLinked
  <1> HIDE DEF b
  <1>8. QED
    BY <1>2, <1>4, <1>6, <1>7 DEF GenesisFrom, b

\* attach_tips changes nothing but connected flags, and those upwards.
LEMMA AttachEffect ==
    ASSUME TypeOK, LinkInv, attach_tips
    PROVE  /\ message_id' = message_id /\ last_id' = last_id /\ users' = users
           /\ prev_msg_id' = prev_msg_id /\ genesis_id' = genesis_id
           /\ \A e \in Envelope :
                connected'[e] <=> connected[e] \/ e \in Updatable
  <1>1. message_id' = message_id /\ last_id' = last_id /\ users' = users
    BY DEF attach_tips
  <1>2. ASSUME NEW e \in Envelope, e \in Updatable
        PROVE  /\ IdOf(prev_msg[e]) = prev_msg_id[e]
               /\ GenesisFrom(AttachedFrom(e)) = genesis_id[e]
    <2>1. Stored(e) /\ height[e] > 0
      BY <1>2, ReachedRow DEF Updatable
    <2>2. QED
      BY <1>2, <2>1, AttachedGenesis DEF LinkInv, ParentLinked, GenesisLinked
  <1>3. prev_msg_id' = prev_msg_id
    BY <1>2 DEF attach_tips, TypeOK
  <1>4. genesis_id' = genesis_id
    BY <1>2 DEF attach_tips, TypeOK
  <1>5. \A e \in Envelope : connected'[e] <=> connected[e] \/ e \in Updatable
    BY Zenon DEF attach_tips
  <1>6. QED
    BY <1>1, <1>3, <1>4, <1>5

\* attach_tips keeps all links right.
LEMMA AttachLinks ==
    ASSUME TypeOK, LinkInv, attach_tips
    PROVE  LinkInv'
  <1>1. ParentLinked' /\ GenesisLinked' /\ IdsBounded'
    BY AttachEffect DEF LinkInv, ParentLinked, GenesisLinked, IdsBounded,
       Stored, IdOf
  <1>2. ConnectedClosed'
    <2> SUFFICES ASSUME NEW e \in Envelope, connected'[e]
                 PROVE  /\ Stored(e)'
                        /\ height[e] > 0 => connected'[prev_msg[e]]
      BY DEF ConnectedClosed
    <2>1. height[e] > 0 => prev_msg[e] \in Envelope
      BY ChildHeader
    <2>2. Stored(e)' <=> Stored(e)
      BY AttachEffect DEF Stored
    <2>3. CASE connected[e]
      BY <2>1, <2>2, <2>3, AttachEffect DEF LinkInv, ConnectedClosed
    <2>4. CASE e \in Updatable
      <3>1. Stored(e)
        BY <2>4, ReachedRow DEF Updatable
      <3>2. QED
        BY <3>1, <2>1, <2>2, <2>4, ReachedParent, AttachEffect
    <2>5. QED
      BY <2>3, <2>4, AttachEffect
  <1>3. QED
    BY <1>1, <1>2 DEF LinkInv

\* Every step leaves the rows alone, adds one row or runs attach_tips.
LEMMA StepEffect ==
    ASSUME TypeOK, WriterInv, [Next]_vars
    PROVE  \/ RowsUnchanged /\ users \subseteq users'
           \/ attach_tips
           \/ \E e \in Envelope : NewRow(e) /\ users \subseteq users'
  <1>1. ASSUME NEW e \in Envelope, ReceiveGenesis(e) \/ ReceiveEnvelope(e)
        PROVE  users \subseteq users' /\ (RowsUnchanged \/ NewRow(e))
    BY <1>1, InsertEffect DEF ReceiveGenesis, ReceiveEnvelope
  <1>2. ASSUME NEW w \in Writer, WriterStep(w)
        PROVE  \/ RowsUnchanged /\ users \subseteq users'
               \/ \E e \in Envelope : NewRow(e) /\ users \subseteq users'
    <2>1. ASSUME insert_genesis(w) \/ insert(w) \/ bypass_insert(w)
          PROVE  users \subseteq users' /\ (RowsUnchanged \/ NewRow(draft[w]))
      <3>1. draft[w] \in Envelope
        BY <2>1 DEF insert_genesis, insert, bypass_insert, WriterInv
      <3>2. QED
        BY <2>1, <3>1, InsertEffect DEF insert_genesis, insert, bypass_insert
    <2>2. ASSUME \/ \E e \in Envelope :
                      save_keypair(w, e) \/ wrap(w, e) \/ bypass_wrap(w, e)
                 \/ save_nonce_for_user_by_key(w) \/ abort(w)
                 \/ \E k \in LocalKey :
                      push_message(w, k) \/ push_message_dangerous(w, k)
          PROVE  RowsUnchanged /\ users \subseteq users'
      BY <2>2 DEF save_keypair, wrap, bypass_wrap, save_nonce_for_user_by_key,
         abort, push_message, push_message_dangerous, tables, RowsUnchanged,
         wrap_message_in_envelope_for_user_by_key, rows
    <2>3. NewRow(draft[w]) => draft[w] \in Envelope
      BY DEF NewRow
    <2>4. QED
      BY <1>2, <2>1, <2>2, <2>3 DEF WriterStep
  <1>3. CASE UNCHANGED vars
    BY <1>3 DEF vars, tables, RowsUnchanged, rows
  <1>4. QED
    BY <1>1, <1>2, <1>3 DEF Next

\* The links are an inductive invariant.
LEMMA LinkStep == TypeOK /\ WriterInv /\ LinkInv /\ [Next]_vars => LinkInv'
  <1> SUFFICES ASSUME TypeOK, WriterInv, LinkInv, [Next]_vars PROVE LinkInv'
    OBVIOUS
  <1>1. CASE RowsUnchanged /\ users \subseteq users'
    BY <1>1 DEF RowsUnchanged, rows, LinkInv, ParentLinked, GenesisLinked,
       ConnectedClosed, IdsBounded, Stored, IdOf
  <1>2. QED
    BY <1>1, StepEffect, AttachLinks, InsertLinks

-----------------------------------------------------------------------------
(* The writers *)

\* No step retracts a connected flag.
LEMMA ConnectedGrows ==
    ASSUME TypeOK, WriterInv, LinkInv, [Next]_vars
    PROVE  \A e \in Envelope : connected[e] => connected'[e]
  <1>1. CASE RowsUnchanged
    BY <1>1 DEF RowsUnchanged, rows
  <1>2. CASE attach_tips
    BY <1>2, AttachEffect
  <1>3. ASSUME NEW f \in Envelope, NewRow(f)
        PROVE  \A e \in Envelope : connected[e] => connected'[e]
    <2>1. ~connected[f]
      BY <1>3 DEF NewRow, LinkInv, ConnectedClosed
    <2>2. \A e \in Envelope : e # f => connected'[e] = connected[e]
      BY <1>3 DEF NewRow, InsertRow, TypeOK
    <2>3. QED
      BY <2>1, <2>2
  <1>4. QED
    BY <1>1, <1>2, <1>3, StepEffect

\* A writer keeps what it relies on: its own steps establish it, and the steps
\* of others leave its variables alone.
LEMMA WriterStepInv ==
    TypeOK /\ WriterInv /\ LinkInv /\ [Next]_vars => WriterInv'
  <1> SUFFICES ASSUME TypeOK, WriterInv, LinkInv, [Next]_vars,
                      NEW v \in Writer
               PROVE  /\ pc'[v] # "idle" => author'[v] \in LocalKey
                      /\ pc'[v] \in {"save_nonce", "insert_genesis"} =>
                           /\ draft'[v] \in Envelope
                           /\ height[draft'[v]] = 0
                           /\ key[draft'[v]] = author'[v]
                      /\ pc'[v] \in {"insert", "bypass_insert_1", "bypass_insert_2"} =>
                           /\ draft'[v] \in Envelope
                           /\ height[draft'[v]] > 0
                           /\ key[draft'[v]] = author'[v]
                           /\ connected'[prev_msg[draft'[v]]]
                      /\ pc'[v] \in {"bypass_wrap_1", "bypass_insert_1",
                                     "bypass_wrap_2", "bypass_insert_2"} =>
                           /\ bypass'[v] \in Envelope
                           /\ connected'[bypass'[v]]
                           /\ key[bypass'[v]] = author'[v]
                           /\ author'[v] \in equivocated'
    BY DEF WriterInv
  <1> DEFINE Goal ==
        /\ pc'[v] # "idle" => author'[v] \in LocalKey
        /\ pc'[v] \in {"save_nonce", "insert_genesis"} =>
             /\ draft'[v] \in Envelope
             /\ height[draft'[v]] = 0
             /\ key[draft'[v]] = author'[v]
        /\ pc'[v] \in {"insert", "bypass_insert_1", "bypass_insert_2"} =>
             /\ draft'[v] \in Envelope
             /\ height[draft'[v]] > 0
             /\ key[draft'[v]] = author'[v]
             /\ connected'[prev_msg[draft'[v]]]
        /\ pc'[v] \in {"bypass_wrap_1", "bypass_insert_1",
                       "bypass_wrap_2", "bypass_insert_2"} =>
             /\ bypass'[v] \in Envelope
             /\ connected'[bypass'[v]]
             /\ key[bypass'[v]] = author'[v]
             /\ author'[v] \in equivocated'
  <1>1. \A e \in Envelope : connected[e] => connected'[e]
    BY ConnectedGrows
  <1>2. pc[v] \in {"insert", "bypass_insert_1", "bypass_insert_2"} =>
          prev_msg[draft[v]] \in Envelope
    BY ChildHeader DEF WriterInv
  <1>3. ASSUME UNCHANGED <<pc[v], author[v], draft[v], bypass[v]>>,
               equivocated \subseteq equivocated'
        PROVE  Goal
    BY <1>1, <1>2, <1>3 DEF WriterInv
  <1>4. ASSUME NEW w \in Writer, WriterStep(w), w # v
        PROVE  Goal
    <2>1. UNCHANGED <<pc[v], author[v], draft[v], bypass[v]>>
          /\ equivocated \subseteq equivocated'
      BY <1>4 DEF WriterStep, save_keypair, wrap, bypass_wrap, insert_genesis,
         save_nonce_for_user_by_key, push_message, push_message_dangerous,
         insert, bypass_insert, abort, wrap_message_in_envelope_for_user_by_key,
         TypeOK
    <2>2. QED
      BY <1>3, <2>1
  <1>5. CASE WriterStep(v)
    <2>1. ASSUME NEW e \in Envelope, save_keypair(v, e) PROVE Goal
      BY <2>1 DEF save_keypair, TypeOK
    <2>2. ASSUME NEW e \in Envelope, NEW t,
                 wrap_message_in_envelope_for_user_by_key(v, t, e),
                 t \in Envelope, connected[t]
          PROVE  /\ height[e] > 0 /\ key[e] = key[t]
                 /\ connected'[prev_msg[e]] /\ draft'[v] = e
                 /\ UNCHANGED <<author, bypass, equivocated>>
      <3>1. prev_msg[e] = t /\ draft' = [draft EXCEPT ![v] = e]
            /\ UNCHANGED <<author, bypass, equivocated>>
        BY <2>2 DEF wrap_message_in_envelope_for_user_by_key
      <3>2. height[e] > 0
        BY <2>2, <3>1, HeaderTypes
      <3>3. QED
        BY <2>2, <3>1, <3>2, <1>1, ChildHeader DEF TypeOK
    <2>3. ASSUME NEW e \in Envelope, wrap(v, e) PROVE Goal
      <3>1. PICK t \in get_tip_for_user_by_key(author[v]) :
              wrap_message_in_envelope_for_user_by_key(v, t, e)
        BY <2>3 DEF wrap
      <3>2. t \in Envelope /\ connected[t] /\ key[t] = author[v]
        BY <3>1 DEF get_tip_for_user_by_key
      <3>3. pc[v] = "wrap" /\ pc'[v] = "insert"
        BY <2>3 DEF wrap, TypeOK
      <3>4. QED
        BY <2>2, <3>1, <3>2, <3>3 DEF WriterInv
    <2>4. ASSUME NEW e \in Envelope, bypass_wrap(v, e) PROVE Goal
      <3>1. /\ pc[v] \in {"bypass_wrap_1", "bypass_wrap_2"}
            /\ pc'[v] \in {"bypass_insert_1", "bypass_insert_2"}
            /\ wrap_message_in_envelope_for_user_by_key(v, bypass[v], e)
        BY <2>4 DEF bypass_wrap, TypeOK
      <3>2. /\ bypass[v] \in Envelope /\ connected[bypass[v]]
            /\ key[bypass[v]] = author[v] /\ author[v] \in equivocated
            /\ author[v] \in LocalKey
        BY <3>1 DEF WriterInv
      <3>3. QED
        BY <2>2, <3>1, <3>2, <1>1
    <2>5. CASE save_nonce_for_user_by_key(v)
      BY <2>5 DEF save_nonce_for_user_by_key, TypeOK, WriterInv
    <2>6. CASE insert_genesis(v)
      BY <2>6 DEF insert_genesis, TypeOK
    <2>7. ASSUME NEW k \in LocalKey, push_message(v, k) PROVE Goal
      BY <2>7 DEF push_message, TypeOK
    <2>8. ASSUME NEW k \in LocalKey, push_message_dangerous(v, k) PROVE Goal
      <3>1. PICK t \in get_tip_for_user_by_key(k) :
              bypass' = [bypass EXCEPT ![v] = t]
        BY <2>8 DEF push_message_dangerous
      <3>2. t \in Envelope /\ connected[t] /\ key[t] = k
        BY <3>1 DEF get_tip_for_user_by_key
      <3>3. QED
        BY <2>8, <3>1, <3>2, <1>1 DEF push_message_dangerous, TypeOK
    <2>9. CASE insert(v)
      BY <2>9 DEF insert, TypeOK, WriterInv
    <2>10. CASE bypass_insert(v)
      BY <2>10, <1>1 DEF bypass_insert, TypeOK, WriterInv
    <2>11. CASE abort(v)
      BY <2>11 DEF abort, TypeOK
    <2>12. QED
      BY <1>5, <2>1, <2>3, <2>4, <2>5, <2>6, <2>7, <2>8, <2>9, <2>10, <2>11
         DEF WriterStep
  <1>6. ASSUME NEW e \in Envelope, ReceiveGenesis(e) \/ ReceiveEnvelope(e)
        PROVE  Goal
    BY <1>3, <1>6 DEF ReceiveGenesis, ReceiveEnvelope, locals
  <1>7. CASE attach_tips
    BY <1>3, <1>7 DEF attach_tips, locals
  <1>8. CASE UNCHANGED vars
    BY <1>3, <1>8 DEF vars, locals
  <1>9. QED
    BY <1>4, <1>5, <1>6, <1>7, <1>8 DEF Next

-----------------------------------------------------------------------------
(* Nonces *)

\* Where a new row of a local key can come from: a writer's genesis, a draft
\* whose parent has no child, or an equivocating writer.
Origin(e) ==
    key[e] \in LocalKey =>
        \E w \in Writer :
            /\ draft[w] = e
            /\ \/ pc[w] = "insert_genesis"
               \/ pc[w] = "insert" /\ ~message_exists_children(prev_msg[e])
               \/ pc[w] \in {"bypass_insert_1", "bypass_insert_2"}

\* A step that adds a row for a local key is the insert of a writer; a peer
\* cannot add one.
LEMMA NewRowOrigin ==
    ASSUME TypeOK, WriterInv, [Next]_vars, NEW e \in Envelope, NewRow(e)
    PROVE  Origin(e)
  <1>1. ~Stored(e) /\ message_id'[e] # 0 /\ message_id'[e] # message_id[e]
        /\ \A f \in Envelope : f # e => message_id'[f] = message_id[f]
    BY DEF NewRow, InsertRow, Stored, TypeOK
  <1>2. ~RowsUnchanged
    BY <1>1 DEF RowsUnchanged, rows
  <1>3. ASSUME NEW f \in Envelope, NewRow(f) PROVE f = e
    BY <1>1, <1>3 DEF NewRow, InsertRow, TypeOK
  <1>4. ASSUME NEW f \in Envelope, ReceiveGenesis(f) \/ ReceiveEnvelope(f)
        PROVE  Origin(e)
    <2>1. NewRow(f)
      BY <1>2, <1>4, InsertEffect DEF ReceiveGenesis, ReceiveEnvelope
    <2>2. QED
      BY <1>1, <1>3, <1>4, <2>1 DEF ReceiveGenesis, ReceiveEnvelope,
         Receivable, Origin
  <1>5. ASSUME NEW w \in Writer, WriterStep(w) PROVE Origin(e)
    <2>1. CASE insert_genesis(w)
      <3>1. draft[w] \in Envelope
        BY <2>1 DEF insert_genesis, WriterInv
      <3>2. draft[w] = e
        BY <3>1, <2>1, <1>2, <1>3, InsertEffect DEF insert_genesis
      <3>3. QED
        BY <2>1, <3>2 DEF Origin, insert_genesis
    <2>2. CASE insert(w)
      <3>1. draft[w] \in Envelope /\ height[draft[w]] > 0
        BY <2>2 DEF insert, WriterInv
      <3>2. draft[w] = e
        BY <3>1, <2>2, <1>2, <1>3, InsertEffect DEF insert
      <3>3. ~message_exists_children(prev_msg[e])
        BY <3>1, <3>2, <2>2, <1>2 DEF insert, RowsUnchanged,
           try_insert_authenticated_envelope, TryInsertOutcome
      <3>4. QED
        BY <2>2, <3>2, <3>3 DEF Origin, insert
    <2>3. CASE bypass_insert(w)
      <3>1. draft[w] \in Envelope
        BY <2>3 DEF bypass_insert, WriterInv
      <3>2. draft[w] = e
        BY <3>1, <2>3, <1>2, <1>3, InsertEffect DEF bypass_insert
      <3>3. QED
        BY <2>3, <3>2 DEF Origin, bypass_insert
    <2>4. ASSUME \/ \E f \in Envelope :
                      save_keypair(w, f) \/ wrap(w, f) \/ bypass_wrap(w, f)
                 \/ save_nonce_for_user_by_key(w) \/ abort(w)
                 \/ \E k \in LocalKey :
                      push_message(w, k) \/ push_message_dangerous(w, k)
          PROVE  FALSE
      BY <2>4, <1>2 DEF save_keypair, wrap, bypass_wrap,
         save_nonce_for_user_by_key, abort, push_message,
         push_message_dangerous, tables, RowsUnchanged,
         wrap_message_in_envelope_for_user_by_key, rows
    <2>5. QED
      BY <1>5, <2>1, <2>2, <2>3, <2>4 DEF WriterStep
  <1>6. CASE attach_tips
    BY <1>1, <1>6 DEF attach_tips
  <1>7. CASE UNCHANGED vars
    BY <1>1, <1>7 DEF vars, tables
  <1>8. QED
    BY <1>4, <1>5, <1>6, <1>7 DEF Next

\* Local rows are connected from the moment they are inserted.
LEMMA LocalConnectedStep ==
    TypeOK /\ WriterInv /\ LinkInv /\ LocalConnected /\ [Next]_vars
      => LocalConnected'
  <1> SUFFICES ASSUME TypeOK, WriterInv, LinkInv, LocalConnected, [Next]_vars,
                      NEW e \in Envelope, Stored(e)', key[e] \in LocalKey
               PROVE  connected'[e]
    BY DEF LocalConnected
  <1>1. CASE Stored(e)
    BY <1>1, ConnectedGrows DEF LocalConnected
  <1>2. CASE ~Stored(e)
    <2>1. NewRow(e)
      <3>1. ~RowsUnchanged /\ ~attach_tips
        BY <1>2 DEF RowsUnchanged, rows, attach_tips, Stored
      <3>2. PICK f \in Envelope : NewRow(f)
        BY <3>1, StepEffect
      <3>3. f = e
        BY <1>2, <3>2 DEF NewRow, InsertRow, Stored, TypeOK
      <3>4. QED
        BY <3>2, <3>3
    <2>2. Origin(e)
      BY <2>1, NewRowOrigin
    <2>3. height[e] = 0 \/ connected[prev_msg[e]]
      BY <2>2 DEF Origin, WriterInv
    <2>4. connected'[e] = (height[e] = 0 \/ connected[prev_msg[e]])
      BY <2>1 DEF NewRow, InsertRow, TypeOK
    <2>5. QED
      BY <2>3, <2>4
  <1>3. QED
    BY <1>1, <1>2

\* One row is added at a time, and only where the reuse check or the
\* equivocate flag allows a second child.
LEMMA NonceStep ==
    TypeOK /\ WriterInv /\ NoNonceReuse /\ [Next]_vars => NoNonceReuse'
  <1> SUFFICES ASSUME TypeOK, WriterInv, NoNonceReuse, [Next]_vars,
                      NEW e \in Envelope, NEW f \in Envelope,
                      Stored(e)', Stored(f)', e # f,
                      key[e] \in LocalKey, key[e] \notin equivocated',
                      prev_msg[e] = prev_msg[f], prev_msg[e] # NULL
               PROVE  FALSE
    BY DEF NoNonceReuse
  <1>1. equivocated \subseteq equivocated'
    BY DEF Next, WriterStep, save_keypair, wrap, bypass_wrap, insert_genesis,
       save_nonce_for_user_by_key, push_message, push_message_dangerous,
       insert, bypass_insert, abort, wrap_message_in_envelope_for_user_by_key,
       ReceiveGenesis, ReceiveEnvelope, attach_tips, vars
  <1>2. /\ height[e] > 0 /\ height[f] > 0
        /\ key[f] = key[e]
    BY HeaderTypes, ChildHeader
  <1>3. ~(Stored(e) /\ Stored(f))
    BY <1>1 DEF NoNonceReuse
  <1>4. ASSUME NEW a \in Envelope, NewRow(a), NEW b \in Envelope, Stored(b),
               key[a] \in LocalKey \ equivocated, prev_msg[a] = prev_msg[b],
               height[a] > 0
        PROVE  FALSE
    <2>1. PICK w \in Writer :
            /\ draft[w] = a
            /\ \/ pc[w] = "insert_genesis"
               \/ pc[w] = "insert" /\ ~message_exists_children(prev_msg[a])
               \/ pc[w] \in {"bypass_insert_1", "bypass_insert_2"}
      BY <1>4, NewRowOrigin DEF Origin
    <2>2. message_exists_children(prev_msg[a])
      BY <1>4 DEF message_exists_children
    <2>3. QED
      BY <2>1, <2>2, <1>4 DEF WriterInv
  <1>5. PICK g \in Envelope : NewRow(g)
    BY <1>3, StepEffect DEF RowsUnchanged, rows, attach_tips, Stored
  <1>6. \A h \in Envelope : Stored(h)' <=> Stored(h) \/ h = g
    BY <1>5 DEF NewRow, InsertRow, Stored, TypeOK
  <1>7. QED
    BY <1>1, <1>2, <1>3, <1>4, <1>5, <1>6

-----------------------------------------------------------------------------
(* Theorems *)

\* The inductive invariant: the types, what each writer relies on, the links
\* between rows, and the two facts about local chains.
IndInv == /\ TypeOK /\ WriterInv /\ LinkInv
          /\ LocalConnected /\ NoNonceReuse

\* The empty database satisfies it.
LEMMA IndInit == Init => IndInv
  BY HeaderAssumption DEF Init, IndInv, TypeOK, WriterState, WriterInv, LinkInv,
     ParentLinked, GenesisLinked, ConnectedClosed, IdsBounded, LocalConnected,
     NoNonceReuse, Stored

\* The inductive invariant holds in every reachable state.
THEOREM Invariance == Spec => []IndInv
  <1>1. IndInv /\ [Next]_vars => IndInv'
    BY TypeStep, WriterStepInv, LinkStep, LocalConnectedStep, NonceStep
       DEF IndInv
  <1>2. QED
    BY IndInit, <1>1, PTL DEF Spec

\* Every column, writer variable and set keeps its type.
THEOREM TypeCorrect == Spec => []TypeOK
  <1>1. IndInv => TypeOK
    BY DEF IndInv
  <1>2. QED
    BY <1>1, Invariance, PTL

\* Rows of one chain are linked to parent and genesis whatever the order they
\* arrive in, and a connected row has its whole chain.
THEOREM LinksCorrect ==
    Spec => []LinksAreSound
  <1>1. IndInv => LinksAreSound
    BY DEF IndInv, LinkInv, LinksAreSound
  <1>2. QED
    BY <1>1, Invariance, PTL

\* However the writers interleave, retry_insert_authenticated_envelope_atomic
\* never stores two envelopes signed with one nonce.
THEOREM NonceSafety == Spec => []NoNonceReuse
  <1>1. IndInv => NoNonceReuse
    BY DEF IndInv
  <1>2. QED
    BY <1>1, Invariance, PTL

\* The retry loop never finds the tip unchanged after a refusal.
THEOREM RetryAdvances == Spec => []RefusalMeansNewTip
  <1>1. IndInv => RefusalMeansNewTip
    <2> SUFFICES ASSUME IndInv, NEW w \in Writer, pc[w] = "insert",
                        message_exists_children(prev_msg[draft[w]]),
                        NEW t \in get_tip_for_user_by_key(author[w])
                 PROVE  height[t] > height[prev_msg[draft[w]]]
      BY DEF RefusalMeansNewTip
    <2> DEFINE p == prev_msg[draft[w]]
    <2>1. PICK c \in Envelope : Stored(c) /\ prev_msg[c] = p
      BY DEF message_exists_children
    <2>2. /\ draft[w] \in Envelope /\ height[draft[w]] > 0
          /\ key[draft[w]] = author[w] /\ author[w] \in LocalKey
      BY DEF IndInv, WriterInv
    <2>3. p \in Envelope /\ key[p] = author[w]
      BY <2>2, ChildHeader
    <2>4. height[c] = height[p] + 1 /\ key[c] = author[w]
      BY <2>1, <2>3, HeaderTypes, ChildHeader
    <2>5. connected[c]
      BY <2>1, <2>2, <2>4 DEF IndInv, LocalConnected
    <2>6. height[c] <= height[t] /\ t \in Envelope
      BY <2>4, <2>5 DEF get_tip_for_user_by_key
    <2>7. QED
      BY <2>3, <2>4, <2>6, HeaderTypes
  <1>2. QED
    BY <1>1, Invariance, PTL

\* Ids, links and connected flags are never taken back, and ids increase.
THEOREM StableRows == Spec => RowsAreStable
  <1> DEFINE A == \A e \in Envelope :
         IF Stored(e)
         THEN /\ message_id'[e] = message_id[e]
              /\ prev_msg_id[e] # 0 => prev_msg_id'[e] = prev_msg_id[e]
              /\ genesis_id'[e] = genesis_id[e]
              /\ connected[e] => connected'[e]
         ELSE message_id'[e] # 0 =>
                \A f \in Envelope : message_id[f] < message_id'[e]
  <1>1. IndInv /\ [Next]_vars => A
    <2> SUFFICES ASSUME IndInv, [Next]_vars PROVE A
      OBVIOUS
    <2>1. TypeOK /\ WriterInv /\ LinkInv
      BY DEF IndInv
    <2>2. \A e \in Envelope : connected[e] => connected'[e]
      BY <2>1, ConnectedGrows
    <2>3. CASE RowsUnchanged
      BY <2>3 DEF RowsUnchanged, rows, Stored
    <2>4. CASE attach_tips
      BY <2>1, <2>2, <2>4, AttachEffect DEF Stored
    <2>5. ASSUME NEW n \in Envelope, NewRow(n) PROVE A
      <3>1. /\ \A e \in Envelope : e # n => message_id'[e] = message_id[e]
            /\ \A e \in Envelope : e # n => genesis_id'[e] = genesis_id[e]
            /\ message_id'[n] = last_id + 1 /\ ~Stored(n)
        BY <2>1, <2>5 DEF NewRow, InsertRow, TypeOK
      <3>2. \A f \in Envelope : message_id[f] < last_id + 1
        BY <2>1 DEF LinkInv, IdsBounded, TypeOK
      <3>3. ASSUME NEW e \in Envelope, Stored(e), prev_msg_id[e] # 0
            PROVE  prev_msg_id'[e] = prev_msg_id[e]
        <4>1. e # n /\ prev_msg_id[e] = IdOf(prev_msg[e])
          BY <3>1, <3>3, <2>1 DEF LinkInv, ParentLinked
        <4>2. prev_msg[e] # n
          BY <3>1, <3>3, <4>1 DEF IdOf, Stored
        <4>3. QED
          BY <2>1, <2>5, <4>1, <4>2 DEF NewRow, InsertRow, TypeOK
      <3>4. QED
        BY <2>2, <3>1, <3>2, <3>3 DEF Stored
    <2>6. QED
      BY <2>1, <2>3, <2>4, <2>5, StepEffect
  <1>2. QED
    BY <1>1, Invariance, PTL DEF Spec, RowsAreStable

=============================================================================
