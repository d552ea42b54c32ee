------------------------------- MODULE EventLog -------------------------------
(***************************************************************************)
(* The event log, event-log/src: the SQLite file in which game-host and      *)
(* sapio-litigator write what happens to a contract.  It holds groups, named *)
(* by a unique key, and occurrences, each in a group and numbered by an      *)
(* AUTOINCREMENT id over all groups.  The id of an occurrence is its place   *)
(* in "occurrences".  A group is identified with its key; data is the event. *)
(*                                                                           *)
(* Two processes write the file.  A statement is a transaction of its own,   *)
(* except where the litigator holds one open: writer is then its owner, and  *)
(* nobody else writes.                                                       *)
(***************************************************************************)
EXTENDS Integers, Sequences, FiniteSets, SequencesExt

VARIABLES groups, occurrences, writer
evlog == <<groups, occurrences, writer>>

NoTag == <<>>       \* occurrence_unique_tag NULL
NoWriter == <<>>

Occurrence(group_id, ev, tag) == [group_id |-> group_id, ev |-> ev, unique_tag |-> tag]

\* mutant: the table has no UNIQUE constraint
AlreadyExists_no_unique(group_id, tag) == FALSE
\* UNIQUE(occurrence_group_id, occurrence_unique_tag): two NULLs are distinct.
AlreadyExists(group_id, tag) ==
    /\ tag # NoTag
    /\ \E i \in DOMAIN occurrences : /\ occurrences[i].group_id = group_id
                                     /\ occurrences[i].unique_tag = tag

\* The outcome Idempotent::AlreadyExists leaves the log as it is.
insert_occurrence(group_id, ev, tag) ==
    /\ writer = NoWriter
    /\ occurrences' = IF AlreadyExists(group_id, tag) THEN occurrences
                      ELSE Append(occurrences, Occurrence(group_id, ev, tag))
    /\ UNCHANGED <<groups, writer>>

\* insert_new_occurrence_group(k).or_else(get_occurrence_group_by_key(k))
get_or_insert_group(key) ==
    /\ writer = NoWriter
    /\ groups' = groups \cup {key}
    /\ UNCHANGED <<occurrences, writer>>

\* The ids of a group's occurrences after an id, in ascending order.
occurrences_for_group_after_id(group_id, after) ==
    LET ids[n \in 0..Len(occurrences)] ==
            IF n = 0 THEN <<>>
            ELSE IF n > after /\ occurrences[n].group_id = group_id
            THEN Append(ids[n - 1], n) ELSE ids[n - 1]
    IN ids[Len(occurrences)]

occurrences_for_group(group_id) ==
    LET ids == occurrences_for_group_after_id(group_id, 0)
    IN [n \in DOMAIN ids |-> occurrences[ids[n]]]

EventLogTypeOK ==
    /\ \A i \in DOMAIN occurrences : occurrences[i].group_id \in groups
    /\ \A i, j \in DOMAIN occurrences :
          /\ occurrences[i].group_id = occurrences[j].group_id
          /\ occurrences[i].unique_tag = occurrences[j].unique_tag
          /\ occurrences[i].unique_tag # NoTag
          => i = j
=============================================================================
