----------------------------- MODULE EventReplay -----------------------------
(***************************************************************************)
(* What the litigator's instance of a contract promises: it is always in the *)
(* state that a prefix of the contract's log means, takes up the log one     *)
(* occurrence at a time, in order and none twice, and after a restart begins *)
(* again at the first.  The log only grows, at its end.  Once its reader has *)
(* ended it goes on counting, and takes up nothing more until it restarts.   *)
(***************************************************************************)
EXTENDS Integers, Sequences, SequencesExt

CONSTANT Meaning(_)     \* the state that a sequence of occurrences leads to
VARIABLES log, pos, st, over
vars == <<log, pos, st, over>>

Init == pos = 0 /\ st = Meaning(<<>>) /\ over = FALSE

Grow == IsPrefix(log, log') /\ log' # log /\ UNCHANGED <<pos, st, over>>

HandleOne ==
    /\ ~over /\ pos < Len(log)
    /\ pos' = pos + 1
    /\ st' = Meaning(SubSeq(log, 1, pos'))
    /\ UNCHANGED <<log, over>>

Overrun == over' = TRUE /\ pos' = pos + 1 /\ UNCHANGED <<log, st>>

Restart == pos' = 0 /\ st' = Meaning(<<>>) /\ over' = FALSE /\ UNCHANGED log

Spec == Init /\ [][Grow \/ HandleOne \/ Overrun \/ Restart]_vars
=============================================================================
