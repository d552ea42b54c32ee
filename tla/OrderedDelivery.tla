--------------------------- MODULE OrderedDelivery ---------------------------
(***************************************************************************)
(* What the sequencer promises to those that read from it: each channel      *)
(* delivers the messages that the host's chain puts in it, one after the     *)
(* other in the host's order, none twice and none skipped.                   *)
(***************************************************************************)
EXTENDS Naturals, Sequences

VARIABLES order,        \* per channel what the host's chain puts in it
          delivered     \* per channel what has come out of it
vars == <<order, delivered>>

Init == delivered = [c \in DOMAIN order |-> <<>>]

Deliver(c) ==
    /\ Len(delivered[c]) < Len(order[c])
    /\ delivered' = [delivered EXCEPT ![c] = Append(@, order[c][Len(@) + 1])]
    /\ UNCHANGED order

Spec == Init /\ [][\E c \in DOMAIN order : Deliver(c)]_vars
=============================================================================
