----------------------------- MODULE MCGameHost -----------------------------
(* Small instances of GameHost: chain a with three messages and chain b with *)
(* two; in the forked instance a has a second message at height 1.           *)
EXTENDS GameHost

ForkMessages == {"a0", "a1", "a1x", "a2", "b0", "b1"}
ShortMessages == {"a0", "a1", "b0"}

MCChain == [m \in Message |-> IF m \in {"b0", "b1"} THEN "b" ELSE "a"]
MCHeight == [m \in Message |->
    CASE m \in {"a0", "b0"} -> 0 [] m \in {"a1", "a1x", "b1"} -> 1
      [] OTHER -> 2]
=============================================================================
