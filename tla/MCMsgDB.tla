------------------------------ MODULE MCMsgDB ------------------------------
(* Small instances of MsgDB: a tree of envelopes per key, built from a set  *)
(* of names and their parents.                                              *)
EXTENDS MsgDB

\* What peers send: r0 <- r1 <- r2 <- r3 with a fork r2x on r1, and the chain
\* s0 <- s1 of a second user
RemoteEnvelopes == {"r0", "r1", "r2", "r2x", "r3", "s0", "s1"}
\* What the writers can make: two children of the genesis, and one to go on with
LocalEnvelopes == {"l0", "l1a", "l1b", "l2a"}

MCEnvelopes == RemoteEnvelopes \cup LocalEnvelopes

ParentName == [e \in MCEnvelopes |->
    CASE e \in {"r0", "s0", "l0"} -> "none"
      [] e = "r1" -> "r0" [] e \in {"r2", "r2x"} -> "r1" [] e = "r3" -> "r2"
      [] e = "s1" -> "s0"
      [] e \in {"l1a", "l1b"} -> "l0"
      [] e = "l2a" -> "l1a"]

MCPrev == [e \in Envelope |-> ParentName[e]]

MCKey == [e \in Envelope |->
    CASE e \in LocalEnvelopes -> "local"
      [] e \in {"s0", "s1"} -> "s" [] OTHER -> "r"]

MCHeight == [e \in Envelope |->
    CASE e \in {"r0", "s0", "l0"} -> 0
      [] e \in {"r1", "s1", "l1a", "l1b"} -> 1
      [] e \in {"r2", "r2x", "l2a"} -> 2
      [] e = "r3" -> 3]

MCGenesis == [e \in Envelope |->
    CASE MCKey[e] = "local" -> "l0" [] MCKey[e] = "s" -> "s0" [] OTHER -> "r0"]

MCAncestors ==
    LET Anc[e \in Envelope] ==
            IF MCHeight[e] = 0 THEN {e} ELSE {e} \cup Anc[MCPrev[e]]
    IN [e \in Envelope |-> Anc[e]]

MCEnvelopeKeys == {MCKey[e] : e \in Envelope}

\* Either peers' chains arrive, or a key is made here and its chain is written and
\* comes back from peers: the two have nothing in common but the counter of ids.
OneOfBoth == keypairs = {} \/ \A e \in RemoteEnvelopes : ~Stored(e)
=============================================================================
