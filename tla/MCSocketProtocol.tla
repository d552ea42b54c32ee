-------------------------- MODULE MCSocketProtocol --------------------------
(* Small instances of SocketProtocol: requests of both sides and of kinds    *)
(* that repeat and differ.                                                   *)
EXTENDS SocketProtocol

MCAsker == [r \in Request |-> IF r \in {"c1", "c2", "c3"} THEN "client" ELSE "server"]
MCKind == [r \in Request |->
    CASE r \in {"c1", "c2", "s2"} -> "Post"
      [] r \in {"c3", "s1"} -> "LatestTips" [] OTHER -> "SpecificTips"]
\* A post of each side is larger than the transport's buffer.
MCRequestSize == [r \in Request |-> IF r \in {"c2", "s2"} THEN 6 ELSE 1]
MCResponseSize == [r \in Request |-> 1]
=============================================================================
