-------------------------- MODULE MCPeerConnections --------------------------
EXTENDS PeerConnections

\* Two tasks of a, which connect to b, and one of b, which connects to a
MCAt == [k \in Caller |-> IF k = "b's fetch" THEN "b" ELSE "a"]
MCPeer == [k \in Caller |-> IF k = "b's fetch" THEN "a" ELSE "b"]

Calls(callers, attempts, timeouts, losses, aborts) ==
    [calling |-> callers, attempts |-> attempts, timeouts |-> timeouts,
     losses |-> losses, aborts |-> aborts]

BothDial == Calls({"a's fetch", "b's fetch"}, 2, 0, 1, 0)
TwoOfA == Calls({"a's fetch", "a's push"}, 2, 1, 0, 0)
OneOfA == Calls({"a's fetch"}, 3, 2, 0, 0)
Aborted == Calls({"a's fetch"}, 1, 0, 0, 1)
Scenarios == {BothDial, TwoOfA, OneOfA, Aborted}
RaceOnly == {Calls({"a's fetch", "a's push"}, 4, 0, 0, 0)}
=============================================================================
