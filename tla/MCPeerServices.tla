--------------------------- MODULE MCPeerServices ---------------------------
EXTENDS PeerServices

\* Three chains: r, s, whose second message names a tip of r, and q.
Chain(c, top) == {<<c, h>> : h \in 0..top}
MCEnvelope == Chain("r", 3) \cup Chain("s", 1) \cup Chain("q", 0)
MCHeaderTips == [e \in MCEnvelope |-> IF e = <<"s", 1>> THEN {<<"r", 1>>} ELSE {}]

Setting(fetch, push, allow) ==
    [fetch_from |-> fetch, push_to |-> push, allow_unsolicited_tips |-> allow]
Fetch(allow) == Setting(TRUE, FALSE, allow)
Push == Setting(FALSE, TRUE, FALSE)

Case(ours, theirs, new, set, lost) ==
    [here |-> ours, there |-> theirs, later |-> new, settings |-> set, faults |-> lost]

R == Chain("r", 2)
S == Chain("s", 1)

UnknownChain == Case({}, Chain("r", 1), {<<"r", 2>>}, <<Fetch(TRUE)>>, 0)
NotAllowed == Case({}, R, {}, <<Fetch(FALSE)>>, 0)
Referred == Case(Chain("s", 0), R \cup S, {}, <<Fetch(TRUE)>>, 0)
SessionLost == Case(Chain("r", 0), R \cup S, {}, <<Fetch(TRUE)>>, 2)
Dangles == Case(Chain("s", 0), S \cup Chain("q", 0), {}, <<Fetch(TRUE)>>, 0)
Changed == Case(Chain("r", 0), R, {}, <<Fetch(FALSE), Fetch(TRUE)>>, 1)
PushKnown == Case(R \cup S, Chain("r", 0), {<<"r", 1>>, <<"s", 0>>}, <<Push>>, 1)
BothWays == Case(Chain("r", 1), Chain("r", 0) \cup Chain("q", 0), {}, <<Setting(TRUE, TRUE, TRUE)>>, 1)

\* A chain with a message between two that are not its tip
Hole == Case(Chain("r", 0), Chain("r", 3), {}, <<Fetch(TRUE)>>, 1)

Scenarios == {UnknownChain, NotAllowed, Referred, SessionLost, Dangles, Changed, PushKnown, BothWays, Hole}
=============================================================================
