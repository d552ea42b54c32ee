SPECIFICATION FairSpec
CONSTANTS
    Node = {"a", "b"}
    Caller = {"a's fetch", "a's push", "b's fetch"}
    At <- MCAt
    Peer <- MCPeer
    JarSize = 1
    MaxAttempts = 3
    Scenario <- Scenarios
CHECK_DEADLOCK FALSE
INVARIANTS TableIsSound ServedIsAuthentic
PROPERTIES LoneCallerConnects
