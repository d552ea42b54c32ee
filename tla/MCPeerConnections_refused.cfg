SPECIFICATION Spec
CONSTANTS
    Node = {"a", "b"}
    Caller = {"a's fetch", "a's push", "b's fetch"}
    At <- MCAt
    Peer <- MCPeer
    JarSize = 1
    MaxAttempts = 4
    Scenario <- RaceOnly
CHECK_DEADLOCK FALSE
PROPERTIES RefusedOnlyWhenConnected
