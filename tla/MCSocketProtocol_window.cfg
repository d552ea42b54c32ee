CONSTANTS
    Request = {"c1", "c2", "c3", "s1", "s2"}
    asker <- MCAsker
    kind <- MCKind
    MAX_MESSAGE_DEFECIT = 2
    requestSize <- MCRequestSize
    responseSize <- MCResponseSize
    SocketBuffer = 5
SPECIFICATION FairSpec
INVARIANTS TypeOK DefecitIsInflight NoProtocolError OwnAnswer WindowBoundsWire
PROPERTIES RequestsEnd
CHECK_DEADLOCK FALSE
