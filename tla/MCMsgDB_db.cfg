CONSTANTS
    Envelope <- MCEnvelopes
    Key <- MCEnvelopeKeys
    LocalKey = {"local"}
    Writer = {"w1", "w2"}
    NULL = "none"
    key <- MCKey
    height <- MCHeight
    prev_msg <- MCPrev
    genesis <- MCGenesis
    ancestors <- MCAncestors
SPECIFICATION FairSpec
CONSTRAINT OneOfBoth
INVARIANTS TypeOK LinksAreSound NoNonceReuse RefusalMeansNewTip
PROPERTIES RowsAreStable EventuallyConnected
