CONSTANTS
    Message <- ShortMessages
    Chain = {"a", "b"}
    chain <- MCChain
    height <- MCHeight
    MaxHeight = 1
    MaxQuits = 0
SPECIFICATION FairSpec
PROPERTIES AllMessagesSequenced
