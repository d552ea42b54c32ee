CONSTANTS
    Message <- ForkMessages
    Chain = {"a", "b"}
    chain <- MCChain
    height <- MCHeight
    MaxHeight = 2
    MaxQuits = 1
SPECIFICATION FairSpec
INVARIANTS TypeOK SequencedInChainOrder PanicsOnlyOnFork
PROPERTIES SeenIsSequenced
