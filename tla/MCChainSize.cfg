\* The events of the chainId are not counted against the size limit.
CONSTANTS
    NoChain = NoChain
    Ids = {1, 2, 3, 4}
    Universes <- Graphs
    MaxDepth = 2
    MaxEvents = 3
SPECIFICATION Spec
INVARIANT ChainIsBounded
