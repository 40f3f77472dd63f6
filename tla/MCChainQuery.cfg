\* Four events over four link graphs, any of them stored, saved or expiring.
CONSTANTS
    NoChain = NoChain
    Ids = {1, 2, 3, 4}
    Universes <- Graphs
    MaxDepth = 2
    MaxEvents = 3
SPECIFICATION FairSpec
INVARIANTS TypeOK SteadyChainIsComplete ChainIsJustified EachEventOnce RootCauseIsEarliest
PROPERTY QueryEnds
