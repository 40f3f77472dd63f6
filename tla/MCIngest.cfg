\* Two requests at a time, of a pipeline that may retry any of its events.
CONSTANTS
    i1 = i1
    i2 = i2
    i3 = i3
    ch1 = ch1
    slot = slot
    None = None
    Ids = {i1, i2, i3}
    Chains = {ch1}
    Slots = {slot}
    Events <- Pipeline
    TTLs = {0, 2, 3}
    Handlers = {h1, h2}
SPECIFICATION IngestSpec
SYMMETRY Symmetry
INVARIANTS IngestTypeOK ChainLookupAgrees IndexOutlivesEvents AcknowledgedSurvives
           DeploymentsHaveTheirEvents InOrderIsCurrent
PROPERTIES StoreSpec ImplementsStorage
