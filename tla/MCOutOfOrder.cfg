\* Two requests at a time, deployments arriving in any order.
CONSTANTS
    i1 = i1
    i2 = i2
    i3 = i3
    ch1 = ch1
    slot = slot
    None = None
    Ids = {i1, i2, i3}
    Chains = {ch1}
    Slots = {slot}
    Events <- Pipeline
    TTLs = {0, 2, 3}
    Handlers = {h1, h2}
SPECIFICATION IngestSpec
SYMMETRY Symmetry
INVARIANT CurrentlyRunning
