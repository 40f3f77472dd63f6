\* Queries on either backend, with and without redisTTL, over deployments that
\* are recorded and expire meanwhile.
CONSTANTS
    None = None
    Slots <- Prefixed
    Requests <- Queries
    DefaultLimit = 1
    MaxLimit = 1
    MaxTime = 2
    MaxChanges = 2
    Alphabet <- Order
    MaxScans = 2
SPECIFICATION Spec
INVARIANTS TypeOK LatestOutranksSteady LatestIsCurrent UnknownIsUnknown
           ListKeepsSteady ListIsSound
