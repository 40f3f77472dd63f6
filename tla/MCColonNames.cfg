\* Two services whose names and environments hold colons.
CONSTANTS
    None = None
    Slots <- Colons
    Requests <- ColonQueries
    DefaultLimit = 2
    MaxLimit = 3
    MaxTime = 2
    MaxChanges = 2
    Alphabet <- Order
    MaxScans = 2
SPECIFICATION Spec
INVARIANT LookupKeepsSlotsApart
