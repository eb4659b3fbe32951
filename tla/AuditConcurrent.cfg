SPECIFICATION WatchedSpec
CONSTANTS
    Workers = {w1, w2, w3}
    Limit = 4
    MaxChanges = 5
    MaxTime = 5
SYMMETRY Interchangeable
INVARIANTS
    TypeOK
    ForksBounded
    LeadsBack
    EntriesAreReal
    ChainVerifiesAlone
CHECK_DEADLOCK FALSE
