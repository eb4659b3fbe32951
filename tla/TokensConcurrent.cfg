SPECIFICATION ServerSpec
CONSTANTS
    Users = {u1, u2}
    Workers = {w1, w2}
    Messages = {m1, m2}
    Contacts = {c1, c2}
    States = {s1, s2}
    MaxTokens = 1
    MaxGrants = 5
    MaxSlips = 1
    MaxHonoured = 5
    MaxRestarts = 1
SYMMETRY Interchangeable
INVARIANTS
    ServerTypeOK
    PaidByOwnToken
    SpendingBounded
    ReplayBounded
    InExpectedStateAlone
CHECK_DEADLOCK FALSE
