SPECIFICATION WatchedSpec
CONSTANTS
    Passwords = {p1, p2}
    NoPassword = NoPassword
    Workers = {w1, w2}
    MaxTokens = 4
    MaxExpired = 1
SYMMETRY Interchangeable
INVARIANTS
    TypeOK
    RotationBounded
    SessionsProvePasswordAlone
    OneSessionPerLoginAlone
CHECK_DEADLOCK FALSE
