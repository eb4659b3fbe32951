SPECIFICATION WatchedLimitSpec
CONSTANTS
    Threads = {w1, w2, w3}
    MaxAttempts = 5
    Window = 2
    MaxClears = 2
INVARIANTS
    LimitTypeOK
    LoginsBounded
PROPERTIES
    LockoutEnds
CHECK_DEADLOCK FALSE
