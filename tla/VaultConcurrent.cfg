SPECIFICATION WatchedSpec
CONSTANTS
    u1 = u1
    u2 = u2
    m1 = m1
    m2 = m2
    NoMemory = NoMemory
    Users <- MCUsers
    Memories <- MCMemories
    OwnerOf <- MCOwnerOf
    Contents <- FewContents
    Extensions <- FewExtensions
    Workers = {w1, w2}
    MaxFiles = 2
INVARIANTS
    TypeOK
    AssetsAreWhole
    NamesAreTrue
    MemoriesExistAlone
CHECK_DEADLOCK FALSE
