SPECIFICATION WatchedSpec
CONSTANTS
    Users = {alex, kim}
    Demo = alex
    Titles = {title1, title2}
    Texts = {text1, text2}
    None = None
    Workers = {w1, w2}
    MaxRows = 5
SYMMETRY Interchangeable
INVARIANTS
    TypeOK
    LastTextReads
    LastTitleShowsAlone
PROPERTIES
    SealedForGood
    LeftToNobodyAlone
CHECK_DEADLOCK FALSE
