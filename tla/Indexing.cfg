SPECIFICATION FairSpec
CONSTANTS
    None = None
    Indexers = {i1, i2}
    Resets = {r1}
    Texts = {t1, t2}
    Connections = 3
INVARIANTS
    TypeOK
    IndexedIsWhole
    ErrorNamesFailure
    DeleteForgets
PROPERTIES
    SkipHasText
    RequestsFinish
CHECK_DEADLOCK FALSE
