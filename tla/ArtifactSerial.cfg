SPECIFICATION FairSpec
CONSTANTS
    Artifacts = {a1, a2}
    Deletes = {d1, d2}
    Documents = {}
    None = None
    Faults <- NoCrash
    EarlyDelete = FALSE
INVARIANT
    DeletedHasNoBytes
PROPERTIES
    RefusalMeansLiveHolder
    RowsSettle
CHECK_DEADLOCK FALSE
