SPECIFICATION Spec
CONSTANTS
    Seeded = {s1}
    Facts = {f1, f2, f3}
    Deletes = {d1}
    None = None
    Settings <- MCSettings
SYMMETRY Symmetry
INVARIANTS
    TypeOK
    LedgerAgrees
    DeletedIsForgotten
    ChainsEnd
    FactsAreKept
CHECK_DEADLOCK FALSE
