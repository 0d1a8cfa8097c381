SPECIFICATION Spec
CONSTANTS
    None = None
    x1 = x1
    x2 = x2
    Documents = {x1, x2}
    Uploads = {u1, u2}
    Removals = {w1, w2}
    Deletes = {}
    Reconcilers = {r1, r2}
    Hashes = {h1, h2}
    MaxAttempts = 2
    Settings <- MCRaces
SYMMETRY Symmetry
INVARIANTS
    TypeOK
    RowsAgree
    NoBytesLost
PROPERTIES
    SlotKept
    ArchivalIsEarned
    AnswersAreTrue
CHECK_DEADLOCK FALSE
