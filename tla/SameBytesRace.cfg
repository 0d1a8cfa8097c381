SPECIFICATION Spec
CONSTANTS
    None = None
    x1 = x1
    x2 = x2
    Documents = {x1}
    Uploads = {u1, u2}
    Removals = {w1}
    Deletes = {}
    Reconcilers = {}
    Hashes = {h1}
    MaxAttempts = 1
    Settings <- MCSameBytes
SYMMETRY Symmetry
INVARIANTS
    StoredDocHasBytes
CHECK_DEADLOCK FALSE
