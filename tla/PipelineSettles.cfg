SPECIFICATION FairSpec
CONSTANTS
    None = None
    x1 = x1
    x2 = x2
    Documents = {x1}
    Uploads = {u1, u2}
    Removals = {}
    Deletes = {d1}
    Reconcilers = {r1}
    Hashes = {h1, h2}
    MaxAttempts = 2
    Settings <- MCSettles
INVARIANTS
    LinkedArtifactLives
PROPERTIES
    RowsSettle
CHECK_DEADLOCK FALSE
