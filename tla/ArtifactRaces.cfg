SPECIFICATION Spec
CONSTANTS
    Artifacts = {a1, a2}
    Deletes = {d1, d2}
    Documents = {x1}
    None = None
    Faults <- AllButCommit
    EarlyDelete = TRUE
SYMMETRY Symmetry
INVARIANTS
    TypeOK
    DeleteClaimExclusive
    BytesAccountedFor
PROPERTIES
    PutSuccessIsTrue
    ImplementsClaims
CHECK_DEADLOCK FALSE
