SPECIFICATION Spec
CONSTANTS
    None = None
    Indexers = {i1, i2, i3}
    Resets = {}
    Texts = {t1, t2}
    Connections = 1
SYMMETRY Symmetry
PROPERTIES
    RetryCompletes
CHECK_DEADLOCK FALSE
