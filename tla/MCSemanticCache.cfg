SPECIFICATION Spec
CONSTANTS
    Lookups = {l1, l2}
    Inserts = {i1, i2}
    Evictions = {e1}
    Prompts = {p1, p2}
    Similarity <- MCSimilarity
    MinScore = 95
SYMMETRY MCSymmetry
INVARIANTS
    InsertedIsFindable
    NoHitAfterEvict
    CleanedPointStaysAway
PROPERTY
    ImplementsContract
\* Every call is made once.
CHECK_DEADLOCK FALSE
