\* The database is busy or full when several rows are deleted.
CONSTANTS
    Key = {k1, k2}
    Nil = Nil
    Type = "Mixed"
    Torn = Torn
    Size = {1, 2}
    Limit = {0, 1, 2}
    IntMax = 100
    MaxErrorRetryCount = 2
    Faults = {"busy"}
    MaxSaves = 3
    MaxTime = 1
    MaxResets = 2
SPECIFICATION Spec
SYMMETRY KeySymmetry
INVARIANTS NoStaleRead
