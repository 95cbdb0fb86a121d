\* Nothing fails.
CONSTANTS
    Key = {k1, k2, k3}
    Nil = Nil
    Type = "Mixed"
    Torn = Torn
    Size = {1, 2}
    Limit = {0, 2}
    IntMax = 100
    MaxErrorRetryCount = 2
    Faults = {}
    MaxSaves = 3
    MaxTime = 2
    MaxResets = 1
SPECIFICATION Spec
SYMMETRY KeySymmetry
INVARIANTS RowFileAgreement
PROPERTIES EvictsOldestNeeded FitsLimit
