\* The total size passes INT_MAX.
CONSTANTS
    Key = {k1, k2}
    Nil = Nil
    Type = "Mixed"
    Torn = Torn
    Size = {1, 2}
    Limit = {0, 1, 2}
    IntMax = 3
    MaxErrorRetryCount = 2
    Faults = {}
    MaxSaves = 3
    MaxTime = 1
    MaxResets = 2
SPECIFICATION Spec
SYMMETRY KeySymmetry
PROPERTIES FitsLimit
