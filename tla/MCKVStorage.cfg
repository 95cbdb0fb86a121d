\* Calls fail and the process crashes at any step.
CONSTANTS
    Key = {k1, k2}
    Nil = Nil
    Type = "Mixed"
    Torn = Torn
    Size = {1}
    Limit = {0, 1}
    IntMax = 100
    MaxErrorRetryCount = 2
    Faults = {"io", "crash"}
    MaxSaves = 3
    MaxTime = 1
    MaxResets = 2
SPECIFICATION Spec
SYMMETRY KeySymmetry
INVARIANTS TypeOK AckedDurable NoStaleRead TrashIsScheduled
PROPERTIES ImplementsStore
