\* One change of a key at a time, on threads and in blocks; the disk may fail.
CONSTANTS
    Key = {k1, k2}
    Nil = Nil
    Thread = {w, r}
    Writer = {w, r}
    Block = {b, c}
    DiskFails = TRUE
    MaxSets = 3
SPECIFICATION InTurnSpec
SYMMETRY WriterSymmetry
INVARIANTS TypeOK LookupIsLatest
