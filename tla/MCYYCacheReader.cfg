\* One thread sets and removes objects while another reads.
CONSTANTS
    Key = {k1, k2}
    Nil = Nil
    Thread = {w, r}
    Writer = {w}
    Block = {}
    DiskFails = FALSE
    MaxSets = 3
SPECIFICATION Spec
SYMMETRY KeySymmetry
INVARIANTS LookupIsLatest
