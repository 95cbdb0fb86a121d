\* Every interleaving of callers, trims, the queue and limit changes.
CONSTANTS
    Key = {k1, k2, k3}
    Value = {v1}
    Nil = Nil
    Thread = {t1}
    Worker = Worker
    Cost = {1, 2}
    CostLimits = {1, 2}
    CountLimits = {0, 3}
    AgeLimits = {1}
    MaxTime = 2
    MaxQueue = 3
SPECIFICATION Spec
SYMMETRY KeySymmetry
INVARIANTS TypeOK ListMatchesDic CostAccounting RecencySorted
PROPERTIES EvictsLeastRecentlyUsed AgeTrimComplete NoLostTrim CountBounded
