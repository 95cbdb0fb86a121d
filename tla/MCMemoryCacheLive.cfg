\* Liveness under fair scheduling; no symmetry.
CONSTANTS
    Key = {k1, k2}
    Value = {v1}
    Nil = Nil
    Thread = {t1}
    Worker = Worker
    Cost = {1}
    CostLimits = {1, 2}
    CountLimits = {1, 2}
    AgeLimits = {1}
    MaxTime = 0
    MaxQueue = 3
SPECIFICATION FairSpec
PROPERTIES SettlesWithinLimits
