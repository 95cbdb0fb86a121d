\* A reader outside the lock against a writer of the same key.
CONSTANTS
    Key = {k1}
    Value = {v1, v2}
    Nil = Nil
    Thread = {t1, t2}
    Worker = Worker
    Cost = {1}
    CostLimits = {1}
    CountLimits = {1}
    AgeLimits = {1}
    MaxTime = 0
    MaxQueue = 3
SPECIFICATION Spec
INVARIANTS LoadedValueIsOwned
