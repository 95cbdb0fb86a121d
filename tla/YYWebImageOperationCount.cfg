\* One operation of the manager's queue that shows its network activity.
CONSTANTS
    Op = {o1}
    Options = {{"ShowNetworkActivity"}}
    Queued = TRUE
SPECIFICATION Spec
INVARIANTS CountIsExact
CHECK_DEADLOCK FALSE
