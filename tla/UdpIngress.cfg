SPECIFICATION FairSpec
CONSTANTS
    Tunnels = {t1, t2}
    t1 = t1
    t2 = t2
    MaxRotation = 1
    MaxSockets = 2
INVARIANTS
    StaleSocketIsCancelled
PROPERTIES
    PoolRefined
    StopEndsSocketTasks
CHECK_DEADLOCK FALSE
