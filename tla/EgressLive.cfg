SPECIFICATION FairSpec
CONSTANTS
    Callers = {c1}
    Streams = {s1}
    c1 = c1
    s1 = s1
    MaxProcesses = 2
    MaxRetry = 60
    OverflowChecks = TRUE
INVARIANTS
    StateMatchesProcess
PROPERTIES
    StopReturns
    CancelledProcessDrains
    Reconnects
    WaitDoublesUpToLimit
