SPECIFICATION Spec
CONSTANTS
    Callers = {c1}
    Streams = {}
    c1 = c1
    MaxProcesses = 1
    MaxRetry = 64
    OverflowChecks = FALSE
PROPERTIES
    WaitDoublesUpToLimit
