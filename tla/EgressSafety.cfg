SPECIFICATION Spec
CONSTANTS
    Callers = {c1, c2}
    Streams = {s1, s2}
    c1 = c1
    c2 = c2
    s1 = s1
    s2 = s2
    MaxProcesses = 3
    MaxRetry = 1
    OverflowChecks = FALSE
SYMMETRY Symmetry
INVARIANTS
    NoOrphanTask
    HeldAreDistinct
    EndedTaskClosedItsTunnel
