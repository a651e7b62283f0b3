SPECIFICATION FairSpec
CONSTANTS
    MaxBytes = 2
INVARIANTS
    CleanEndIsComplete
PROPERTIES
    EndOfInputArrives
    FailureEndsConnection
CHECK_DEADLOCK FALSE
