SPECIFICATION FairSpec
CONSTANTS
    Origins = {o1, o2}
    o1 = o1
    o2 = o2
    Capacity = 1
    MaxSessions = 2
    MaxEpochs = 2
INVARIANTS
    TypeOK
    LiveSessionHasEntry
    ExpiredEntryIsDead
PROPERTIES
    DeadEntriesLeave
    SessionsEnd
CHECK_DEADLOCK FALSE
