SPECIFICATION FairSpec
CONSTANTS
    Connections = {1, 2}
    Workers = 1
    ServerCommands <- MCServerCommands
    ClientCommands <- MCClientCommands
    Directories <- MCDirectories
    MaxLaunches = 3
    MaxLosses = 1
INVARIANTS
    PairMatches
    StopClosesTunnels
    NoEgressIsForgotten
PROPERTIES
    AnnouncedHashStays
    StopReturns
    ConfiguredEgressIsServed
CHECK_DEADLOCK FALSE
