SPECIFICATION FairSpec
CONSTANTS
    Tunnels = {t1}
    t1 = t1
    k1 = k1
    Connections = {k1}
    MaxRotation = 1
    MaxListeners = 2
    MaxStreams = 1
    DebugLog = FALSE
PROPERTIES
    StoppedIngressStopsAccepting
CHECK_DEADLOCK FALSE
