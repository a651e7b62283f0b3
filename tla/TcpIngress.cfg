SPECIFICATION FairSpec
CONSTANTS
    Tunnels = {t1, t2}
    t1 = t1
    t2 = t2
    k1 = k1
    k2 = k2
    Connections = {k1, k2}
    MaxRotation = 3
    MaxListeners = 1
    MaxStreams = 1
    DebugLog = TRUE
INVARIANTS
    PoolTypeOK
    OpenTunnelsInPool
    NoDuplicates
    RoundRobin
PROPERTIES
    ClosedTunnelLeaves
    ConnectionsEndWithTunnel
    
CHECK_DEADLOCK FALSE
