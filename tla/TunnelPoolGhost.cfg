SPECIFICATION FairPoolSpec
CONSTANTS
    Tunnels = {t1, t2}
    t1 = t1
    t2 = t2
    MaxRotation = 1
PROPERTIES
    DisconnectedTunnelLeaves
CHECK_DEADLOCK FALSE
