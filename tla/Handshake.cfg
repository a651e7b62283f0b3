SPECIFICATION FairSpec
CONSTANTS
    MaxFrames = 2
INVARIANTS
    TunnelMeansAuthenticated
    
PROPERTIES
    SidesEndTogether
    HandshakeEnds
CHECK_DEADLOCK FALSE
