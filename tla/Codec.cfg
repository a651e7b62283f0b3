SPECIFICATION FairSpec
CONSTANTS
    Base = 5
    Names <- MCNames
    Uuids <- MCUuids
    UuidSize = 2
    Addresses <- MCAddresses
    V4Size = 1
    V6Size = 2
    Payloads <- MCPayloads
    MaxSent = 2
INVARIANTS
    ReceivedAreSent
    PanicsOnCutHeaderOnly
    RepliesReturnToOrigin
PROPERTIES
    AllFramesArrive
CHECK_DEADLOCK FALSE
