SPECIFICATION FairSpec
CONSTANTS
    a1 = a1
    a2 = a2
    Frames <- MCFrames
    MaxFrames = 2
INVARIANTS DecodedIsSent RelayKeepsDelivery EndsForAReason
PROPERTY SentIsDecoded
CHECK_DEADLOCK FALSE
