SPECIFICATION Spec
CONSTANTS
    c1 = c1
    NoClient = NoClient
    Clients = {c1}
    ISS <- MCISSNearMax
    MaxSeq = 1000
    Mss = 3
    BacklogLen = 1
    PayloadSizes = {1, 2}
    MaxBytes = 2
    Closers = {"active", "passive"}
    ListenAny = TRUE
    TimeoutsSet = TRUE
    Lossy = TRUE
    ArpMayFail = TRUE
INVARIANTS TypeOK ReceivedInOrder AckedIsDelivered HandshakeAgreement
PROPERTIES StreamSpec
CHECK_DEADLOCK FALSE
