SPECIFICATION FairSpec
CONSTANTS
    c1 = c1
    NoClient = NoClient
    Clients = {c1}
    ISS <- MCISS
    MaxSeq = 1000
    Mss = 2
    BacklogLen = 1
    PayloadSizes = {1}
    MaxBytes = 2
    Closers = {"active"}
    ListenAny = FALSE
    TimeoutsSet = FALSE
    Lossy = FALSE
    ArpMayFail = FALSE
PROPERTIES ClosedIsReleased SentIsDelivered
CHECK_DEADLOCK FALSE
