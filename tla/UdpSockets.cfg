SPECIFICATION Spec
CONSTANTS
    Socket = {s1, s2, s3}
    LocalAddr = {1}
    Peer = {5}
    Port = {7}
    Ephemeral = {8, 9}
    Arrivals <- MCArrivals
    MaxWaiting = 1
INVARIANTS KeyIsNames AloneIsFound
PROPERTIES CallsKeepOthers DeliveredToMatching
SYMMETRY MCSymmetry
CHECK_DEADLOCK FALSE
