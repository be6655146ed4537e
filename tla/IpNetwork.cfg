SPECIFICATION Spec
CONSTANTS
    a = a
    b = b
    gw = gw
    a1 = a1
    r1 = r1
    r2 = r2
    b2 = b2
    Lo = Lo
    NoGateway = NoGateway
    Node = {a, b, gw}
    Iface = {a1, r1, r2, b2}
    NodeOf <- MCNodeOf
    AddrOf <- MCAddrOf
    Gateway <- MCGateway
    Metric <- MCMetric
    InitiallyUp <- MCButOne
    Sends <- MCSends
    MaxSends = 2
    MayIfDown = TRUE
    Lossy = TRUE
    Patient = FALSE
INVARIANTS ArpTruth AtMostOnce HandedToAddressee RepliesAnswer
PROPERTIES EchoAnswered
CHECK_DEADLOCK FALSE
