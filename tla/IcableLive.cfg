SPECIFICATION FairSpec
CONSTANTS
    ann = ann
    bob = bob
    eve = eve
    p1 = p1
    s1 = s1
    s2 = s2
    s3 = s3
    c1 = c1
    c2 = c2
    a1 = a1
    a2 = a2
    n1 = n1
    n2 = n2
    n3 = n3
    Logins = {ann, bob, eve}
    Passwords = {p1}
    Subnets = {s1, s2, s3}
    Cidrs = {c1, c2}
    Sids = {}
    Addresses = {a1, a2}
    NoAddress = NoAddress
    NoLogin = NoLogin
    NoNode = NoNode
    Nodes = {n1, n2}
    InitialDb <- MCDb
    WebChanges <- MCLiveWebChanges
    Requests <- MCLiveRequests
    Leavers = {n2}
    Capacity = 1
    MayStop = FALSE
INVARIANTS ChallengeUsedOnce RelayStaysInSubnet
PROPERTIES AddressNeedsNetwork HandlerEnds
CHECK_DEADLOCK FALSE
