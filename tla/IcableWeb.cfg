SPECIFICATION Spec
CONSTANTS
    ann = ann
    a1 = a1
    a2 = a2
    Logins = {admin, ann}
    Passwords = {p1, p2}
    Subnets = {s1, s2}
    Cidrs = {c1}
    Sids = {i1, i2}
    Browsers = {b1, b2}
    NoSid = NoSid
    Admin = admin
    AdminPassword = p1
    Rules <- MCRules
    Addresses = {a1, a2}
    MaxRequests = 6
    MaxCrashes = 1
INVARIANTS RowsOfItsAccount NoOrphanNetwork ListsItsSubnet
PROPERTY VerdictsFollowRules
SYMMETRY MCSymmetry
CHECK_DEADLOCK FALSE
