SPECIFICATION Spec
CONSTANTS
    a1 = a1
    a2 = a2
    a3 = a3
    a4 = a4
    c1 = c1
    c2 = c2
    NoJob = NoJob
    NoReply = NoReply
    Absent = Absent
    Account = {a1, a2, a3, a4}
    Client = {c1, c2}
    Trusted = {c1, c2}
    Operations <- MCMoney
    InitialDisk <- MCInitialDisk
    MaxCalls <- MCTwice
    Lossy = FALSE
    MayCrash = FALSE
    DiskMayFail = FALSE
INVARIANTS NoOverdraft
CHECK_DEADLOCK FALSE
