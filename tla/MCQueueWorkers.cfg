CONSTANTS
    j1 = j1
    j2 = j2
    w1 = w1
    w2 = w2
    a1 = a1
    a2 = a2
    Jobs = {j1, j2}
    NoJob = NoJob
    MaxMsgId = 2
    Workers = {w1, w2}
    Admins = {}
    Qty = 2
    MaxReadCount = 1
    MaxFaults = 1
SPECIFICATION FairSpec
INVARIANTS
    TypeOK
    AttemptsExclusive

    
