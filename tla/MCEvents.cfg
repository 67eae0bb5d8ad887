CONSTANTS
    j1 = j1
    w1 = w1
    a1 = a1
    a2 = a2
    Jobs = {j1}
    NoJob = NoJob
    MaxMsgId = 3
    Workers = {w1}
    Admins = {a1, a2}
    Qty = 2
    MaxReadCount = 0
    MaxFaults = 1
    Drafts = {1, 2}
    Payment <- PaidAlike
    Sellers = {"merges", "single"}
    Consolidating = {"merges"}
    FirstSeller <- OneSeller
    MaxParents = 2
    Mergers = {v1, v2}
    Editors = {u1}
    NoTx = NoTx
    Delayed = {1}
    MaxFinalizeRetries = 0
SPECIFICATION EventsSpec
INVARIANTS
    JobsAccounted
    BilledOnce
PROPERTIES
    DeliversJobs
    BillsDrafts
