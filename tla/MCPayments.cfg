CONSTANTS
    a1 = a1
    a2 = a2
    m1 = m1
    m2 = m2
    v1 = v1
    v2 = v2
    Attempts = {a1, a2}
    Manuals = {m1}
    Voiders = {v1, v2}
    Total = 2
    MaxRedeliveries = 1
SPECIFICATION FairSpec
INVARIANTS
    TypeOK
    OneAttemptAtATime
    CardPaymentsBounded
    SettledAccounted
    DueMatchesApplied
    VoidCreditsOnce
PROPERTIES
    ClosedStaysClosed
    ChargesReachInvoice
CHECK_DEADLOCK FALSE
