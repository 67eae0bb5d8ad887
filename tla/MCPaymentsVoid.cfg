CONSTANTS
    a1 = a1
    a2 = a2
    m1 = m1
    m2 = m2
    v1 = v1
    v2 = v2
    Attempts = {}
    Manuals = {m1}
    Voiders = {v1}
    Total = 2
    MaxRedeliveries = 0
SPECIFICATION FairSpec
PROPERTIES
    PaidNeverVoided
CHECK_DEADLOCK FALSE
