CONSTANTS
    a1 = a1
    a2 = a2
    m1 = m1
    m2 = m2
    v1 = v1
    v2 = v2
    Attempts = {a1, a2}
    Manuals = {}
    Voiders = {}
    Total = 2
    MaxRedeliveries = 0
SPECIFICATION Spec
INVARIANTS
    NeverOvercharged
CHECK_DEADLOCK FALSE
