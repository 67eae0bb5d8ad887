CONSTANTS
    r1 = r1
    r2 = r2
    w1 = w1
    w2 = w2
    Ranges = {r1}
    Workers = {w1, w2}
    NoWorker = NoWorker
    MaxRetries = 1
    MaxReopens = 0
    MaxFaults = 1
SPECIFICATION Spec
PROPERTIES
    ZombiesWriteNothing
