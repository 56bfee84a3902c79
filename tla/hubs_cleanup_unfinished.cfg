CONSTANTS
    d1 = d1
    d2 = d2
    NHubs = 2
    Devices = {d1, d2}
    Workers = {w1, w2}
    None = None
    MaxOps = 1
    MaxTrouble = 0
CHECK_DEADLOCK FALSE
SPECIFICATION SharedSpec
PROPERTIES SparesUnfinished
