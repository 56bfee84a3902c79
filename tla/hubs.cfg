CONSTANTS
    d1 = d1
    d2 = d2
    NHubs = 2
    Devices = {d1, d2}
    Workers = {w1, w2}
    None = None
    MaxOps = 2
    MaxTrouble = 1
CHECK_DEADLOCK FALSE
SPECIFICATION SharedSpec
INVARIANTS TypeOK SoleServer KeepsHub
PROPERTIES SparesOthersLoading LoadsEventually
