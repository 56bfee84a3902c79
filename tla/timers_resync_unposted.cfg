CONSTANTS
    k1 = k1
    k2 = k2
    NSlots = 2
    Keys = {k1, k2}
    Gids = {1, 2, 3}
    None = None
    Calls = {c1}
    Serial = TRUE
    MaxWire = 1
    MaxOps = 2
    MaxTrouble = 1
CHECK_DEADLOCK FALSE
SPECIFICATION SeededSpec
PROPERTIES OrphansWereDropped
