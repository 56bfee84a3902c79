CONSTANTS
    k1 = k1
    k2 = k2
    NSlots = 2
    Keys = {k1, k2}
    Gids = {1, 2, 3, 4}
    None = None
    Calls = {c1, c2}
    Serial = FALSE
    MaxWire = 2
    MaxOps = 2
    MaxTrouble = 0
CHECK_DEADLOCK FALSE
SPECIFICATION SeededSpec
SYMMETRY CallSymmetry
VIEW Visible
INVARIANTS CloudMirrors NoDuplicateKeys
