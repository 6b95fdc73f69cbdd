SPECIFICATION Spec
CONSTANTS
    u1 = u1
    u2 = u2
    u3 = u3
    Users = {u1, u2}
    Configs <- OneSlot
    TokenTTL = 1
    MaxFaults = 0
    MaxJoins = 3
    MaxFreed = 1
    MaxReserves = 0
SYMMETRY Symmetry
CHECK_DEADLOCK FALSE
PROPERTIES
    ExpiryFreesOnlyExpired
