SPECIFICATION Spec
CONSTANTS
    u1 = u1
    u2 = u2
    u3 = u3
    Users = {u1, u2, u3}
    Configs <- Resized
    TokenTTL = 1
    MaxFaults = 1
    MaxJoins = 3
    MaxFreed = 1
    MaxReserves = 0
SYMMETRY Symmetry
CHECK_DEADLOCK FALSE
INVARIANTS
    TypeOK
    WaitingOrServed
    DisabledRoomEmpty
PROPERTIES
    AdmissionWithinCapacity
    ImplementsAdmission
