SPECIFICATION Spec
CONSTANTS
    Orders = {1, 2, 3, 4}
    PaidBefore <- Everyone
    Admins = {"a1"}
    Messages = {"m1", "m2"}
    Gates = {}
    ChunkSize = 2
    MaxFaults = 0
CHECK_DEADLOCK FALSE
INVARIANTS
    CancelledMeansRefunded
