SPECIFICATION FairSpec
CONSTANTS
    Orders = {1, 2, 3, 4}
    PaidBefore <- FirstTwo
    Admins = {"a1"}
    Messages = {"m1", "m2", "m3"}
    Gates = {"g1"}
    ChunkSize = 2
    MaxFaults = 1
CHECK_DEADLOCK FALSE
INVARIANTS
    TypeOK
    TicketFollowsRefund
    CancelledWhenDone
PROPERTIES
    ApprovedIsCancelled
