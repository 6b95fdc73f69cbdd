SPECIFICATION Spec
CONSTANTS
    Users = {"u1"}
    Types = {"t1", "t2"}
    Holds <- TwoTypes
    Orders <- OneOrderEach
    Calls = {1}
    Letters <- OneLetter
    About <- LetterHold
    First <- FirstLetter
    Buyer <- BuyerOf
    Kind <- KindOf
    Asked <- AskOne
    HoldOf <- PaidHold
    Quantity <- Three
    Payable = {"t1", "t2"}
    ReservationTTL = 2
    ProcessingTTL = 1
    ContextTTL = 2
    Requeue = 1
    MaxRetry = 1
    PendingLimit = 3
    Lookback = 6
    MaxLate = 0
    MaxFaults = 0
    Slow = FALSE
CHECK_DEADLOCK FALSE
PROPERTIES
    PaidHoldKept
