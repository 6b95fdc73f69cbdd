SPECIFICATION FairSpec
CONSTANTS
    Users = {"u1", "u2"}
    Types = {"t1"}
    Holds <- OncePerUser
    Orders <- OneOrderEach
    Calls = {1}
    Letters <- OneLetter
    About <- LetterHold
    First <- FirstLetter
    Buyer <- BuyerOf
    Kind <- KindOf
    Asked <- AskUneven
    HoldOf <- PaidHold
    Quantity <- Three
    Payable = {"t1"}
    ReservationTTL = 4
    ProcessingTTL = 2
    ContextTTL = 4
    Requeue = 1
    MaxRetry = 1
    PendingLimit = 6
    Lookback = 12
    MaxLate = 3
    MaxFaults = 0
    Slow = FALSE
CHECK_DEADLOCK FALSE
INVARIANTS
    TypeOK
    NoOversell
PROPERTIES
    HoldSettled
    ImplementsBoxOffice
