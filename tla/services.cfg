SPECIFICATION ServicesSpec
CONSTANTS
    Versions = {"v1", "v2"}
    Tabs = {"tab"}
    Admins = {"admin"}
    Requests = {"r1"}
    MaxFaults = 1
    People = {"p"}
    Hosts = {"h1", "h2"}
    Docs = {"d1", "d2"}
    AccountCalls = {1, 2}
    MaxRequests = 5
    AccountFaults = 1
    Logins = {"l1", "l2"}
    MaxAttempts = 3
    LockoutTTL = 3
    WindowTTL = 1
    Submissions = {1, 2}
    Nonces = {"n1", "n2"}
    NonceTTL = 1
    HoldTTL = 2
    Visitors = {"a", "b", "c"}
    SignedBy <- ThreeVisitors
    Sockets <- FourSockets
    Owner <- SocketOwner
    Space <- SocketSpace
    MaxConnections = 2
    Letters = {"slot", "token", "refund"}
    MaxRetries = 1
    MaxFailures = 2
    MaxRedeliveries = 1
    Sales = {"o1", "o2"}
    Lines = {"t1"}
    LineOf <- SameLine
    Amount <- OneTicket
    OfSessions = {"t1"}
    Edits = {"e1"}
    Price <- AtTen
    Scans = {"g1", "g2"}
    Shows = {"e1", "e2"}
    Sessions = {"s1"}
    Articles = {"a1", "a2"}
    Planners = {"p1", "p2"}
    MaxMaps = 2
CHECK_DEADLOCK FALSE
INVARIANTS
    ServicesTypeOK
    
    ApprovedIsApplied
    ApprovedDocsSeen
    AttemptsBounded
    LockHolds
    NonceBuysOnce
    ConnectionsBounded
    LostOnlyByFailures
    TwinsOnlyByCrash
    ReportsAgree
    DashboardNotAhead
    RootOrSessions
    ZonesOffered
PROPERTIES
    
    RevokeFollowsRemoval
    TransientIsOvercome
