SPECIFICATION ServicesSpec
CONSTANTS
    Versions = {"v1"}
    Tabs = {}
    Admins = {}
    Requests = {}
    MaxFaults = 0
    People = {"p"}
    Hosts = {"h1"}
    Docs = {"d1"}
    AccountCalls = {1}
    MaxRequests = 5
    AccountFaults = 0
    Logins = {}
    MaxAttempts = 3
    LockoutTTL = 3
    WindowTTL = 1
    Submissions = {}
    Nonces = {}
    NonceTTL = 1
    HoldTTL = 2
    Visitors = {}
    SignedBy <- ThreeVisitors
    Sockets = {}
    Owner <- SocketOwner
    Space <- SocketSpace
    MaxConnections = 2
    Letters = {}
    MaxRetries = 3
    MaxFailures = 3
    MaxRedeliveries = 1
    Sales = {}
    Lines = {}
    LineOf <- SameLine
    Amount <- OneTicket
    OfSessions = {}
    Edits = {}
    Price <- AtTen
    Scans = {}
    Shows = {}
    Sessions = {}
    Articles = {}
    Planners = {}
    MaxMaps = 2
CHECK_DEADLOCK FALSE
PROPERTIES
    RevokesOnlyCollaborators
