SPECIFICATION MCSpec
CHECK_DEADLOCK FALSE
CONSTANTS
    Names = {"adm", "u"}
    AdminName = "adm"
    Conns = {c1, c2}
    Addrs = {a1}
    Ttl = 1
    LockSecs = 1
    MaxNow = 1
    MaxVersion = 2
    MaxRequests = 2
    MaxFails = 2
    MaxTokens = 2
    Procs = {"a", "z"}
    Before = {"a"}
    Fresh = {"a"}
    MaxFrames = 4
    MaxOps = 1
    MaxBreaks = 1
    Gateways = {g1, g2}
    Accounts = {acc}
    MaxSubmits = 1
    MaxTurns = 2
    RowIds = {1, 2}
    OrderVolume = 2
    Capacity = 1
    RingCapacity = 6
    MaxSeq = 3
    MaxDays = 2
    MaxTroubles = 2
    MaxWaiting = 2
    MaxFetches = 2
    MaxTries = 3
    MaxEvents = 4
INVARIANTS
    AccountsHonest
    MirrorHonest
    RegistryHonest
    TradingViewsHonest
PROPERTY
    ListsAnnounced
