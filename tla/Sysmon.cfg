SPECIFICATION MCSpec
CHECK_DEADLOCK FALSE
CONSTANTS
    DimOrder <- MCDims
    Absent <- MCAbsent
    Windows <- MCWindows
    FirstWindow <- MCFirst
    Jumps <- MCJumps
    Minute = 4
    RawRetention = 2
    MaxRetention = 4
    MaxRows = 5
    QueueCapacity = 2
    MaxBatchRecords = 5
    MaintenanceBatch = 1
    MaxTime = 7
    MaxMaintenance = 1
    MaxTurns = 1
    MaxFaults = 1
    Kinds = {"gauges", "memory", "swap", "volumes", "disk_io", "network", "cpu"}
    Cores = {0, 1}
    Mounts = {"a", "b"}
    Devices = {"x", "y"}
    Virtual = {"y"}
    MaxLevel = 1
    MaxCounter = 1
    Repeats = {0, 1, 2}
    Sustains = {1, 2}
    MaxClock = 4
    MaxSets = 1
    Null = Null
    Nothing = Nothing
    Gone = Gone
    HostLists <- MCHosts
    Local = 1
    Era = 8
    Dispersion = 0
    Backoff = 1
    MaxRounds = 2
    MaxSteady = 2
    MaxCalls = 2
INVARIANTS
    HistoryAccounted
    AnswersHonest
    ReadingsHonest
    ClockHonest
PROPERTIES
    RetentionHonest
    HistoryProgress
