CONSTANTS
    Instruments = {x}
    Strategies = {a, b}
    subscribe_batch_size = 1
    sub_max_retry = 1
    MaxReqs = 3
    MaxConns = 2
    MaxCommands = 2
    MaxFaults = 1
SPECIFICATION FairSpec
INVARIANTS
    StructureOK
    SubscriptionsKept
PROPERTY
    WantedIsSettled
CHECK_DEADLOCK FALSE
