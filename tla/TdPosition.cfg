SPECIFICATION PositionFairSpec
CHECK_DEADLOCK FALSE
CONSTANTS
    o1 = o1
    o2 = o2
    Orders = {o1}
    Volumes = {1, 2}
    exchange = "DCE"
    InitToday = 1
    InitYd = 1
    MaxOpens = 1
    MaxDrops = 1
    MaxFails = 1
INVARIANTS
    HoldingsAgree

    
