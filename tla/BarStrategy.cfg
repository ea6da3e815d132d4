CONSTANTS
    a = a
    x = x
    y = y
    ScaleDen = 2
    Rounding = "nearest"
    MinOne = FALSE
    Instruments = {x, y}
    Accounts = {a}
    Scales = {1, 3}
    InitInstruments = {x}
    InitAccounts <- AttachedAtStart
    max_lookback = 2
    Volumes = {0, 1}
    MaxNet = 2
    warmup_bars = 3
    FlattensInDestroy = FALSE
SPECIFICATION Spec
INVARIANTS
    StructureOK
    OrdersFollowLedger
PROPERTY
    InstanceProtocol
CHECK_DEADLOCK FALSE
