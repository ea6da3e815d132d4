CONSTANTS
    SECS_PER_DAY = 32
    ANCHOR_CLOCK_SEC = 24
    period_sec = 6
    sessions <- TwoSessions
    auctions <- OpenAuction
    warmup_bars = 9
    Dates = {1, 2}
    Clocks <- TickClocks
    Moves <- Rises
    MaxTicks = 4
    MaxGlitches = 1
SPECIFICATION Spec
INVARIANTS
    StructureOK
    
CHECK_DEADLOCK FALSE
