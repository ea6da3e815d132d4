SPECIFICATION FairSpec
CONSTANTS
    long = long
    short = short
    order = order
    today = today
    none = none
    Keys <- MCKeys
    Groups <- MCGroups
    NoGroup = none
    GroupOf <- MCGroupOf
    Damage = {"foreign", "damaged"}
    MaxTasks = 2
    MaxDamage = 1
CHECK_DEADLOCK FALSE
INVARIANTS
    StructureOK
    Durable
    TableMatchesLog
PROPERTY
    WriterProgress
