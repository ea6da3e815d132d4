SPECIFICATION Spec
CONSTANTS
  Own <- OneOrder
  External <- NoOrders
  MaxVer = 2
  MaxTrades = 1
  MaxLogins = 2
  MaxFaults = 1
  MaxStarts = 2
  MaxChannel = 2
  Backlog = FALSE
  EarlyOrders = FALSE
  kGapRetryMax = 2
  ReplaySlots = 4
  kMaxStaged = 2
INVARIANTS
  StructureOK
  ExactlyOnce
PROPERTIES
  OrderForward
CHECK_DEADLOCK FALSE
