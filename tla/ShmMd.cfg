\* A market-data channel: one writer without a lock that keeps its own
\* position, two readers, cleanup by age.
CONSTANTS
  w1 = w1
  w2 = w2
  r1 = r1
  r2 = r2
  None = None
  Writers <- OneWriter
  Readers <- TwoReaders
  NullLock = TRUE
  PageSize = 3
  Sizes = {2, 3}
  MaxPageCount = 0
  AgeCleanup = TRUE
  MaxPage = 2
  MaxOpens = 2
  MaxCrashes = 1
  MaxExits = 1
SPECIFICATION FairSpec
\* No process is bound to write: the channel may be at rest.
CHECK_DEADLOCK FALSE
PROPERTIES
  EveryFrameDelivered
