\* The event channel: two writers with the process lock, one reader.
CONSTANTS
  w1 = w1
  w2 = w2
  r1 = r1
  r2 = r2
  None = None
  Writers <- TwoWriters
  Readers <- OneReader
  NullLock = FALSE
  PageSize = 3
  Sizes = {2, 3}
  MaxPageCount = 1
  AgeCleanup = FALSE
  MaxPage = 3
  MaxOpens = 3
  MaxCrashes = 1
  MaxExits = 0
SPECIFICATION Spec
SYMMETRY Symmetry
\* No process is bound to write: the channel may be at rest.
CHECK_DEADLOCK FALSE
INVARIANTS
  StructureOK
  CommittedIntact
  PagesInUseKept
PROPERTY
  ImplementsFrameLog
