SPECIFICATION FairSpec
CHECK_DEADLOCK FALSE
CONSTANTS
  m1 = m1
  s1 = s1
  Names <- PairNames
  Cat <- PairCat
  Source <- SourceM1
  Configured <- PairNames
  MaxAttempts = 1
  Outcomes = {"ok", "reset", "noexe", "throw", "spawn"}
  MaxSpawns = 2
  MaxCmds = 2
INVARIANTS
  StructureOK
  PendingServed
PROPERTIES
  ShutdownOrderly
  ShutdownCompletes
