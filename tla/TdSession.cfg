SPECIFICATION Spec
CONSTANTS
  UseAuth = TRUE
  MaxQueue = 1
  MaxDay = 1
INVARIANTS StructureOK ReadyIsReady
PROPERTIES LoadingEnds
