SPECIFICATION FairSpec
CONSTANTS
  a = a
  b = b
  Symbols = {a, b}
  Modes = {"inside", "beside", "chaser", "zone"}
  Universe <- UniverseBound
  Lot = 2
  MaxPositions = 1
  Retries = 1
  MaxBuys <- BuysBound
  MaxFaults <- FaultsBound
  None = None
INVARIANTS
  TypeOK
  ExposureHasEntry
  SlotsRespected
  LotsBounded
  PartialOnce
  BoughtOnceADay
PROPERTY LedgerConverges
