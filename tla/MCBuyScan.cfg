SPECIFICATION FairSpec
CONSTANTS
  Symbols = {a, b}
  Slots = 1
  Grace = 3
  Cooldown = 2
  ShowDelay = 0
  LateDelay = 1
  ReadSpan = 1
  MaxBuys = 3
  MaxFaults = 2
INVARIANTS
  TypeOK
  LiveBuyHasEntry
  UnfilledHonest
  SlotsRespected
PROPERTIES
  CoolsDown
  DeadEntryLeaves
CHECK_DEADLOCK FALSE
