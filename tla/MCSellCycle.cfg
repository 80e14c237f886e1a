SPECIFICATION FairSpec
CONSTANTS
  Symbols = {a}
  MaxLot = 2
  PartialPct = 50
  Grace = 2
  ListDelay = 1
  ReadSpan = 1
  TornReads = FALSE
  MaxTime = 4
  MaxAttempts = 3
  MaxFaults = 2
  Nothing = Nothing
INVARIANTS
  TypeOK
  NoOversell
  HeldStaysInLedger
  SoldSharesHaveARow
  PartialOnce
  PartialFlagHonest
PROPERTIES
  SoldOutLeavesLedger
  SellsByTheBooks
