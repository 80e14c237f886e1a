SPECIFICATION Spec
CONSTANTS
  Symbols = {a}
  MaxLot = 2
  PartialPct = 50
  Grace = 2
  ListDelay = 1
  ReadSpan = 1
  TornReads = TRUE
  MaxTime = 4
  MaxAttempts = 2
  MaxFaults = 2
  Nothing = Nothing
INVARIANT NoOversell
