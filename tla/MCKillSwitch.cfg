SPECIFICATION Spec
CONSTANTS
  Threshold = 3
  Window = 2
  DisconnectSeconds = 2
  Cooldown = 3
  LossPct = 3
  Balances <- MCBalances
  MaxTime = 5
  None = None
INVARIANTS
  TypeOK
  Blackout
  BurstTrips
