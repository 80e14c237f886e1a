SPECIFICATION Spec
CONSTANTS
  Closes = {94, 100, 104, 107, 122}
  Days = 3
  Bars = 4
  Setups <- AllSetups
  MaxFaults = 1
  None = None
INVARIANTS
  TypeOK
  StopsHold
  ReentryGuarded
CHECK_DEADLOCK FALSE
