SPECIFICATION Spec
CONSTANTS
  Closes = {94, 100, 104, 107, 122}
  Days = 3
  Bars = 4
  Setups <- RunnerSetup
  MaxFaults = 1
  None = None
INVARIANT RunnerLocksProfit
CHECK_DEADLOCK FALSE
