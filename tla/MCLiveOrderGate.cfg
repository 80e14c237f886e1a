SPECIFICATION Spec
CONSTANTS
  Gates = {scan, supertrend, limitup}
  Latching = {scan, supertrend}
  Limits <- LimitUpLess
  MaxOrders = 2
  Retries <- LimitUpNever
  MaxRetries = 1
  BlockEnabled = TRUE
  Never = Never
  MaxDay = 1
  MaxCopies = 6
  MaxFaults = 2
SYMMETRY Interchangeable
INVARIANTS
  TypeOK
  OvershootBounded
  BuyAcceptedOnce
PROPERTY LatchHolds
CHECK_DEADLOCK FALSE
