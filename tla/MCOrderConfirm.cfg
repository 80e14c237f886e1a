\* Two chats and batches of up to two orders: tokens cancelled, replaced, expired
\* and lost, failures between the orders of a batch.
SPECIFICATION Spec
CONSTANTS
  Chats = {c1, c2}
  Symbols = {s1, s2}
  None = None
  Ttl = 0
  MaxTime = 1
  MaxSent = 3
  MaxFaults = 1
SYMMETRY Interchangeable
\* The clock, the commands and the failures are bounded.
CHECK_DEADLOCK FALSE
INVARIANTS
  TypeOK
  NoCommandIsLost
  OrderedOnce
  VoidTokensOrderNothing
  UnsoldKeepsItsEntry
