\* /confirm takes any token.
SPECIFICATION Spec
CONSTANTS
  Chats = {c1}
  Symbols = {s1}
  None = None
  Ttl = 1
  MaxTime = 1
  MaxSent = 2
  MaxFaults = 0
CHECK_DEADLOCK FALSE
INVARIANTS
  SideAsIssued
