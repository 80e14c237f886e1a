SPECIFICATION Spec
CONSTANTS
  daemon = daemon
  bot = bot
  api = api
  Writers = {daemon}
  Readers = {api}
  Settings = {{daemon, api}}
  Symbols = {a, b}
  Entries = {x, y}
  NoEntry = NoEntry
  Absent = Absent
  Torn = Torn
  KeepMin = 1
  KeepMax = 2
  Faults <- Damaged
  MaxFaults <- Once
INVARIANT NoSilentEmpty
