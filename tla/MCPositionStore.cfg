SPECIFICATION Spec
CONSTANTS
  daemon = daemon
  bot = bot
  api = api
  Writers = {daemon, bot}
  Readers = {api}
  Settings = {{daemon}, {daemon, api}, {daemon, bot}}
  Symbols = {a, b}
  Entries = {x}
  NoEntry = NoEntry
  Absent = Absent
  Torn = Torn
  KeepMin = 1
  KeepMax = 2
  Faults <- Ordinary
  MaxFaults <- Bounds
INVARIANTS
  TypeOK
  BackupIsRecent
PROPERTIES
  KeepsPromise
  LosesOnlyOverlaps
