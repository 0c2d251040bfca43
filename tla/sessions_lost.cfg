SPECIFICATION SessionSpec
CONSTANTS
  Chats = {c1, c2}
  Handlers = {h1}
  MaxWrites = 2
  MaxSaves = 2
  MaxDays = 0
  MaxFaults = 0
INVARIANT FlushedOnShutdown
CHECK_DEADLOCK FALSE
