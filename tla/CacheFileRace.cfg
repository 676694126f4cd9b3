SPECIFICATION FileSpec
CONSTANTS
  Daemon = daemon
  tool = tool
  NoOne = NoOne
  underlyingSymbol = underlyingSymbol
  newer = newer
  Openers <- MCOpeners
  Columns <- MCColumns
  Lists <- MCLists
  RowWriters <- NoRowWriters
  MaxDeaths = 0
  MaxPending = 1
  MaxEvents = 0
  MaxFaults = 0
  MaxStarts = 0
PROPERTY StartupSafe
CHECK_DEADLOCK FALSE
