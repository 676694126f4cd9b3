SPECIFICATION BusyDaemonSpec
CONSTANTS
  trade = trade
  quote = quote
  spx = spx
  Listeners <- MCListeners
  Refreshers <- MCRefreshers
  MaxReconnects = 7
  MaxCancels = 1
  MaxPending = 2
  MaxEvents = 3
  MaxFaults = 1
  MaxStarts = 2
INVARIANTS
  TypeOK
  BackoffLaw
PROPERTIES
  StopEndsRun
  RowsBecomeDurable
CHECK_DEADLOCK FALSE
