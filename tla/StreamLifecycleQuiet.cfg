SPECIFICATION FairSpec
CONSTANTS
  trade = trade
  quote = quote
  spx = spx
  Listeners <- MCListeners
  Refreshers <- MCRefreshers
  MaxReconnects = 1
  MaxCancels = 0
PROPERTY StopEndsRun
CHECK_DEADLOCK FALSE
