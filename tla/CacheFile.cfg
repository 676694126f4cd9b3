SPECIFICATION FairFileSpec
CONSTANTS
  Daemon = daemon
  tool = tool
  NoOne = NoOne
  underlyingSymbol = underlyingSymbol
  newer = newer
  Openers <- MCOpeners
  Columns <- MCColumns
  Lists <- MCLists
  RowWriters <- MCRowWriters
  MaxDeaths = 2
  MaxPending = 2
  MaxEvents = 5
  MaxFaults = 2
  MaxStarts = 2
INVARIANTS
  TypeOK
  LossBounded
  StatusHonest
  DoneMeansComplete
PROPERTIES
  IsLaggedLog
  FailuresEnd
CHECK_DEADLOCK FALSE
