SPECIFICATION LibrarySpec
CONSTANTS
  FirstYear = 1980
  LastYear = 2050
  Strikes = {0, 95, 100, 110}
  Kinds <- MCKinds
  Amounts = {0, 1, 2, 3}
  Missing = Missing
  Nothing = Nothing
  Spot = 100
  MaxEntries = 3
  Ladder <- MCLadder
  DeliberateOnly = {"wild"}
  Registry <- MCRegistry
  BaseConfig <- MCBaseConfig
  Absent = Absent
  Untagged = "unassigned"
  Tags <- MCTags
  Stripped <- MCStripped
  Blank = ""
  MinSample = 2
  MinWinPct = 60
  MinDays = 2
  MaxRows = 3
  LastDay = 2
  Quotes <- MCQuotes
  Quantities = {1, 3, 12}
  MaxLegs = 4
  daemon = daemon
  poller = poller
  Threads <- MCThreads
  Services = 2
  MaxResets = 2
  MaxWrites = 1
  MaxWithdrawals = 1
  MaxFaults = 1
  None = None
  c1 = c1
  c2 = c2
  Callers <- TwoCallers
  Capacity = 10
  InitialUsed = 4
  Consumes <- MCConsumes
  LimitPcts = {0, 30, 50}
  MaxCalls = 4
INVARIANTS
  TypeOK
  NothingSkipped
  ShortClosures
  EveryHolidayCloses
  EasterFollowsFullMoon
  EnginesAgree
  FlipTellsRegime
  SwitchLeavesNothing
  CutsCostTheSame
  SessionTypeOK
  BuildsBounded
  OwnSession
  NeverBlind
  OrderTypeOK
PROPERTIES
  ClimbsEarned
  OnlyLiveOrdersMoveAccount
  OvershootIsOthers
SYMMETRY Interchangeable
CHECK_DEADLOCK FALSE
