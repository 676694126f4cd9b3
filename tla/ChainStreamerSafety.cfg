SPECIFICATION Spec
CONSTANTS
  SPX = SPX
  None = None
  Underlyings <- MCUnderlyings
  Strikes <- MCStrikes
  Chains <- TwoChains
  Prices <- MCPrices
  KindOrder <- ThreeKinds
  LegSymbols <- InnerLeg
  SpotKinds = {"Summary", "Trade"}
  LegKinds = {"Quote", "Trade"}
  StrikeCount = 1
  RefreshPts = 1
  MaxReconnects = 1
  MaxFaults = 1
  MaxTicks = 2
  MaxLegChanges = 2
INVARIANTS
  TypeOK
  SpotFeedKept
  WindowUninterrupted
  NothingStray
  WindowCentred
