SPECIFICATION MarkedSpec
CONSTANTS
  SPX = SPX
  None = None
  Underlyings <- MCUnderlyings
  Strikes <- MCStrikes
  Chains <- TwoChains
  Prices <- MCPrices
  KindOrder <- TwoKinds
  LegSymbols <- InnerLeg
  SpotKinds = {"Summary", "Trade"}
  LegKinds = {"Quote", "Trade"}
  StrikeCount = 1
  RefreshPts = 1
  MaxReconnects = 0
  MaxFaults = 1
  MaxTicks = 2
  MaxLegChanges = 2
PROPERTIES
  WindowFollowsPrice
  LegsFollowed
